----------------------------- MODULE Content_proofs -----------------------------
(***************************************************************************)
(* Proofs about what a user's content becomes: documents and their chunks,     *)
(* what is retrieved of them, the knowledge graph, the memories a source      *)
(* brings, and the turn of a chat that answers from them.  Each part gives the *)
(* inductive invariant its theorems need, shows that every action preserves    *)
(* it, and ends with the theorems.                                             *)
(***************************************************************************)
EXTENDS Documents, ChunkRetrieval, KnowledgeGraph, SourceSync, ChatTurn,
        FiniteSetTheorems, SequenceTheorems, WellFoundedInduction, TLAPS

(* Documents.  A document that waits is carried by a message or a request; one that no delete and *)
(* no twin message touched has at most one message, whose step says what Chroma and the table     *)
(* hold; and once the document is gone no message gets past its first step.                       *)

Busy == {"prepare", "cleanup", "insert", "upsert", "commit", "project"}

\* Some attempt at ingesting d may still write.
Working(d) == \E t \in Tasks : task[t].doc = d /\ task[t].step \in Busy

\* Something will take d further: a message before its last step, or a request about to send one.
Carried(d) ==
  \/ \E t \in Tasks : task[t].doc = d /\ task[t].step \in Waiting \ {"project"}
  \/ \E r \in Clients : api[r].doc = d /\ api[r].step = "enqueue"

RequestFields == {"step", "doc", "seen", "memories", "quiet"}
TaskFields == {"step", "doc", "retries", "mine", "old"}

DocumentTypes ==
  /\ DOMAIN status = Files /\ DOMAIN chunks = Files /\ DOMAIN vectors = Files
  /\ DOMAIN conv = {"step", "memories", "clean"}
  /\ conv.step \in {"open", "loaded", "committed", "closed"}
  /\ DOMAIN api = Clients /\ \A r \in Clients : DOMAIN api[r] = RequestFields
  /\ DOMAIN task = Tasks /\ \A t \in Tasks : DOMAIN task[t] = TaskFields

ClientSound(r) ==
  /\ api[r].step \in {"idle", "upload", "enqueue", "unindex", "delete", "retry"}
  /\ api[r].step = "idle" => api[r].doc = NoFile
  /\ api[r].step # "idle" => api[r].doc \in Files
  /\ api[r].step = "upload" => /\ status[api[r].doc] = "absent"
                               /\ \A q \in Clients \ {r} : api[q].doc # api[r].doc
  /\ api[r].step \in {"unindex", "delete"} => api[r].doc \in disturbed
  /\ api[r].step \in {"unindex", "delete"} /\ api[r].quiet => ~Working(api[r].doc)
  /\ api[r].step = "delete" /\ api[r].quiet => /\ vectors[api[r].doc] = {}
                                               /\ api[r].memories \/ api[r].doc \notin projected

\* The only message of an undisturbed document.
TaskAlone(t) ==
  /\ task[t].step \in Waiting =>
       \A s \in Tasks \ {t} : task[s].doc = task[t].doc => task[s].step \notin Waiting
  /\ task[t].step \in Busy \ {"project"} => status[task[t].doc] # "ready"
  /\ task[t].step \in {"insert", "upsert"} => vectors[task[t].doc] = {}
  /\ task[t].step = "commit" => vectors[task[t].doc] = {task[t].mine}
  /\ task[t].step \in {"upsert", "commit"} => task[t].old = chunks[task[t].doc]

TaskSound(t) ==
  /\ task[t].step # "unsent" => task[t].doc \in Files
  /\ task[t].step \in {"upsert", "commit"} => Exists(task[t].doc)
  /\ task[t].step # "unsent" /\ task[t].doc \notin disturbed => TaskAlone(t)

FileSound(d) ==
  /\ status[d] \in {"pending", "processing"} /\ d \notin dropped => Carried(d)
  /\ status[d] = "ready" /\ d \notin disturbed => vectors[d] = chunks[d] /\ \E n : chunks[d] = {n}
  /\ d \in deleted => /\ status[d] = "gone" /\ ~Working(d)
                      /\ chunks[d] = {} /\ vectors[d] = {} /\ d \notin projected
  /\ ~Open => ~Exists(d) /\ chunks[d] = {}
  /\ conv.step = "closed" /\ conv.clean => vectors[d] = {}

DocumentInv ==
  /\ DocumentTypes
  /\ \A r \in Clients : ClientSound(r)
  /\ \A t \in Tasks : TaskSound(t)
  /\ \A d \in Files : FileSound(d)
  /\ deleted \subseteq Files

--------------------------------------------------------------------------------
LEMMA DocumentInvInit ==
  ASSUME DocumentsInit
  PROVE  DocumentInv
<1>1. DocumentTypes
  BY DEF DocumentsInit, DocumentTypes, NoReq, NoTask, RequestFields, TaskFields
<1>2. \A r \in Clients : ClientSound(r)
  BY DEF DocumentsInit, ClientSound, NoReq
<1>3. \A t \in Tasks : TaskSound(t)
  BY DEF DocumentsInit, TaskSound, NoTask
<1>4. \A d \in Files : FileSound(d)
  BY DEF DocumentsInit, FileSound, Open
<1> QED BY <1>1, <1>2, <1>3, <1>4 DEF DocumentsInit, DocumentInv

--------------------------------------------------------------------------------
(* The requests *)

\* A request takes locals u.
Calls(r, u) ==
  DOMAIN api' = Clients /\ api'[r] = u /\ \A q \in Clients \ {r} : api'[q] = api[q]

LEMMA NoReqFacts ==
  NoReq.step = "idle" /\ NoReq.doc = NoFile /\ DOMAIN NoReq = RequestFields
BY DEF NoReq, RequestFields

\* A request that reads the row of a document changes nothing but its locals.
LEMMA LoadSound ==
  ASSUME DocumentInv, NEW r \in Clients, NEW d \in Files, UploadCheck(r, d) \/ DeleteLoad(r, d) \/ RetryLoad(r, d)
  PROVE  DocumentInv'
<1>1. PICK u : u = api'[r]
  OBVIOUS
<1>2. /\ api[r].step = "idle" /\ Calls(r, u) /\ DOMAIN u = RequestFields /\ u.doc = d
      /\ u.step \in {"upload", "unindex", "retry"}
      /\ u.step = "upload" => status[d] = "absent" /\ \A q \in Clients : api[q].doc # d
      /\ u.step # "upload" => status[d] # "absent"
      /\ u.step = "unindex" => d \in disturbed' /\ (u.quiet => ~Running(d))
  <2>1. CASE UploadCheck(r, d)
    BY <1>1, <2>1 DEF UploadCheck, DocumentInv, DocumentTypes, Calls, NoReq, RequestFields
  <2>2. CASE DeleteLoad(r, d)
    BY <1>1, <2>2 DEF DeleteLoad, Deletable, Exists, DocumentInv, DocumentTypes, Calls, NoReq, RequestFields
  <2>3. CASE RetryLoad(r, d)
    BY <1>1, <2>3 DEF RetryLoad, DocumentInv, DocumentTypes, Calls, NoReq, RequestFields
  <2> QED BY <2>1, <2>2, <2>3
<1>3. UNCHANGED <<status, chunks, vectors, projected, uploaded, conv, task, dropped, deleted>>
        /\ disturbed \subseteq disturbed'
  BY DEF UploadCheck, DeleteLoad, RetryLoad, store, history
<1>4. ~Running(d) => ~Working(d)
  BY DEF Running, Working, Alive, Busy, Waiting
<1>5. \A e : Working(e)' = Working(e)
  BY <1>3 DEF Working
<1>6. DocumentTypes'
  BY <1>2, <1>3 DEF Calls, DocumentInv, DocumentTypes
<1>7. \A q \in Clients : ClientSound(q)'
  <2> TAKE q \in Clients
  <2>1. CASE q = r
    BY <1>2, <1>3, <1>4, <1>5, <2>1 DEF Calls, ClientSound
  <2>2. CASE q # r
    <3>1. ClientSound(q) /\ api'[q] = api[q]
      BY <1>2, <2>2 DEF Calls, DocumentInv
    <3>2. api[q].step = "upload" => \A p \in Clients \ {q} : api'[p].doc # api[q].doc
      BY <1>2, <3>1 DEF Calls, ClientSound
    <3> QED BY <1>3, <1>5, <3>1, <3>2 DEF ClientSound
  <2> QED BY <2>1, <2>2
<1>8. \A t \in Tasks : TaskSound(t)'
  BY <1>3 DEF DocumentInv, TaskSound, TaskAlone, Exists
<1>9. \A e \in Files : FileSound(e)'
  <2> TAKE e \in Files
  <2>1. FileSound(e)
    BY DEF DocumentInv
  <2>2. Carried(e) => Carried(e)'
    BY <1>2, <1>3 DEF Carried, Calls
  <2> QED BY <1>3, <1>5, <2>1, <2>2 DEF FileSound, Exists, Open
<1> QED BY <1>3, <1>6, <1>7, <1>8, <1>9 DEF DocumentInv

\* Whatever a request does, the others keep their locals, and those that upload their document.
LEMMA OtherClients ==
  ASSUME DocumentInv, NEW r \in Clients, NEW u, Calls(r, u), u.doc \in {api[r].doc, NoFile},
         NEW q \in Clients \ {r}
  PROVE  /\ api'[q] = api[q]
         /\ api[q].step = "upload" => /\ \A p \in Clients \ {q} : api'[p].doc # api[q].doc
                                      /\ api[r].doc # api[q].doc
<1>1. ClientSound(q) /\ api'[q] = api[q]
  BY DEF Calls, DocumentInv
<1>2. NoFile \notin Files
  BY DocumentsAssumption
<1> QED BY <1>1, <1>2 DEF Calls, ClientSound

LEMMA UploadCommitSound ==
  ASSUME DocumentInv, NEW r \in Clients, UploadCommit(r)
  PROVE  DocumentInv'
<1>1. PICK d : d = api[r].doc
  OBVIOUS
<1>2. PICK u : u = api'[r]
  OBVIOUS
<1>3. /\ d \in Files /\ status[d] = "absent" /\ api[r].step = "upload"
      /\ \A q \in Clients \ {r} : api[q].doc # d
  BY <1>1 DEF UploadCommit, DocumentInv, ClientSound
<1>4. /\ Calls(r, u) /\ DOMAIN u = RequestFields
      /\ UNCHANGED <<chunks, vectors, projected, conv, task, disturbed, dropped, deleted>>
      /\ DOMAIN status' = Files /\ \A e \in Files \ {d} : status'[e] = status[e]
      /\ \/ Open /\ status'[d] = "pending" /\ u.step = "enqueue" /\ u.doc = d
         \/ u.step = "idle" /\ u.doc = NoFile /\ status' = status
  <2>1. CASE api' = [api EXCEPT ![r].step = "enqueue"] /\ Open /\ status' = [status EXCEPT ![d] = "pending"]
    BY <1>1, <1>2, <1>3, <2>1 DEF UploadCommit, history, DocumentInv, DocumentTypes, Calls, RequestFields
  <2>2. CASE Answered(r) /\ UNCHANGED status
    BY <1>2, <2>2 DEF UploadCommit, Answered, history, DocumentInv, DocumentTypes, Calls, NoReq, RequestFields
  <2> QED BY <1>1, <2>1, <2>2 DEF UploadCommit
<1>5. \A e : Working(e)' = Working(e)
  BY <1>4 DEF Working
<1>6. DocumentTypes'
  BY <1>4 DEF Calls, DocumentInv, DocumentTypes
<1>7. \A q \in Clients : ClientSound(q)'
  <2> TAKE q \in Clients
  <2>1. CASE q = r
    BY <1>3, <1>4, <2>1 DEF Calls, ClientSound
  <2>2. CASE q # r
    <3>1. /\ ClientSound(q) /\ api'[q] = api[q]
          /\ api[q].step = "upload" => \A p \in Clients \ {q} : api'[p].doc # api[q].doc
      BY <1>1, <1>4, <2>2, OtherClients DEF DocumentInv
    <3> QED BY <1>3, <1>4, <1>5, <2>2, <3>1 DEF ClientSound
  <2> QED BY <2>1, <2>2
<1>8. \A t \in Tasks : TaskSound(t)'
  <2> TAKE t \in Tasks
  <2>1. TaskSound(t)
    BY DEF DocumentInv
  <2> QED BY <1>3, <1>4, <2>1 DEF TaskSound, TaskAlone, Exists
<1>9. \A e \in Files : FileSound(e)'
  <2> TAKE e \in Files
  <2>1. FileSound(e)
    BY DEF DocumentInv
  <2>2. e # d => (Carried(e) => Carried(e)')
    BY <1>1, <1>4 DEF Carried, Calls
  <2>3. status'[e] = "pending" /\ e = d => Carried(e)'
    BY <1>3, <1>4 DEF Carried, Calls
  <2> QED BY <1>3, <1>4, <1>5, <2>1, <2>2, <2>3 DEF FileSound, Exists, Open
<1> QED BY <1>4, <1>6, <1>7, <1>8, <1>9 DEF DocumentInv

LEMMA RetryCommitSound ==
  ASSUME DocumentInv, NEW r \in Clients, RetryCommit(r)
  PROVE  DocumentInv'
<1>1. PICK d : d = api[r].doc
  OBVIOUS
<1>2. PICK u : u = api'[r]
  OBVIOUS
<1>3. d \in Files /\ api[r].step = "retry"
  BY <1>1 DEF RetryCommit, DocumentInv, ClientSound
<1>4. /\ Calls(r, u) /\ DOMAIN u = RequestFields
      /\ UNCHANGED <<chunks, vectors, projected, conv, task, disturbed, dropped, deleted>>
      /\ DOMAIN status' = Files /\ \A e \in Files \ {d} : status'[e] = status[e]
      /\ \/ Exists(d) /\ status'[d] = "pending" /\ u.step = "enqueue" /\ u.doc = d
         \/ u.step = "idle" /\ u.doc = NoFile /\ status' = status
  <2>1. CASE api' = [api EXCEPT ![r].step = "enqueue"] /\ Exists(d) /\ status' = [status EXCEPT ![d] = "pending"]
    BY <1>1, <1>2, <1>3, <2>1 DEF RetryCommit, history, DocumentInv, DocumentTypes, Calls, RequestFields
  <2>2. CASE Answered(r) /\ UNCHANGED status
    BY <1>2, <2>2 DEF RetryCommit, Answered, history, DocumentInv, DocumentTypes, Calls, NoReq, RequestFields
  <2> QED BY <1>1, <2>1, <2>2 DEF RetryCommit
<1>5. \A e : Working(e)' = Working(e)
  BY <1>4 DEF Working
<1>6. DocumentTypes'
  BY <1>4 DEF Calls, DocumentInv, DocumentTypes
<1>7. \A q \in Clients : ClientSound(q)'
  <2> TAKE q \in Clients
  <2>1. CASE q = r
    BY <1>3, <1>4, <2>1 DEF Calls, ClientSound
  <2>2. CASE q # r
    <3>1. /\ ClientSound(q) /\ api'[q] = api[q]
          /\ api[q].step = "upload" => \A p \in Clients \ {q} : api'[p].doc # api[q].doc
          /\ api[q].step = "upload" => d # api[q].doc
      BY <1>1, <1>4, <2>2, OtherClients DEF DocumentInv
    <3> QED BY <1>3, <1>4, <1>5, <2>2, <3>1 DEF ClientSound
  <2> QED BY <2>1, <2>2
<1>8. \A t \in Tasks : TaskSound(t)'
  <2> TAKE t \in Tasks
  <2>1. TaskSound(t)
    BY DEF DocumentInv
  <2> QED BY <1>3, <1>4, <2>1 DEF TaskSound, TaskAlone, Exists
<1>9. \A e \in Files : FileSound(e)'
  <2> TAKE e \in Files
  <2>1. FileSound(e)
    BY DEF DocumentInv
  <2>2. e # d \/ status' = status => (Carried(e) => Carried(e)')
    BY <1>1, <1>3, <1>4 DEF Carried, Calls
  <2>3. status'[e] = "pending" /\ e = d /\ u.step = "enqueue" => Carried(e)'
    BY <1>3, <1>4 DEF Carried, Calls
  <2> QED BY <1>3, <1>4, <1>5, <2>1, <2>2, <2>3 DEF FileSound, Exists, Open
<1> QED BY <1>4, <1>6, <1>7, <1>8, <1>9 DEF DocumentInv

\* A second message for a document is what disturbs it.
LEMMA EnqueueSound ==
  ASSUME DocumentInv, NEW r \in Clients, Enqueue(r)
  PROVE  DocumentInv'
<1>1. PICK d : d = api[r].doc
  OBVIOUS
<1>2. /\ d \in Files /\ Calls(r, NoReq)
      /\ UNCHANGED <<status, chunks, vectors, projected, conv, deleted>>
      /\ disturbed \subseteq disturbed' /\ dropped \subseteq dropped'
  BY <1>1, NoReqFacts DEF Enqueue, Answered, store, DocumentInv, DocumentTypes, ClientSound, Calls
<1>3. \A q \in Clients \ {r} :
          /\ ClientSound(q) /\ api'[q] = api[q]
          /\ api[q].step = "upload" => \A p \in Clients \ {q} : api'[p].doc # api[q].doc
  BY <1>2, NoReqFacts, OtherClients DEF DocumentInv
<1>4. ASSUME \A t \in Tasks : task[t].step \in Waiting => task'[t] = task[t], NEW e \in Files
      PROVE  Carried(e) => Carried(e)' \/ e = d
  BY <1>1, <1>2, <1>4 DEF Carried, Calls
<1>5. CASE dropped' = dropped \cup {d} /\ UNCHANGED <<task, disturbed>>
  <2>1. DocumentTypes'
    BY <1>2, <1>5, NoReqFacts DEF Calls, DocumentInv, DocumentTypes
  <2>2. \A e : Working(e)' = Working(e)
    BY <1>5 DEF Working
  <2>3. \A q \in Clients : ClientSound(q)'
    <3> TAKE q \in Clients
    <3>1. CASE q = r
      BY <1>2, <3>1, NoReqFacts DEF ClientSound, Calls
    <3>2. CASE q # r
      <4>1. /\ ClientSound(q) /\ api'[q] = api[q]
            /\ api[q].step = "upload" => \A p \in Clients \ {q} : api'[p].doc # api[q].doc
        BY <1>3, <3>2
      <4> QED BY <1>2, <1>5, <2>2, <4>1 DEF ClientSound
    <3> QED BY <3>1, <3>2
  <2>4. \A t \in Tasks : TaskSound(t)'
    BY <1>2, <1>5 DEF DocumentInv, TaskSound, TaskAlone, Exists
  <2>5. \A e \in Files : FileSound(e)'
    <3> TAKE e \in Files
    <3>1. FileSound(e) /\ (Carried(e) => Carried(e)' \/ e = d)
      BY <1>4, <1>5 DEF DocumentInv
    <3> QED BY <1>2, <1>5, <2>2, <3>1 DEF FileSound, Exists, Open
  <2> QED BY <1>2, <2>1, <2>3, <2>4, <2>5 DEF DocumentInv
<1>6. CASE \E t \in Tasks :
             /\ task[t].step = "unsent"
             /\ task' = [task EXCEPT ![t] = [NoTask EXCEPT !.step = "queued", !.doc = d]]
             /\ disturbed' = IF Alive(d) = {} THEN disturbed ELSE disturbed \cup {d}
  <2> PICK t \in Tasks :
             /\ task[t].step = "unsent"
             /\ task' = [task EXCEPT ![t] = [NoTask EXCEPT !.step = "queued", !.doc = d]]
             /\ disturbed' = IF Alive(d) = {} THEN disturbed ELSE disturbed \cup {d}
    BY <1>6
  <2>1. /\ DOMAIN task' = Tasks /\ DOMAIN task'[t] = TaskFields
        /\ task'[t].step = "queued" /\ task'[t].doc = d
        /\ \A s \in Tasks \ {t} : task'[s] = task[s]
    BY DEF DocumentInv, DocumentTypes, NoTask, TaskFields
  <2>2. DocumentTypes'
    BY <1>2, <2>1, NoReqFacts DEF Calls, DocumentInv, DocumentTypes
  <2>3. \A e : Working(e)' = Working(e)
    BY <2>1 DEF Working, Busy
  <2>4. \A q \in Clients : ClientSound(q)'
    <3> TAKE q \in Clients
    <3>1. CASE q = r
      BY <1>2, <3>1, NoReqFacts DEF ClientSound, Calls
    <3>2. CASE q # r
      <4>1. /\ ClientSound(q) /\ api'[q] = api[q]
            /\ api[q].step = "upload" => \A p \in Clients \ {q} : api'[p].doc # api[q].doc
        BY <1>3, <3>2
      <4> QED BY <1>2, <2>3, <4>1 DEF ClientSound
    <3> QED BY <3>1, <3>2
  <2>5. d \notin disturbed' => \A s \in Tasks : task[s].doc = d => task[s].step \notin Waiting
    BY DEF Alive
  <2>6. \A s \in Tasks : TaskSound(s)'
    <3> TAKE s \in Tasks
    <3>1. CASE s = t
      BY <1>2, <2>1, <2>5, <3>1 DEF TaskSound, TaskAlone, Busy
    <3>2. CASE s # t
      <4>1. TaskSound(s) /\ task'[s] = task[s]
        BY <2>1, <3>2 DEF DocumentInv
      <4>2. d \notin disturbed' => (task[s].doc = d => task[s].step \notin Waiting)
        BY <2>5
      <4>3. task[s].doc \notin disturbed' /\ task[s].step \in Waiting =>
              \A p \in Tasks \ {s} : task'[p].doc = task[s].doc => task'[p].step \notin Waiting
        <5> SUFFICES ASSUME task[s].doc \notin disturbed', task[s].step \in Waiting, NEW p \in Tasks \ {s},
                            task'[p].doc = task[s].doc
                     PROVE  task'[p].step \notin Waiting
          OBVIOUS
        <5>1. TaskAlone(s)
          BY <1>2, <4>1 DEF TaskSound, Waiting
        <5>2. p # t
          BY <2>1, <4>2
        <5> QED BY <2>1, <5>1, <5>2 DEF TaskAlone
      <4>4. task[s].step # "unsent" /\ task[s].doc \notin disturbed' => TaskAlone(s)
        BY <1>2, <4>1 DEF TaskSound
      <4> QED BY <1>2, <4>1, <4>3, <4>4 DEF TaskSound, TaskAlone, Exists
    <3> QED BY <3>1, <3>2
  <2>7. \A e \in Files : FileSound(e)'
    <3> TAKE e \in Files
    <3>1. FileSound(e) /\ (Carried(e) => Carried(e)' \/ e = d)
      <4>1. \A s \in Tasks : task[s].step \in Waiting => task'[s] = task[s]
        BY <2>1 DEF Waiting
      <4> QED BY <1>4, <4>1 DEF DocumentInv
    <3>2. Carried(d)'
      BY <2>1 DEF Carried, Waiting
    <3> QED BY <1>2, <2>3, <3>1, <3>2 DEF FileSound, Exists, Open
  <2> QED BY <1>2, <2>2, <2>4, <2>6, <2>7 DEF DocumentInv
<1> QED BY <1>1, <1>5, <1>6 DEF Enqueue

LEMMA DeleteUnindexSound ==
  ASSUME DocumentInv, NEW r \in Clients, DeleteUnindex(r)
  PROVE  DocumentInv'
<1>1. PICK d : d = api[r].doc
  OBVIOUS
<1>2. PICK u : u = api'[r]
  OBVIOUS
<1>3. d \in Files /\ d \in disturbed /\ api[r].step = "unindex" /\ (api[r].quiet => ~Working(d))
  BY <1>1 DEF DeleteUnindex, DocumentInv, ClientSound
<1>4. PICK ok \in BOOLEAN :
        /\ IF ok THEN DropVectors(d) ELSE UNCHANGED vectors
        /\ api' = [api EXCEPT ![r].step = "delete", ![r].memories = DerivedMemories({d}) # {},
                              ![r].quiet = @ /\ ok]
  BY <1>1 DEF DeleteUnindex
<1>5. /\ Calls(r, u) /\ DOMAIN u = RequestFields /\ u.step = "delete" /\ u.doc = d
      /\ u.quiet = (api[r].quiet /\ ok) /\ u.memories = (DerivedMemories({d}) # {})
  BY <1>1, <1>2, <1>4 DEF DocumentInv, DocumentTypes, Calls, RequestFields
<1>6. /\ UNCHANGED <<status, chunks, projected, conv, task, disturbed, dropped, deleted>>
      /\ DOMAIN vectors' = Files /\ \A e \in Files \ {d} : vectors'[e] = vectors[e]
      /\ vectors'[d] \in {{}, vectors[d]} /\ (ok => vectors'[d] = {})
  BY <1>3, <1>4 DEF DeleteUnindex, DropVectors, history, DocumentInv, DocumentTypes
<1>7. \A e : Working(e)' = Working(e)
  BY <1>6 DEF Working
<1>8. DocumentTypes'
  BY <1>5, <1>6 DEF Calls, DocumentInv, DocumentTypes
<1>9. u.memories \/ d \notin projected
  BY <1>5 DEF DerivedMemories
<1>10. u.quiet => vectors'[d] = {} /\ ~Working(d)
  BY <1>3, <1>5, <1>6
<1>11. \A q \in Clients : ClientSound(q)'
  <2> TAKE q \in Clients
  <2>1. CASE q = r
    BY <1>3, <1>5, <1>6, <1>7, <1>9, <1>10, <2>1 DEF Calls, ClientSound
  <2>2. CASE q # r
    <3>1. /\ ClientSound(q) /\ api'[q] = api[q]
          /\ api[q].step = "upload" => \A p \in Clients \ {q} : api'[p].doc # api[q].doc
      BY <1>1, <1>5, <2>2, OtherClients DEF DocumentInv
    <3> QED BY <1>6, <1>7, <3>1 DEF ClientSound
  <2> QED BY <2>1, <2>2
<1>12. \A t \in Tasks : TaskSound(t)'
  <2> TAKE t \in Tasks
  <2>1. TaskSound(t)
    BY DEF DocumentInv
  <2> QED BY <1>3, <1>6, <2>1 DEF TaskSound, TaskAlone, Exists
<1>13. \A e \in Files : FileSound(e)'
  <2> TAKE e \in Files
  <2>1. FileSound(e)
    BY DEF DocumentInv
  <2>2. Carried(e) => Carried(e)'
    BY <1>3, <1>5, <1>6 DEF Carried, Calls
  <2> QED BY <1>3, <1>6, <1>7, <2>1, <2>2 DEF FileSound, Exists, Open
<1> QED BY <1>6, <1>8, <1>11, <1>12, <1>13 DEF DocumentInv

\* What is deleted quietly has lost its vectors and memories, and no attempt is left to write them.
LEMMA DeleteCommitSound ==
  ASSUME DocumentInv, NEW r \in Clients, DocumentDeleteCommit(r)
  PROVE  DocumentInv'
<1>1. PICK d : d = api[r].doc
  OBVIOUS
<1>2. PICK u : u = api[r]
  OBVIOUS
<1>3. /\ d \in Files /\ d \in disturbed /\ u.step = "delete" /\ ~RowLocked(d)
      /\ u.quiet => ~Working(d) /\ vectors[d] = {} /\ (u.memories \/ d \notin projected)
  BY <1>1, <1>2 DEF DocumentDeleteCommit, DocumentInv, ClientSound
<1>4. /\ Calls(r, NoReq) /\ UNCHANGED <<vectors, conv, task, disturbed, dropped>>
      /\ \A e : Working(e)' = Working(e)
  BY <1>1, NoReqFacts DEF DocumentDeleteCommit, Answered, DocumentInv, DocumentTypes, Calls, Working
<1>5. \A q \in Clients \ {r} :
          /\ ClientSound(q) /\ api'[q] = api[q]
          /\ api[q].step = "upload" => /\ \A p \in Clients \ {q} : api'[p].doc # api[q].doc
                                       /\ d # api[q].doc
  BY <1>1, <1>4, NoReqFacts, OtherClients DEF DocumentInv
<1>6. \A e \in Files : Carried(e) => Carried(e)'
  <2>1. u.step # "enqueue"
    BY <1>3
  <2> QED BY <1>2, <1>4, <2>1 DEF Carried, Calls
<1>7. CASE UNCHANGED <<status, chunks, projected, uploaded, deleted>>
  <2>1. DocumentTypes'
    BY <1>4, <1>7, NoReqFacts DEF Calls, DocumentInv, DocumentTypes
  <2>2. \A q \in Clients : ClientSound(q)'
    <3> TAKE q \in Clients
    <3>1. CASE q = r
      BY <1>4, <3>1, NoReqFacts DEF ClientSound, Calls
    <3>2. CASE q # r
      <4>1. /\ ClientSound(q) /\ api'[q] = api[q]
            /\ api[q].step = "upload" => \A p \in Clients \ {q} : api'[p].doc # api[q].doc
        BY <1>5, <3>2
      <4> QED BY <1>4, <1>7, <4>1 DEF ClientSound
    <3> QED BY <3>1, <3>2
  <2>3. \A t \in Tasks : TaskSound(t)'
    BY <1>4, <1>7 DEF DocumentInv, TaskSound, TaskAlone, Exists
  <2>4. \A e \in Files : FileSound(e)'
    <3> TAKE e \in Files
    <3>1. FileSound(e) /\ (Carried(e) => Carried(e)')
      BY <1>6 DEF DocumentInv
    <3> QED BY <1>4, <1>7, <3>1 DEF FileSound, Exists, Open
  <2> QED BY <1>7, <2>1, <2>2, <2>3, <2>4 DEF DocumentInv
<1>8. CASE /\ Open
           /\ status' = [status EXCEPT ![d] = "gone"]
           /\ chunks' = [chunks EXCEPT ![d] = {}]
           /\ projected' = IF u.memories THEN projected \ {d} ELSE projected
           /\ deleted' = IF u.quiet THEN deleted \cup {d} ELSE deleted
  <2>1. /\ DOMAIN status' = Files /\ status'[d] = "gone" /\ \A e \in Files \ {d} : status'[e] = status[e]
        /\ DOMAIN chunks' = Files /\ chunks'[d] = {} /\ \A e \in Files \ {d} : chunks'[e] = chunks[e]
        /\ projected' \subseteq projected
    BY <1>3, <1>8 DEF DocumentInv, DocumentTypes
  <2>2. DocumentTypes'
    BY <1>4, <2>1, NoReqFacts DEF Calls, DocumentInv, DocumentTypes
  <2>3. \A q \in Clients : ClientSound(q)'
    <3> TAKE q \in Clients
    <3>1. CASE q = r
      BY <1>4, <3>1, NoReqFacts DEF ClientSound, Calls
    <3>2. CASE q # r
      <4>1. /\ ClientSound(q) /\ api'[q] = api[q]
            /\ api[q].step = "upload" => /\ \A p \in Clients \ {q} : api'[p].doc # api[q].doc
                                         /\ d # api[q].doc
        BY <1>5, <3>2
      <4> QED BY <1>4, <2>1, <4>1 DEF ClientSound
    <3> QED BY <3>1, <3>2
  <2>4. \A t \in Tasks : TaskSound(t)'
    <3> TAKE t \in Tasks
    <3>1. TaskSound(t)
      BY DEF DocumentInv
    <3>2. task[t].doc = d => task[t].step \notin {"upsert", "commit"}
      BY <1>3 DEF RowLocked, Alive, Waiting
    <3> QED BY <1>3, <1>4, <2>1, <3>1, <3>2 DEF TaskSound, TaskAlone, Exists
  <2>5. \A e \in Files : FileSound(e)'
    <3> TAKE e \in Files
    <3>1. FileSound(e) /\ (Carried(e) => Carried(e)')
      BY <1>6 DEF DocumentInv
    <3>2. CASE e = d
      <4>1. d \in deleted' => ~Working(d) /\ vectors[d] = {} /\ d \notin projected'
        <5>1. CASE d \in deleted
          BY <2>1, <3>1, <3>2, <5>1 DEF FileSound
        <5>2. CASE d \notin deleted
          BY <1>3, <1>8, <5>2
        <5> QED BY <5>1, <5>2
      <4>2. conv.step = "closed" /\ conv.clean => vectors[d] = {}
        BY <3>1, <3>2 DEF FileSound
      <4> QED BY <1>4, <2>1, <3>2, <4>1, <4>2 DEF FileSound, Exists, Open
    <3>3. CASE e # d
      <4>1. e \in deleted' => e \in deleted
        BY <1>8, <3>3
      <4> QED BY <1>4, <2>1, <3>1, <3>3, <4>1 DEF FileSound, Exists, Open
    <3> QED BY <3>2, <3>3
  <2> QED BY <1>3, <1>8, <2>2, <2>3, <2>4, <2>5 DEF DocumentInv
<1> QED BY <1>1, <1>2, <1>7, <1>8 DEF DocumentDeleteCommit

--------------------------------------------------------------------------------
(* The conversation *)

\* The rows of all documents go while no worker holds one of them; Chroma is cleared later.
LEMMA ConversationSound ==
  ASSUME DocumentInv, ConversationLoad \/ ConversationCommit \/ ConversationCollection
  PROVE  DocumentInv'
<1>1. UNCHANGED <<api, task, disturbed, dropped, deleted>> /\ projected' \subseteq projected
        /\ \A e : Working(e)' = Working(e) /\ Carried(e)' = Carried(e)
  BY DEF ConversationLoad, ConversationCommit, ConversationCollection, history, Working, Carried
<1>2. /\ DOMAIN conv' = {"step", "memories", "clean"} /\ conv'.step \in {"open", "loaded", "committed", "closed"}
      /\ DOMAIN status' = Files /\ DOMAIN chunks' = Files /\ DOMAIN vectors' = Files
  BY DEF ConversationLoad, ConversationCommit, ConversationCollection, DropCollection, DocumentInv, DocumentTypes
<1>3. DocumentTypes'
  BY <1>1, <1>2 DEF DocumentInv, DocumentTypes
<1>4. CASE UNCHANGED <<status, chunks, vectors, projected>> /\ Open /\ Open'
  <2>1. \A q \in Clients : ClientSound(q)'
    BY <1>1, <1>4 DEF DocumentInv, ClientSound
  <2>2. \A t \in Tasks : TaskSound(t)'
    BY <1>1, <1>4 DEF DocumentInv, TaskSound, TaskAlone, Exists
  <2>3. \A e \in Files : FileSound(e)'
    <3> TAKE e \in Files
    <3>1. FileSound(e)
      BY DEF DocumentInv
    <3>2. conv'.step # "closed"
      BY <1>4 DEF Open
    <3> QED BY <1>1, <1>4, <3>1, <3>2 DEF FileSound, Exists
  <2> QED BY <1>1, <1>3, <2>1, <2>2, <2>3 DEF DocumentInv
<1>5. CASE /\ conv'.step = "committed" /\ UNCHANGED vectors /\ \A d \in Files : ~RowLocked(d)
           /\ status' = [d \in Files |-> IF Exists(d) THEN "gone" ELSE status[d]]
           /\ chunks' = [d \in Files |-> {}]
  <2>1. \A d \in Files : /\ chunks'[d] = {} /\ (Exists(d) => status'[d] = "gone")
                         /\ (~Exists(d) => status'[d] = status[d])
    BY <1>5
  <2>2. \A q \in Clients : ClientSound(q)'
    <3> TAKE q \in Clients
    <3>1. ClientSound(q)
      BY DEF DocumentInv
    <3>2. api[q].step = "upload" => status'[api[q].doc] = "absent"
      BY <2>1, <3>1 DEF ClientSound, Exists
    <3> QED BY <1>1, <1>5, <3>1, <3>2 DEF ClientSound
  <2>3. \A t \in Tasks : TaskSound(t)'
    <3> TAKE t \in Tasks
    <3>1. TaskSound(t)
      BY DEF DocumentInv
    <3>2. task[t].step \notin {"upsert", "commit"}
      BY <1>5, <3>1 DEF TaskSound, RowLocked, Alive, Waiting
    <3>3. task[t].step # "unsent" => status'[task[t].doc] # "ready"
      BY <2>1, <3>1 DEF TaskSound, Exists
    <3> QED BY <1>1, <1>5, <3>1, <3>2, <3>3 DEF TaskSound, TaskAlone, Busy
  <2>4. \A e \in Files : FileSound(e)'
    <3> TAKE e \in Files
    <3>1. FileSound(e) /\ ~Exists(e)'
      BY <2>1 DEF DocumentInv, Exists
    <3>2. e \in deleted => status'[e] = "gone"
      BY <2>1, <3>1 DEF FileSound
    <3>3. conv'.step # "closed"
      BY <1>5
    <3> QED BY <1>1, <1>5, <2>1, <3>1, <3>2, <3>3 DEF FileSound, Exists
  <2> QED BY <1>1, <1>3, <2>2, <2>3, <2>4 DEF DocumentInv
<1>6. CASE /\ conv.step = "committed" /\ conv'.step = "closed" /\ UNCHANGED <<status, chunks, projected>>
           /\ \E ok \in BOOLEAN : conv'.clean = ok /\ IF ok THEN vectors' = [d \in Files |-> {}] ELSE UNCHANGED vectors
  <2>1. \A d \in Files : ~Exists(d) /\ chunks[d] = {} /\ vectors'[d] \in {{}, vectors[d]}
                           /\ (conv'.clean => vectors'[d] = {})
    <3>1. ~Open
      BY <1>6 DEF Open
    <3> QED BY <1>6, <3>1 DEF DocumentInv, FileSound
  <2>2. \A q \in Clients : ClientSound(q)'
    <3> TAKE q \in Clients
    <3>1. ClientSound(q)
      BY DEF DocumentInv
    <3> QED BY <1>1, <1>6, <2>1, <3>1 DEF ClientSound
  <2>3. \A t \in Tasks : TaskSound(t)'
    <3> TAKE t \in Tasks
    <3>1. TaskSound(t)
      BY DEF DocumentInv
    <3>2. task[t].step \notin {"upsert", "commit"}
      BY <2>1, <3>1 DEF TaskSound
    <3>3. task[t].step = "insert" => vectors'[task[t].doc] \in {{}, vectors[task[t].doc]}
      BY <2>1, <3>1 DEF TaskSound
    <3> QED BY <1>1, <1>6, <3>1, <3>2, <3>3 DEF TaskSound, TaskAlone, Busy
  <2>4. \A e \in Files : FileSound(e)'
    <3> TAKE e \in Files
    <3>1. FileSound(e)
      BY DEF DocumentInv
    <3> QED BY <1>1, <1>6, <2>1, <3>1 DEF FileSound, Exists
  <2> QED BY <1>1, <1>3, <2>2, <2>3, <2>4 DEF DocumentInv
<1>7. CASE ConversationLoad
  <2>1. UNCHANGED <<status, chunks, vectors, projected>> /\ conv.step = "open" /\ conv'.step = "loaded"
    BY <1>7 DEF ConversationLoad, DocumentInv, DocumentTypes
  <2> QED BY <1>4, <2>1 DEF Open
<1>8. CASE ConversationCommit
  <2>1. CASE /\ conv' = [conv EXCEPT !.step = "open", !.memories = {}] /\ UNCHANGED <<status, chunks, projected>>
    <3>1. conv.step = "loaded" /\ conv'.step = "open" /\ UNCHANGED vectors
      BY <1>8, <2>1 DEF ConversationCommit, DocumentInv, DocumentTypes
    <3> QED BY <1>4, <2>1, <3>1 DEF Open
  <2>2. CASE /\ conv' = [conv EXCEPT !.step = "committed"]
             /\ status' = [d \in Files |-> IF Exists(d) THEN "gone" ELSE status[d]]
             /\ chunks' = [d \in Files |-> {}]
    <3>1. conv'.step = "committed"
      BY <2>2 DEF DocumentInv, DocumentTypes
    <3> QED BY <1>5, <1>8, <2>2, <3>1 DEF ConversationCommit
  <2> QED BY <1>8, <2>1, <2>2 DEF ConversationCommit
<1>9. CASE ConversationCollection
  <2>1. conv.step = "committed" /\ conv'.step = "closed" /\ UNCHANGED <<status, chunks, projected>>
    BY <1>9 DEF ConversationCollection, DocumentInv, DocumentTypes
  <2>2. PICK ok \in BOOLEAN : /\ conv' = [conv EXCEPT !.step = "closed", !.clean = ok]
                              /\ IF ok THEN DropCollection ELSE UNCHANGED vectors
    BY <1>9 DEF ConversationCollection
  <2>3. conv'.clean = ok
    BY <2>2 DEF DocumentInv, DocumentTypes
  <2> QED BY <1>6, <2>1, <2>2, <2>3 DEF DropCollection
<1> QED BY <1>7, <1>8, <1>9

--------------------------------------------------------------------------------
(* The worker *)

\* The message t about d moves to a step.
TaskMoves(t, d, step) ==
  /\ DOMAIN task' = Tasks /\ DOMAIN task'[t] = TaskFields
  /\ task[t].step \in Waiting /\ task[t].doc = d
  /\ task'[t].step = step /\ task'[t].doc = d
  /\ \A s \in Tasks \ {t} : task'[s] = task[s]

LEMMA TaskToFacts ==
  ASSUME DocumentInv, NEW t \in Tasks, NEW step, TaskTo(t, step), task[t].step \in Waiting
  PROVE  TaskMoves(t, task[t].doc, step) /\ task'[t].mine = task[t].mine /\ task'[t].old = task[t].old
BY DEF TaskTo, TaskMoves, DocumentInv, DocumentTypes, TaskFields

\* What the move leaves as it was.
LEMMA WorkerFrame ==
  ASSUME DocumentInv, NEW t \in Tasks, NEW d, NEW step, TaskMoves(t, d, step)
  PROVE  /\ d \in Files
         /\ \A s \in Tasks \ {t} : task'[s] = task[s] /\ TaskSound(s)
         /\ \A s \in Tasks \ {t} : task[s].doc = d /\ d \notin disturbed => task[s].step \notin Waiting
         /\ \A e \in Files \ {d} : Working(e)' = Working(e)
         /\ (\A r \in Clients : api'[r].doc = api[r].doc /\ api'[r].step = api[r].step) =>
              \A e \in Files \ {d} : Carried(e) => Carried(e)'
         /\ step \notin Busy => (Working(d)' => Working(d))
         /\ task[t].step \in Busy => Working(d)
         /\ step \in Waiting \ {"project"} => Carried(d)'
<1>1. TaskSound(t) /\ task[t].step # "unsent" /\ task[t].doc = d /\ task[t].step \in Waiting
  BY DEF DocumentInv, TaskMoves, Waiting
<1>2. d \in Files
  BY <1>1 DEF TaskSound
<1>3. \A s \in Tasks \ {t} : task'[s] = task[s] /\ TaskSound(s)
  BY DEF DocumentInv, TaskMoves
<1>4. \A s \in Tasks \ {t} : task[s].doc = d /\ d \notin disturbed => task[s].step \notin Waiting
  BY <1>1 DEF TaskSound, TaskAlone
<1>5. \A e \in Files \ {d} : Working(e)' = Working(e)
  BY DEF TaskMoves, Working
<1>6. (\A r \in Clients : api'[r].doc = api[r].doc /\ api'[r].step = api[r].step) =>
              \A e \in Files \ {d} : Carried(e) => Carried(e)'
  BY DEF TaskMoves, Carried
<1>7. step \notin Busy => (Working(d)' => Working(d))
  BY DEF TaskMoves, Working
<1>8. task[t].step \in Busy => Working(d)
  BY DEF TaskMoves, Working
<1>9. step \in Waiting \ {"project"} => Carried(d)'
  BY DEF TaskMoves, Carried
<1> QED BY <1>2, <1>3, <1>4, <1>5, <1>6, <1>7, <1>8, <1>9

\* The other documents are as they were.
OnlyTouches(d) ==
  /\ DOMAIN status' = Files /\ DOMAIN chunks' = Files /\ DOMAIN vectors' = Files
  /\ \A e \in Files \ {d} : /\ status'[e] = status[e] /\ chunks'[e] = chunks[e] /\ vectors'[e] = vectors[e]
                            /\ (e \in projected') = (e \in projected)
  /\ UNCHANGED <<conv, deleted>> /\ dropped \subseteq dropped'
  /\ disturbed \subseteq disturbed' /\ disturbed' \subseteq disturbed \cup {d}

\* Requests keep their locals, but may learn that a worker is running.
Quieter ==
  /\ DOMAIN api' = Clients
  /\ \A r \in Clients : /\ DOMAIN api'[r] = RequestFields
                        /\ api'[r].step = api[r].step /\ api'[r].doc = api[r].doc
                        /\ api'[r].memories = api[r].memories
                        /\ api'[r].quiet => api[r].quiet

\* What a step of a worker may do to its own document.
Mild(d) ==
  /\ Working(d)' /\ ~Working(d) => \A r \in Clients : api[r].doc = d => ~api'[r].quiet
  /\ ~Working(d) => vectors'[d] = vectors[d] /\ projected' = projected
  /\ ~Exists(d) => status'[d] = status[d]
  /\ Exists(d) => Exists(d)'

\* A step of a worker is sound when its message and its document are.
LEMMA WorkerSound ==
  ASSUME DocumentInv, NEW t \in Tasks, NEW d, NEW step, TaskMoves(t, d, step), OnlyTouches(d), Quieter, Mild(d),
         TaskSound(t)', FileSound(d)'
  PROVE  DocumentInv'
<1>1. /\ d \in Files
      /\ \A s \in Tasks \ {t} : task'[s] = task[s] /\ TaskSound(s)
      /\ \A s \in Tasks \ {t} : task[s].doc = d /\ d \notin disturbed => task[s].step \notin Waiting
      /\ \A e \in Files \ {d} : Working(e)' = Working(e)
      /\ \A e \in Files \ {d} : Carried(e) => Carried(e)'
  <2>1. \A r \in Clients : api'[r].doc = api[r].doc /\ api'[r].step = api[r].step
    BY DEF Quieter
  <2> QED BY <2>1, WorkerFrame
<1>2. DocumentTypes'
  BY DEF TaskMoves, OnlyTouches, Quieter, DocumentInv, DocumentTypes
<1>3. \A r \in Clients : ClientSound(r)'
  <2> TAKE r \in Clients
  <2>1. ClientSound(r) /\ api'[r].step = api[r].step /\ api'[r].doc = api[r].doc
          /\ api'[r].memories = api[r].memories /\ (api'[r].quiet => api[r].quiet)
          /\ \A q \in Clients : api'[q].doc = api[q].doc
    BY DEF Quieter, DocumentInv
  <2>2. disturbed \subseteq disturbed'
    BY DEF OnlyTouches
  <2>3. CASE api[r].doc = d
    <3>1. api[r].step = "upload" => status'[d] = "absent"
      BY <2>1, <2>3 DEF ClientSound, Exists, Mild
    <3>2. api[r].step \in {"unindex", "delete"} /\ api'[r].quiet => ~Working(d)'
      BY <2>1, <2>3 DEF ClientSound, Mild
    <3>3. api[r].step = "delete" /\ api'[r].quiet => vectors'[d] = {} /\ (api[r].memories \/ d \notin projected')
      BY <2>1, <2>3 DEF ClientSound, Mild
    <3> QED BY <2>1, <2>2, <2>3, <3>1, <3>2, <3>3 DEF ClientSound
  <2>4. CASE api[r].doc # d /\ api[r].doc \in Files
    <3>1. PICK e : e = api[r].doc
      OBVIOUS
    <3>2. /\ status'[e] = status[e] /\ vectors'[e] = vectors[e] /\ (e \in projected') = (e \in projected)
          /\ Working(e)' = Working(e)
      BY <1>1, <2>4, <3>1 DEF OnlyTouches
    <3> QED BY <2>1, <2>2, <3>1, <3>2 DEF ClientSound
  <2>5. CASE api[r].step = "idle"
    BY <2>1, <2>5 DEF ClientSound
  <2> QED BY <2>1, <2>3, <2>4, <2>5 DEF ClientSound
<1>4. \A s \in Tasks : TaskSound(s)'
  <2> TAKE s \in Tasks
  <2>1. CASE s # t /\ task[s].doc = d
    <3>1. task'[s] = task[s] /\ TaskSound(s)
      BY <1>1, <2>1
    <3>2. d \notin disturbed' => task[s].step \notin Waiting
      BY <1>1, <2>1 DEF OnlyTouches
    <3>3. task[s].step \notin Waiting => TaskAlone(s)'
      BY <3>1 DEF TaskAlone, Waiting, Busy
    <3> QED BY <2>1, <3>1, <3>2, <3>3 DEF TaskSound, Mild
  <2>2. CASE s # t /\ task[s].doc # d
    <3>1. task'[s] = task[s] /\ TaskSound(s)
      BY <1>1, <2>2
    <3>2. CASE task[s].step = "unsent"
      BY <3>1, <3>2 DEF TaskSound
    <3>3. CASE task[s].step # "unsent"
      <4>1. PICK e \in Files : e = task[s].doc
        BY <3>1, <3>3 DEF TaskSound
      <4>2. /\ status'[e] = status[e] /\ vectors'[e] = vectors[e] /\ chunks'[e] = chunks[e]
            /\ (e \in disturbed') = (e \in disturbed)
        BY <2>2, <4>1 DEF OnlyTouches
      <4>3. TaskAlone(s) => TaskAlone(s)'
        <5>1. ASSUME TaskAlone(s), task[s].step \in Waiting, NEW p \in Tasks \ {s}, task'[p].doc = e
              PROVE  task'[p].step \notin Waiting
          BY <2>2, <4>1, <5>1 DEF TaskAlone, TaskMoves
        <5> QED BY <3>1, <4>1, <4>2, <5>1 DEF TaskAlone
      <4> QED BY <3>1, <4>1, <4>2, <4>3 DEF TaskSound, Exists
    <3> QED BY <3>2, <3>3
  <2> QED BY <2>1, <2>2
<1>5. \A e \in Files : FileSound(e)'
  <2> TAKE e \in Files
  <2>1. CASE e # d
    <3>1. /\ FileSound(e) /\ Working(e)' = Working(e) /\ (Carried(e) => Carried(e)')
          /\ status'[e] = status[e] /\ vectors'[e] = vectors[e] /\ chunks'[e] = chunks[e]
          /\ (e \in projected') = (e \in projected)
          /\ disturbed \subseteq disturbed' /\ dropped \subseteq dropped' /\ UNCHANGED <<conv, deleted>>
      BY <1>1, <2>1 DEF OnlyTouches, DocumentInv
    <3> QED BY <3>1 DEF FileSound, Exists, Open
  <2> QED BY <2>1
<1> QED BY <1>2, <1>3, <1>4, <1>5 DEF OnlyTouches, DocumentInv

\* A step that only moves its message on.
LEMMA TaskMoveSound ==
  ASSUME DocumentInv, NEW t \in Tasks, NEW d, NEW step, TaskMoves(t, d, step),
         UNCHANGED <<status, chunks, vectors, projected, conv, api, disturbed, deleted>>, dropped \subseteq dropped',
         step \in Busy => task[t].step \in Busy,
         step \in Waiting \ {"project"} \/ d \in dropped' \/ status[d] \notin {"pending", "processing"},
         TaskSound(t)'
  PROVE  DocumentInv'
<1>1. d \in Files /\ (Working(d)' => Working(d)) /\ (step \in Waiting \ {"project"} => Carried(d)')
  BY WorkerFrame
<1>2. OnlyTouches(d) /\ Quieter /\ Mild(d)
  BY <1>1 DEF OnlyTouches, Quieter, Mild, Exists, DocumentInv, DocumentTypes
<1>3. FileSound(d)'
  <2>1. FileSound(d)
    BY <1>1 DEF DocumentInv
  <2> QED BY <1>1, <2>1 DEF FileSound, Exists, Open
<1> QED BY <1>2, <1>3, WorkerSound

LEMMA PrepareSound ==
  ASSUME DocumentInv, NEW t \in Tasks, Prepare(t) \/ Crash(t)
  PROVE  DocumentInv'
<1>1. PICK d, step : d = task[t].doc /\ step = task'[t].step
  OBVIOUS
<1>2. step \in {"cleanup", "queued"} /\ task[t].step \in Waiting /\ TaskTo(t, step)
        /\ (step = "cleanup" => task[t].step = "prepare")
  BY <1>1 DEF Prepare, Crash, TaskTo, Waiting, DocumentInv, DocumentTypes, TaskFields
<1>3. TaskMoves(t, d, step)
  BY <1>1, <1>2, TaskToFacts
<1>4. UNCHANGED <<status, chunks, vectors, projected, conv, api, disturbed, dropped, deleted>>
  BY DEF Prepare, Crash, store, history
<1>5. TaskSound(t) /\ task[t].step # "unsent" /\ task[t].doc = d
  BY <1>1, <1>2 DEF DocumentInv, Waiting
<1>6. TaskSound(t)'
  <2>1. d \in Files
    BY <1>5 DEF TaskSound
  <2>2. TaskAlone(t) => TaskAlone(t)'
    BY <1>2, <1>3, <1>4, <1>5 DEF TaskAlone, TaskMoves, Busy
  <2> QED BY <1>2, <1>3, <1>4, <1>5, <2>1, <2>2 DEF TaskSound, TaskMoves
<1>7. step \in Busy => task[t].step \in Busy
  BY <1>2 DEF Busy
<1>8. step \in Waiting \ {"project"}
  BY <1>2 DEF Waiting
<1> QED BY <1>3, <1>4, <1>6, <1>7, <1>8, TaskMoveSound

\* A message that may not be tried again is given up, or goes on to mark the document.
LEMMA ErrorSound ==
  ASSUME DocumentInv, NEW t \in Tasks, Error(t)
  PROVE  DocumentInv'
<1>1. PICK d, step : d = task[t].doc /\ step = task'[t].step
  OBVIOUS
<1>2. /\ TaskMoves(t, d, step) /\ step \in {"queued", "gaveup", "failing"} /\ dropped \subseteq dropped'
      /\ step = "gaveup" => d \in dropped'
  <2>1. task[t].step \in Waiting
    BY DEF Error, Raising, Waiting
  <2>2. CASE task' = [task EXCEPT ![t].step = "queued", ![t].retries = @ + 1] /\ UNCHANGED dropped
    BY <1>1, <2>1, <2>2 DEF TaskMoves, DocumentInv, DocumentTypes, TaskFields
  <2>3. CASE TaskTo(t, "gaveup") /\ dropped' = dropped \cup {task[t].doc}
    <3>1. TaskMoves(t, task[t].doc, "gaveup")
      BY <2>1, <2>3, TaskToFacts
    <3> QED BY <1>1, <2>3, <3>1 DEF TaskMoves
  <2>4. CASE TaskTo(t, "failing") /\ UNCHANGED dropped
    <3>1. TaskMoves(t, task[t].doc, "failing")
      BY <2>1, <2>4, TaskToFacts
    <3> QED BY <1>1, <2>4, <3>1 DEF TaskMoves
  <2> QED BY <2>2, <2>3, <2>4 DEF Error
<1>3. UNCHANGED <<status, chunks, vectors, projected, conv, api, disturbed, deleted>>
  BY DEF Error, store
<1>4. TaskSound(t) /\ task[t].step # "unsent" /\ task[t].doc = d
  BY <1>1 DEF DocumentInv, Error, Raising
<1>5. TaskSound(t)'
  <2>1. d \in Files
    BY <1>4 DEF TaskSound
  <2>2. TaskAlone(t) => TaskAlone(t)'
    BY <1>2, <1>3, <1>4 DEF TaskAlone, TaskMoves, Busy
  <2> QED BY <1>2, <1>3, <1>4, <2>1, <2>2 DEF TaskSound, TaskMoves
<1>6. step \notin Busy
  BY <1>2 DEF Busy
<1>7. step \in Waiting \ {"project"} \/ d \in dropped'
  BY <1>2 DEF Waiting
<1>8. \/ step \in Waiting \ {"project"} \/ d \in dropped' \/ status[d] \notin {"pending", "processing"}
  BY <1>7
<1> QED BY <1>2, <1>3, <1>5, <1>6, <1>8, TaskMoveSound

LEMMA InsertSound ==
  ASSUME DocumentInv, NEW t \in Tasks, InsertRows(t)
  PROVE  DocumentInv'
<1>1. PICK d : d = task[t].doc
  OBVIOUS
<1>2. /\ task[t].step = "insert" /\ Exists(d) /\ task'[t].old = chunks[d] /\ TaskMoves(t, d, "upsert")
  BY <1>1 DEF InsertRows, TaskMoves, Waiting, DocumentInv, DocumentTypes, TaskFields
<1>3. UNCHANGED <<status, chunks, vectors, projected, conv, api, disturbed, dropped, deleted>>
  BY DEF InsertRows, store, history
<1>4. TaskSound(t) /\ task[t].step \in Waiting
  BY <1>2 DEF DocumentInv, Waiting
<1>5. TaskSound(t)'
  <2>1. d \in Files
    BY <1>1, <1>2, <1>4 DEF TaskSound
  <2>2. TaskAlone(t) => TaskAlone(t)'
    BY <1>1, <1>2, <1>3, <1>4 DEF TaskAlone, TaskMoves, Busy
  <2> QED BY <1>1, <1>2, <1>3, <1>4, <2>1, <2>2 DEF TaskSound, TaskMoves, Exists
<1>6. task[t].step \in Busy /\ "upsert" \in Waiting \ {"project"}
  BY <1>2 DEF Busy, Waiting
<1> QED BY <1>2, <1>3, <1>5, <1>6, TaskMoveSound

\* The document is there: its row is marked, and no request takes it for idle.
LEMMA StartSound ==
  ASSUME DocumentInv, NEW t \in Tasks, StartIngest(t)
  PROVE  DocumentInv'
<1>1. PICK d : d = task[t].doc
  OBVIOUS
<1>2. task[t].step = "queued" /\ task[t].step \in Waiting /\ TaskSound(t) /\ d \in Files
  BY <1>1 DEF StartIngest, Waiting, DocumentInv, TaskSound
<1>3. CASE ~Exists(d)
  <2>1. TaskTo(t, "ended") /\ UNCHANGED <<status, chunks, vectors, projected, conv, api, disturbed, dropped, deleted>>
    BY <1>1, <1>3 DEF StartIngest, history
  <2>2. TaskMoves(t, d, "ended")
    BY <1>1, <1>2, <2>1, TaskToFacts
  <2>3. TaskSound(t)'
    BY <1>2, <2>2 DEF TaskSound, TaskAlone, TaskMoves, Waiting, Busy
  <2>4. status[d] \notin {"pending", "processing"} /\ "ended" \notin Busy
    BY <1>3 DEF Exists, Busy
  <2> QED BY <2>1, <2>2, <2>3, <2>4, TaskMoveSound
<1>4. CASE Exists(d)
  <2>1. /\ status' = [status EXCEPT ![d] = "processing"]
        /\ task' = [task EXCEPT ![t].step = "prepare", ![t].mine = stamp + 1]
        /\ api' = [r \in Clients |-> IF api[r].doc = d THEN [api[r] EXCEPT !.quiet = FALSE] ELSE api[r]]
        /\ UNCHANGED <<chunks, vectors, projected, conv, disturbed, dropped, deleted>>
    BY <1>1, <1>4 DEF StartIngest, history
  <2>2. TaskMoves(t, d, "prepare")
    BY <1>1, <1>2, <2>1 DEF TaskMoves, DocumentInv, DocumentTypes, TaskFields
  <2>3. status'[d] = "processing" /\ OnlyTouches(d)
    BY <1>2, <2>1 DEF OnlyTouches, DocumentInv, DocumentTypes
  <2>4. Quieter /\ \A r \in Clients : api[r].doc = d => ~api'[r].quiet
    BY <2>1 DEF Quieter, DocumentInv, DocumentTypes, RequestFields
  <2>5. Mild(d)
    BY <1>4, <2>1, <2>3, <2>4 DEF Mild, Exists
  <2>6. TaskSound(t)'
    <3>1. d \notin disturbed => \A s \in Tasks \ {t} : task[s].doc = d => task[s].step \notin Waiting
      BY <1>1, <1>2 DEF TaskSound, TaskAlone
    <3> QED BY <1>2, <2>1, <2>2, <2>3, <3>1 DEF TaskSound, TaskAlone, TaskMoves, Waiting, Busy
  <2>7. FileSound(d)'
    <3>1. FileSound(d) /\ d \notin deleted /\ Open
      BY <1>2, <1>4 DEF DocumentInv, FileSound, Exists
    <3>2. Carried(d)'
      BY <2>2 DEF Carried, TaskMoves, Waiting
    <3> QED BY <2>1, <2>3, <3>1, <3>2 DEF FileSound, Open
  <2> QED BY <2>2, <2>3, <2>4, <2>5, <2>6, <2>7, WorkerSound
<1> QED BY <1>3, <1>4

\* Chroma holds nothing of the document, or it is disturbed.
LEMMA CleanupSound ==
  ASSUME DocumentInv, NEW t \in Tasks, CleanupVectors(t)
  PROVE  DocumentInv'
<1>1. PICK d : d = task[t].doc
  OBVIOUS
<1>2. task[t].step = "cleanup" /\ task[t].step \in Waiting /\ TaskSound(t) /\ d \in Files /\ FileSound(d)
  BY <1>1 DEF CleanupVectors, Waiting, DocumentInv, TaskSound
<1>3. TaskMoves(t, d, "insert")
  BY <1>1, <1>2, TaskToFacts DEF CleanupVectors
<1>4. /\ UNCHANGED <<status, chunks, projected, conv, api, dropped, deleted>>
      /\ DOMAIN vectors' = Files /\ \A e \in Files \ {d} : vectors'[e] = vectors[e]
      /\ vectors'[d] \in {{}, vectors[d]}
      /\ disturbed \subseteq disturbed' /\ disturbed' \subseteq disturbed \cup {d}
      /\ d \notin disturbed' => vectors'[d] = {}
  BY <1>1, <1>2 DEF CleanupVectors, DropVectors, DocumentInv, DocumentTypes
<1>5. OnlyTouches(d) /\ Quieter
  BY <1>4 DEF OnlyTouches, Quieter, DocumentInv, DocumentTypes
<1>6. Working(d) /\ Carried(d)'
  <2>1. task[t].step \in Busy /\ "insert" \in Waiting \ {"project"}
    BY <1>2 DEF Busy, Waiting
  <2> QED BY <1>3, <2>1, WorkerFrame
<1>7. Mild(d)
  BY <1>4, <1>6 DEF Mild, Exists
<1>8. d \notin disturbed => TaskAlone(t) /\ status[d] # "ready"
  BY <1>1, <1>2 DEF TaskSound, TaskAlone, Busy
<1>9. TaskSound(t)'
  BY <1>1, <1>2, <1>3, <1>4, <1>8 DEF TaskSound, TaskAlone, TaskMoves, Waiting, Busy
<1>10. FileSound(d)'
  BY <1>2, <1>4, <1>6, <1>8 DEF FileSound, Exists, Open
<1> QED BY <1>3, <1>5, <1>7, <1>9, <1>10, WorkerSound

\* The vectors of this attempt, and no others.
LEMMA UpsertSound ==
  ASSUME DocumentInv, NEW t \in Tasks, UpsertVectors(t)
  PROVE  DocumentInv'
<1>1. PICK d : d = task[t].doc
  OBVIOUS
<1>2. task[t].step = "upsert" /\ task[t].step \in Waiting /\ TaskSound(t) /\ d \in Files /\ FileSound(d) /\ Exists(d)
  BY <1>1 DEF UpsertVectors, Waiting, DocumentInv, TaskSound
<1>3. TaskMoves(t, d, "commit") /\ task'[t].mine = task[t].mine /\ task'[t].old = task[t].old
  BY <1>1, <1>2, TaskToFacts DEF UpsertVectors
<1>4. /\ UNCHANGED <<status, chunks, projected, conv, api, disturbed, dropped, deleted>>
      /\ DOMAIN vectors' = Files /\ \A e \in Files \ {d} : vectors'[e] = vectors[e]
      /\ vectors'[d] = vectors[d] \cup {task[t].mine}
  BY <1>1, <1>2 DEF UpsertVectors, WriteVectors, history, DocumentInv, DocumentTypes
<1>5. OnlyTouches(d) /\ Quieter
  BY <1>4 DEF OnlyTouches, Quieter, DocumentInv, DocumentTypes
<1>6. Working(d) /\ Carried(d)'
  <2>1. task[t].step \in Busy /\ "commit" \in Waiting \ {"project"}
    BY <1>2 DEF Busy, Waiting
  <2> QED BY <1>3, <2>1, WorkerFrame
<1>7. Mild(d)
  BY <1>4, <1>6 DEF Mild, Exists
<1>8. d \notin disturbed => TaskAlone(t) /\ status[d] # "ready" /\ vectors[d] = {} /\ task[t].old = chunks[d]
  BY <1>1, <1>2 DEF TaskSound, TaskAlone, Busy
<1>9. TaskSound(t)'
  <2>1. d \notin disturbed => vectors'[d] = {task[t].mine}
    BY <1>4, <1>8
  <2> QED BY <1>1, <1>2, <1>3, <1>4, <1>8, <2>1 DEF TaskSound, TaskAlone, TaskMoves, Waiting, Busy, Exists
<1>10. FileSound(d)'
  <2>1. d \notin deleted /\ Open
    BY <1>2 DEF FileSound, Exists
  <2> QED BY <1>2, <1>4, <1>6, <1>8, <2>1 DEF FileSound, Exists, Open
<1> QED BY <1>3, <1>5, <1>7, <1>9, <1>10, WorkerSound

\* Chunk rows and vectors are now those of this attempt.
LEMMA CommitReadySound ==
  ASSUME DocumentInv, NEW t \in Tasks, CommitReady(t)
  PROVE  DocumentInv'
<1>1. PICK d : d = task[t].doc
  OBVIOUS
<1>2. task[t].step = "commit" /\ task[t].step \in Waiting /\ TaskSound(t) /\ d \in Files /\ FileSound(d) /\ Exists(d)
  BY <1>1 DEF CommitReady, Waiting, DocumentInv, TaskSound
<1>3. TaskMoves(t, d, "project")
  BY <1>1, <1>2, TaskToFacts DEF CommitReady
<1>4. /\ UNCHANGED <<vectors, projected, conv, api, disturbed, dropped, deleted>>
      /\ DOMAIN status' = Files /\ \A e \in Files \ {d} : status'[e] = status[e]
      /\ DOMAIN chunks' = Files /\ \A e \in Files \ {d} : chunks'[e] = chunks[e]
      /\ status'[d] = "ready" /\ chunks'[d] = (chunks[d] \ task[t].old) \cup {task[t].mine}
  BY <1>1, <1>2 DEF CommitReady, history, DocumentInv, DocumentTypes
<1>5. OnlyTouches(d) /\ Quieter
  BY <1>4 DEF OnlyTouches, Quieter, DocumentInv, DocumentTypes
<1>6. Working(d)
  <2>1. task[t].step \in Busy
    BY <1>2 DEF Busy
  <2> QED BY <1>3, <2>1, WorkerFrame
<1>7. Mild(d)
  BY <1>2, <1>4, <1>6 DEF Mild, Exists
<1>8. d \notin disturbed => TaskAlone(t) /\ vectors[d] = {task[t].mine} /\ task[t].old = chunks[d]
  BY <1>1, <1>2 DEF TaskSound, TaskAlone
<1>9. TaskSound(t)'
  BY <1>1, <1>2, <1>3, <1>4, <1>8 DEF TaskSound, TaskAlone, TaskMoves, Waiting, Busy
<1>10. FileSound(d)'
  <2>1. d \notin deleted /\ Open
    BY <1>2 DEF FileSound, Exists
  <2>2. d \notin disturbed => chunks'[d] = {task[t].mine}
    BY <1>4, <1>8
  <2>3. d \notin disturbed => vectors'[d] = chunks'[d] /\ \E n : chunks'[d] = {n}
    BY <1>4, <1>8, <2>2
  <2>4. ~(conv.step = "closed")
    BY <2>1 DEF Open
  <2> QED BY <1>4, <2>1, <2>3, <2>4 DEF FileSound, Open
<1> QED BY <1>3, <1>5, <1>7, <1>9, <1>10, WorkerSound

LEMMA ProjectSound ==
  ASSUME DocumentInv, NEW t \in Tasks, Project(t)
  PROVE  DocumentInv'
<1>1. PICK d : d = task[t].doc
  OBVIOUS
<1>2. task[t].step = "project" /\ task[t].step \in Waiting /\ TaskSound(t) /\ d \in Files /\ FileSound(d)
  BY <1>1 DEF Project, Waiting, DocumentInv, TaskSound
<1>3. TaskMoves(t, d, "ended")
  BY <1>1, <1>2, TaskToFacts DEF Project
<1>4. /\ UNCHANGED <<status, chunks, vectors, conv, api, disturbed, dropped, deleted>>
      /\ projected' \in {projected, projected \cup {d}}
  BY <1>1 DEF Project, BuildDocumentMemories, history
<1>5. OnlyTouches(d) /\ Quieter
  BY <1>4 DEF OnlyTouches, Quieter, DocumentInv, DocumentTypes
<1>6. Working(d)
  <2>1. task[t].step \in Busy
    BY <1>2 DEF Busy
  <2> QED BY <1>3, <2>1, WorkerFrame
<1>7. Mild(d)
  BY <1>4, <1>6 DEF Mild, Exists
<1>8. TaskSound(t)'
  BY <1>1, <1>2, <1>3 DEF TaskSound, TaskAlone, TaskMoves, Waiting, Busy
<1>9. FileSound(d)'
  <2>1. d \notin deleted
    BY <1>2, <1>6 DEF FileSound
  <2>2. Carried(d) => Carried(d)'
    BY <1>2, <1>3, <1>4 DEF Carried, TaskMoves
  <2> QED BY <1>2, <1>4, <2>1, <2>2 DEF FileSound, Exists, Open
<1> QED BY <1>3, <1>5, <1>7, <1>8, <1>9, WorkerSound

LEMMA FailSound ==
  ASSUME DocumentInv, NEW t \in Tasks, Fail(t)
  PROVE  DocumentInv'
<1>1. PICK d : d = task[t].doc
  OBVIOUS
<1>2. task[t].step = "failing" /\ task[t].step \in Waiting /\ TaskSound(t) /\ d \in Files /\ FileSound(d)
  BY <1>1 DEF Fail, Waiting, DocumentInv, TaskSound
<1>3. TaskMoves(t, d, "gaveup")
  BY <1>1, <1>2, TaskToFacts DEF Fail
<1>4. /\ UNCHANGED <<chunks, vectors, projected, conv, api, disturbed, deleted>>
      /\ DOMAIN status' = Files /\ \A e \in Files \ {d} : status'[e] = status[e]
      /\ dropped \subseteq dropped'
      /\ \/ Exists(d) /\ status'[d] = "failed"
         \/ status'[d] = status[d] /\ (Exists(d) => d \in dropped')
  BY <1>1, <1>2 DEF Fail, DocumentInv, DocumentTypes
<1>5. OnlyTouches(d) /\ Quieter
  BY <1>4 DEF OnlyTouches, Quieter, DocumentInv, DocumentTypes
<1>6. Working(d)' => Working(d)
  <2>1. "gaveup" \notin Busy
    BY DEF Busy
  <2> QED BY <1>3, <2>1, WorkerFrame
<1>7. Mild(d)
  BY <1>4, <1>6 DEF Mild, Exists
<1>8. TaskSound(t)'
  BY <1>1, <1>2, <1>3 DEF TaskSound, TaskAlone, TaskMoves, Waiting, Busy
<1>9. FileSound(d)'
  BY <1>2, <1>4, <1>6 DEF FileSound, Exists, Open
<1> QED BY <1>3, <1>5, <1>7, <1>8, <1>9, WorkerSound

--------------------------------------------------------------------------------
LEMMA DocumentInvNext ==
  ASSUME DocumentInv, [DocumentsNext]_documentVars
  PROVE  DocumentInv'
<1>1. CASE \E r \in Clients : RequestStep(r)
  BY <1>1, LoadSound, UploadCommitSound, EnqueueSound, DeleteUnindexSound, DeleteCommitSound, RetryCommitSound
     DEF RequestStep
<1>2. CASE ConversationLoad \/ ConversationCommit \/ ConversationCollection
  BY <1>2, ConversationSound
<1>3. CASE \E t \in Tasks : WorkerStep(t) \/ Crash(t)
  <2> PICK t \in Tasks : WorkerStep(t) \/ Crash(t)
    BY <1>3
  <2>1. CASE StartIngest(t)
    BY <2>1, StartSound
  <2>2. CASE Prepare(t) \/ Crash(t)
    BY <2>2, PrepareSound
  <2>3. CASE CleanupVectors(t)
    BY <2>3, CleanupSound
  <2>4. CASE InsertRows(t)
    BY <2>4, InsertSound
  <2>5. CASE UpsertVectors(t)
    BY <2>5, UpsertSound
  <2>6. CASE CommitReady(t)
    BY <2>6, CommitReadySound
  <2>7. CASE Project(t)
    BY <2>7, ProjectSound
  <2>8. CASE Error(t)
    BY <2>8, ErrorSound
  <2>9. CASE Fail(t)
    BY <2>9, FailSound
  <2> QED BY <2>1, <2>2, <2>3, <2>4, <2>5, <2>6, <2>7, <2>8, <2>9 DEF WorkerStep
<1>4. CASE UNCHANGED documentVars
  <2>1. \A r \in Clients : ClientSound(r)'
    BY <1>4 DEF DocumentInv, documentVars, ClientSound, Working
  <2>2. \A t \in Tasks : TaskSound(t)'
    BY <1>4 DEF DocumentInv, documentVars, TaskSound, TaskAlone, Exists
  <2>3. \A d \in Files : FileSound(d)'
    <3> TAKE d \in Files
    <3>1. FileSound(d) /\ Working(d)' = Working(d) /\ Carried(d)' = Carried(d)
      BY <1>4 DEF DocumentInv, documentVars, Working, Carried
    <3> QED BY <1>4, <3>1 DEF documentVars, FileSound, Exists, Open
  <2> QED BY <1>4, <2>1, <2>2, <2>3 DEF DocumentInv, DocumentTypes, documentVars
<1> QED BY <1>1, <1>2, <1>3, <1>4 DEF DocumentsNext

\* A document that waits has a message, or a request about to send one.
THEOREM WaitingIsCarried == DocumentsSpec => []WaitingHasMessage
<1>1. DocumentInv => WaitingHasMessage
  BY DEF DocumentInv, FileSound, Carried, WaitingHasMessage, Alive
<1> QED BY <1>1, DocumentInvInit, DocumentInvNext, PTL DEF DocumentsSpec

\* A document that shows "ready" has the chunk rows of one attempt, and exactly their vectors.
THEOREM ReadyIsFound == DocumentsSpec => []ReadyIsSearchable
<1>1. \A n : Cardinality({n}) = 1
  BY FS_Singleton
<1>2. DocumentInv => ReadyIsSearchable
  BY <1>1 DEF DocumentInv, DocumentTypes, FileSound, ReadyIsSearchable
<1> QED BY <1>2, DocumentInvInit, DocumentInvNext, PTL DEF DocumentsSpec

\* No message delivered later brings back what a delete took, and no worker writes a vector
\* behind the one that cleared the conversation's collection.
THEOREM DeletedNeverReturns == DocumentsSpec => []DeletedStaysGone
<1>1. DocumentInv => DeletedStaysGone
  BY DEF DocumentInv, FileSound, DeletedStaysGone, Open
<1> QED BY <1>1, DocumentInvInit, DocumentInvNext, PTL DEF DocumentsSpec

--------------------------------------------------------------------------------
(* Retrieval of chunks.  What a retrieval or the cached answers still hold of a deleted document *)
(* was found before the deletion was committed: since then no more time has passed than that      *)
(* retrieval took, and the answer it cached has left.                                             *)

\* The document is gone and so are its vectors: no search finds it any more.
Lost(d) == paper[d].step = "gone" /\ paper[d].dropped

RetrievalTypes ==
  /\ paper \in [Papers -> [step : {"new", "vectors", "ready", "cleaned", "gone"},
                            dropped : BOOLEAN]]
  /\ answer \in [docs : SUBSET Papers, left : Nat] /\ answer.left <= QueryTTL
  /\ ask \in [Asks -> [step : {"idle", "search", "parents", "rerank", "answered"}, age : Nat,
                        after : SUBSET Papers, found : SUBSET Papers, given : SUBSET Papers]]
  /\ since \in [Papers -> Nat]

\* A retrieval with these locals: what it found that is lost now, it found before.
AskSound(a) ==
  /\ a.step \notin {"idle", "answered"} =>
       /\ a.age <= Patience /\ a.given = {}
       /\ \A d \in a.found : Lost(d) => since[d] <= a.age /\ d \notin a.after
  /\ \A d \in a.after : Lost(d)
  /\ a.step = "answered" => a.given \cap a.after = {}

\* The same of the cached answer.
AnswerSound ==
  answer.left > 0 => \A d \in answer.docs : Lost(d) => since[d] + answer.left <= Fading

RetrievalInv ==
  /\ RetrievalTypes
  /\ \A q \in Asks : AskSound(ask[q])
  /\ AnswerSound
  /\ \A d \in Papers : paper[d].step # "gone" => since[d] = 0

LEMMA RetrievalNumbers == QueryTTL \in Nat /\ QueryTTL > 0 /\ Patience \in Nat /\ Fading \in Nat
                            /\ Fading = Patience + QueryTTL
BY RetrievalAssumption DEF Fading

LEMMA RetrievalInvInit ==
  ASSUME RetrievalInit
  PROVE  RetrievalInv
<1>1. RetrievalTypes
  <2>1. paper \in [Papers -> [step : {"new", "vectors", "ready", "cleaned", "gone"},
                              dropped : BOOLEAN]]
    <3>1. {FALSE} \subseteq BOOLEAN
      OBVIOUS
    <3> QED BY <3>1 DEF RetrievalInit
  <2>2. answer.docs = {} /\ answer.left = 0 /\ answer = [docs |-> {}, left |-> 0]
    BY DEF RetrievalInit, NoAnswer
  <2>3. answer \in [docs : SUBSET Papers, left : Nat] /\ answer.left <= QueryTTL
    BY <2>2, RetrievalNumbers
  <2>4. ask \in [Asks -> [step : {"idle", "search", "parents", "rerank", "answered"}, age : Nat,
                        after : SUBSET Papers, found : SUBSET Papers, given : SUBSET Papers]]
    BY DEF RetrievalInit, NoAsk
  <2>5. since \in [Papers -> Nat]
    BY DEF RetrievalInit
  <2> QED BY <2>1, <2>3, <2>4, <2>5 DEF RetrievalTypes
<1>2. \A q \in Asks : AskSound(ask[q])
  BY DEF RetrievalInit, AskSound, NoAsk
<1>3. AnswerSound
  BY DEF RetrievalInit, AnswerSound, NoAnswer
<1> QED BY <1>1, <1>2, <1>3 DEF RetrievalInit, RetrievalInv

--------------------------------------------------------------------------------
\* A step of a retrieval leaves the documents alone: its own locals and the answer must be sound.
LEMMA AskSteps ==
  ASSUME RetrievalInv, NEW q \in Asks, NEW a, ask' = [ask EXCEPT ![q] = a],
         RetrievalTypes', AskSound(a)', AnswerSound',
         UNCHANGED <<paper, since>>
  PROVE  RetrievalInv'
<1>1. \A p \in Asks \ {q} : AskSound(ask[p])'
  <2> TAKE p \in Asks \ {q}
  <2>1. PICK b : b = ask[p] /\ AskSound(b) /\ b = ask'[p]
    BY DEF RetrievalInv, RetrievalTypes
  <2>2. AskSound(b)'
    BY <2>1 DEF AskSound, Lost
  <2> QED BY <2>1, <2>2 DEF AskSound, Lost
<1>2. AskSound(ask[q])'
  <2>1. ask'[q] = a
    BY DEF RetrievalInv, RetrievalTypes
  <2> QED BY <2>1 DEF AskSound, Lost
<1>3. \A d \in Papers : paper'[d].step # "gone" => since'[d] = 0
  BY DEF RetrievalInv
<1> QED BY <1>1, <1>2, <1>3 DEF RetrievalInv

LEMMA LookupSound ==
  ASSUME RetrievalInv, NEW q \in Asks, Lookup(q)
  PROVE  RetrievalInv'
<1>1. PICK new : new = [NoAsk EXCEPT !.after = Faded]
  OBVIOUS
<1>2. PICK a : a = IF Cached THEN [new EXCEPT !.step = "answered", !.given = answer.docs]
                   ELSE [new EXCEPT !.step = "search"]
  OBVIOUS
<1>3. /\ ask' = [ask EXCEPT ![q] = a]
      /\ UNCHANGED <<paper, parents, answer, since>>
  BY <1>1, <1>2 DEF Lookup, ReadAnswer
<1>4. Faded \subseteq Papers /\ \A d \in Faded : Lost(d) /\ since[d] = Fading
  BY DEF Faded, In, Lost
<1>5. /\ a \in [step : {"search", "answered"}, age : {0}, after : {Faded}, found : {{}}, given : {{}, answer.docs}]
      /\ a.step = "answered" => answer.left > 0 /\ a.given = answer.docs
      /\ a.step = "search" => a.given = {}
  BY <1>1, <1>2 DEF NoAsk, Cached
<1>6. RetrievalTypes'
  BY <1>3, <1>4, <1>5 DEF RetrievalInv, RetrievalTypes
<1>7. a.step = "answered" => a.given \cap a.after = {}
  <2> SUFFICES ASSUME a.step = "answered", NEW d \in answer.docs, d \in Faded PROVE FALSE
    BY <1>5
  <2>1. answer.left > 0 /\ answer.left \in Nat
    BY <1>5 DEF RetrievalInv, RetrievalTypes
  <2>2. since[d] + answer.left <= Fading
    BY <1>4, <2>1 DEF RetrievalInv, AnswerSound
  <2>3. since[d] = Fading
    BY <1>4
  <2> QED BY <2>1, <2>2, <2>3, RetrievalNumbers
<1>8. AskSound(a)'
  BY <1>3, <1>4, <1>5, <1>7, RetrievalNumbers DEF AskSound, Lost
<1>9. AnswerSound'
  BY <1>3 DEF RetrievalInv, AnswerSound, Lost
<1> QED BY <1>3, <1>6, <1>8, <1>9, AskSteps

\* A lost document is in no index.
LEMMA SearchSound ==
  ASSUME RetrievalInv, NEW q \in Asks, Search(q)
  PROVE  RetrievalInv'
<1>1. PICK near \in {{}, Vectors} :
        ask' = [ask EXCEPT ![q].step = IF Fused(Keywords, near) = {} THEN "answered" ELSE "parents",
                           ![q].found = Fused(Keywords, near)]
  BY DEF Search
<1>2. PICK found : found = Fused(Keywords, near)
  OBVIOUS
<1>s. PICK step \in {"answered", "parents"} : step = IF found = {} THEN "answered" ELSE "parents"
  OBVIOUS
<1>3. PICK a : a = [ask[q] EXCEPT !.step = step, !.found = found]
  OBVIOUS
<1>4. ask' = [ask EXCEPT ![q] = a] /\ UNCHANGED <<paper, parents, answer, since>>
  BY <1>1, <1>2, <1>s, <1>3 DEF Search, RetrievalInv, RetrievalTypes
<1>5. found \subseteq Papers /\ \A d \in found : ~Lost(d)
  BY <1>2 DEF Fused, Keywords, Vectors, Deleted, In, Lost
<1>6. PICK b : b = ask[q] /\ AskSound(b) /\ b.step = "search"
                 /\ b \in [step : {"idle", "search", "parents", "rerank", "answered"}, age : Nat,
                        after : SUBSET Papers, found : SUBSET Papers, given : SUBSET Papers]
  BY DEF RetrievalInv, RetrievalTypes, Search
<1>7. /\ a \in [step : {"idle", "search", "parents", "rerank", "answered"}, age : Nat,
                after : SUBSET Papers, found : SUBSET Papers, given : SUBSET Papers]
      /\ a.age = b.age /\ a.after = b.after /\ a.given = b.given /\ a.found = found
      /\ a.step \in {"answered", "parents"}
  BY <1>3, <1>5, <1>6
<1>8. RetrievalTypes'
  BY <1>4, <1>7 DEF RetrievalInv, RetrievalTypes
<1>9. b.age <= Patience /\ b.given = {} /\ \A d \in b.after : Lost(d)
  BY <1>6 DEF AskSound
<1>10. AskSound(a)'
  BY <1>4, <1>5, <1>7, <1>9 DEF AskSound, Lost
<1>11. AnswerSound'
  BY <1>4 DEF RetrievalInv, AnswerSound, Lost
<1> QED BY <1>4, <1>8, <1>10, <1>11, AskSteps

LEMMA ExpandSound ==
  ASSUME RetrievalInv, NEW q \in Asks, Expand(q)
  PROVE  RetrievalInv'
<1>1. PICK found : found = IF Known(ask[q].found) = {} THEN ask[q].found ELSE Known(ask[q].found)
  OBVIOUS
<1>2. PICK a : a = [ask[q] EXCEPT !.step = "rerank", !.found = found]
  OBVIOUS
<1>3. ask' = [ask EXCEPT ![q] = a] /\ UNCHANGED <<paper, answer, since>>
  BY <1>1, <1>2 DEF Expand, RetrievalInv, RetrievalTypes
<1>4. PICK b : b = ask[q] /\ AskSound(b) /\ b.step = "parents"
                 /\ b \in [step : {"idle", "search", "parents", "rerank", "answered"}, age : Nat,
                        after : SUBSET Papers, found : SUBSET Papers, given : SUBSET Papers]
  BY DEF RetrievalInv, RetrievalTypes, Expand
<1>5. found \subseteq b.found
  BY <1>1, <1>4 DEF Known
<1>6. /\ a \in [step : {"idle", "search", "parents", "rerank", "answered"}, age : Nat,
                after : SUBSET Papers, found : SUBSET Papers, given : SUBSET Papers]
      /\ a.age = b.age /\ a.after = b.after /\ a.given = b.given /\ a.found = found
      /\ a.step = "rerank"
  BY <1>2, <1>4, <1>5
<1>7. RetrievalTypes'
  BY <1>3, <1>6 DEF RetrievalInv, RetrievalTypes
<1>8. AskSound(a)'
  BY <1>3, <1>4, <1>5, <1>6 DEF AskSound, Lost
<1>9. AnswerSound'
  BY <1>3 DEF RetrievalInv, AnswerSound, Lost
<1> QED BY <1>3, <1>7, <1>8, <1>9, AskSteps

\* What is cached now is as old as the retrieval, which is no older than Patience.
LEMMA RerankSound ==
  ASSUME RetrievalInv, NEW q \in Asks, Rerank(q)
  PROVE  RetrievalInv'
<1>1. PICK final \in Reranked(ask[q].found) :
        /\ ask' = [ask EXCEPT ![q].step = "answered", ![q].found = {}, ![q].given = final]
        /\ answer' = [docs |-> final, left |-> QueryTTL]
  BY DEF Rerank
<1>2. PICK a : a = [ask[q] EXCEPT !.step = "answered", !.found = {}, !.given = final]
  OBVIOUS
<1>3. ask' = [ask EXCEPT ![q] = a] /\ UNCHANGED <<paper, parents, since>>
  BY <1>1, <1>2 DEF Rerank, RetrievalInv, RetrievalTypes
<1>4. PICK b : b = ask[q] /\ AskSound(b) /\ b.step = "rerank"
                 /\ b \in [step : {"idle", "search", "parents", "rerank", "answered"}, age : Nat,
                        after : SUBSET Papers, found : SUBSET Papers, given : SUBSET Papers]
  BY DEF RetrievalInv, RetrievalTypes, Rerank
<1>5. final \subseteq b.found
  BY <1>1, <1>4 DEF Reranked
<1>6. /\ a \in [step : {"idle", "search", "parents", "rerank", "answered"}, age : Nat,
                after : SUBSET Papers, found : SUBSET Papers, given : SUBSET Papers]
      /\ a.age = b.age /\ a.after = b.after /\ a.given = final /\ a.found = {}
      /\ a.step = "answered"
  BY <1>2, <1>4, <1>5
<1>7. RetrievalTypes'
  <2>1. final \subseteq Papers
    BY <1>4, <1>5
  <2>2. answer' \in [docs : SUBSET Papers, left : Nat] /\ answer'.left <= QueryTTL
    BY <1>1, <2>1, RetrievalNumbers
  <2> QED BY <1>3, <1>6, <2>2 DEF RetrievalInv, RetrievalTypes
<1>8. /\ b.age <= Patience /\ b.age \in Nat
      /\ \A d \in b.found : Lost(d) => since[d] <= b.age /\ d \notin b.after
      /\ \A d \in b.after : Lost(d)
  BY <1>4 DEF AskSound
<1>9. AskSound(a)'
  <2>1. a.given \cap a.after = {}
    BY <1>5, <1>6, <1>8
  <2> QED BY <1>3, <1>6, <1>8, <2>1 DEF AskSound, Lost
<1>10. AnswerSound'
  <2> SUFFICES ASSUME NEW d \in final, Lost(d) PROVE since[d] + QueryTTL <= Fading
    BY <1>1, <1>3 DEF AnswerSound, Lost
  <2>1. since[d] <= b.age /\ d \in Papers
    BY <1>4, <1>5, <1>8
  <2>2. since[d] \in Nat
    BY <2>1 DEF RetrievalInv, RetrievalTypes
  <2> QED BY <1>8, <2>1, <2>2, RetrievalNumbers
<1> QED BY <1>3, <1>7, <1>9, <1>10, AskSteps

--------------------------------------------------------------------------------
\* A step of a document: no retrieval moves, and at the commit of its deletion no time has passed
\* since.
LEMMA PaperSteps ==
  ASSUME RetrievalInv, RetrievalTypes', UNCHANGED <<ask, since>>,
         \A d \in Papers : Lost(d) => Lost(d)',
         \A d \in Papers : Lost(d)' => Lost(d) \/ paper[d].step # "gone",
         \A d \in Papers : paper'[d].step # "gone" => paper[d].step # "gone",
         answer' \in {answer, NoAnswer}
  PROVE  RetrievalInv'
<1>1. \A d \in Papers : Lost(d)' => Lost(d) \/ since[d] = 0
  BY DEF RetrievalInv
<1>2. \A q \in Asks : AskSound(ask[q])'
  <2> TAKE q \in Asks
  <2>1. PICK b : b = ask[q] /\ AskSound(b)
                 /\ b \in [step : {"idle", "search", "parents", "rerank", "answered"}, age : Nat,
                        after : SUBSET Papers, found : SUBSET Papers, given : SUBSET Papers]
    BY DEF RetrievalInv, RetrievalTypes
  <2>2. \A d \in b.after : Lost(d)'
    BY <2>1 DEF AskSound
  <2>3. ASSUME b.step \notin {"idle", "answered"}
        PROVE  /\ b.age <= Patience /\ b.given = {}
               /\ \A d \in b.found : Lost(d)' => since[d] <= b.age /\ d \notin b.after
    <3>1. /\ b.age <= Patience /\ b.given = {} /\ b.age \in Nat
          /\ \A d \in b.found : Lost(d) => since[d] <= b.age /\ d \notin b.after
          /\ \A d \in b.after : Lost(d)
      BY <2>1, <2>3 DEF AskSound
    <3>2. ASSUME NEW d \in b.found, Lost(d)', ~Lost(d) PROVE since[d] <= b.age /\ d \notin b.after
      <4>1. d \in Papers /\ since[d] = 0
        BY <1>1, <2>1, <3>2
      <4> QED BY <3>1, <3>2, <4>1
    <3> QED BY <3>1, <3>2
  <2>4. b.step = "answered" => b.given \cap b.after = {}
    BY <2>1 DEF AskSound
  <2>5. ask'[q] = b /\ since' = since
    BY <2>1
  <2> QED BY <2>2, <2>3, <2>4, <2>5 DEF AskSound, Lost
<1>3. AnswerSound'
  <2>1. CASE answer' = NoAnswer
    BY <2>1 DEF AnswerSound, NoAnswer
  <2>2. CASE answer' = answer
    <3> SUFFICES ASSUME answer.left > 0, NEW d \in answer.docs, Lost(d)'
                 PROVE  since[d] + answer.left <= Fading
      BY <2>2 DEF AnswerSound, Lost
    <3>1. d \in Papers /\ answer.left \in Nat /\ answer.left <= QueryTTL
      BY DEF RetrievalInv, RetrievalTypes
    <3>2. CASE Lost(d)
      BY <3>2 DEF RetrievalInv, AnswerSound
    <3>3. CASE ~Lost(d)
      <4>1. since[d] = 0
        BY <1>1, <3>1, <3>3
      <4> QED BY <3>1, <4>1, RetrievalNumbers
    <3> QED BY <3>2, <3>3
  <2> QED BY <2>1, <2>2
<1>4. \A d \in Papers : paper'[d].step # "gone" => since'[d] = 0
  BY DEF RetrievalInv
<1> QED BY <1>2, <1>3, <1>4 DEF RetrievalInv

LEMMA DocumentStepsSound ==
  ASSUME RetrievalInv, NEW d \in Papers,
         \/ IngestVectors(d) \/ IngestEnds(d) \/ CleanVectors(d) \/ DeleteCommit(d)
         \/ ParentExpires(d)
  PROVE  RetrievalInv'
<1> DEFINE Steps == {"new", "vectors", "ready", "cleaned", "gone"}
<1>1. paper \in [Papers -> [step : Steps, dropped : BOOLEAN]]
  BY DEF RetrievalInv, RetrievalTypes
<1>2. NoAnswer \in [docs : SUBSET Papers, left : Nat] /\ NoAnswer.left <= QueryTTL
  BY RetrievalNumbers DEF NoAnswer
<1>3. answer' \in {answer, NoAnswer} /\ UNCHANGED <<ask, since>>
  BY DEF IngestVectors, IngestEnds, CleanVectors, DeleteCommit, ParentExpires
<1>4. CASE ParentExpires(d)
  <2>1. UNCHANGED <<paper, answer, ask, since>>
    BY <1>4 DEF ParentExpires
  <2> QED BY <2>1 DEF RetrievalInv, RetrievalTypes, AskSound, AnswerSound, Lost
<1>5. CASE ~ParentExpires(d)
  <2>1. PICK x \in [step : Steps, dropped : BOOLEAN] :
          paper' = [paper EXCEPT ![d] = x] /\ paper[d].step # "gone"
    <3>1. PICK y \in [step : Steps, dropped : BOOLEAN] : y = paper[d]
      BY <1>1
    <3>2. CASE IngestVectors(d)
      <4>1. [y EXCEPT !.step = "vectors"] \in [step : Steps, dropped : BOOLEAN]
        OBVIOUS
      <4> QED BY <1>1, <3>1, <3>2, <4>1 DEF IngestVectors, Move
    <3>3. CASE IngestEnds(d)
      <4>1. [y EXCEPT !.step = "ready"] \in [step : Steps, dropped : BOOLEAN]
        OBVIOUS
      <4> QED BY <1>1, <3>1, <3>3, <4>1 DEF IngestEnds, Move
    <3>4. CASE CleanVectors(d)
      <4>1. PICK ok \in BOOLEAN : paper' = [paper EXCEPT ![d] = [step |-> "cleaned", dropped |-> y.dropped \/ ok]]
        BY <3>1, <3>4 DEF CleanVectors
      <4>2. [step |-> "cleaned", dropped |-> y.dropped \/ ok] \in [step : Steps, dropped : BOOLEAN]
        <5>1. (y.dropped \/ ok) \in BOOLEAN
          OBVIOUS
        <5> QED BY <5>1
      <4> QED BY <3>1, <3>4, <4>1, <4>2 DEF CleanVectors
    <3>5. CASE DeleteCommit(d)
      <4>1. [y EXCEPT !.step = "gone"] \in [step : Steps, dropped : BOOLEAN]
        OBVIOUS
      <4> QED BY <1>1, <3>1, <3>5, <4>1 DEF DeleteCommit, Move
    <3> QED BY <1>5, <3>2, <3>3, <3>4, <3>5
  <2>2. /\ \A p \in Papers \ {d} : paper'[p] = paper[p]
        /\ paper'[d] = x /\ paper' \in [Papers -> [step : Steps, dropped : BOOLEAN]]
    BY <1>1, <2>1
  <2>3. RetrievalTypes'
    <3>1. answer' \in [docs : SUBSET Papers, left : Nat] /\ answer'.left <= QueryTTL
      BY <1>2, <1>3 DEF RetrievalInv, RetrievalTypes
    <3> QED BY <1>3, <2>2, <3>1 DEF RetrievalInv, RetrievalTypes
  <2>4. /\ \A p \in Papers : Lost(p) => Lost(p)'
        /\ \A p \in Papers : Lost(p)' => Lost(p) \/ paper[p].step # "gone"
        /\ \A p \in Papers : paper'[p].step # "gone" => paper[p].step # "gone"
    BY <2>1, <2>2 DEF Lost
  <2> QED BY <1>3, <2>3, <2>4, PaperSteps
<1> QED BY <1>4, <1>5

LEMMA TickSound ==
  ASSUME RetrievalInv, Tick
  PROVE  RetrievalInv'
<1>1. UNCHANGED <<paper, parents>>
  BY DEF Tick
<1>2. \A d \in Papers : since'[d] \in Nat /\ since'[d] <= since[d] + 1
                          /\ (paper[d].step # "gone" => since'[d] = since[d])
  BY DEF Tick, RetrievalInv, RetrievalTypes
<1>3. answer'.left > 0 => answer'.docs = answer.docs /\ answer.left = answer'.left + 1 /\ answer.left > 0
  <2>1. PICK old \in [docs : SUBSET Papers, left : Nat] : old = answer
    BY DEF RetrievalInv, RetrievalTypes
  <2>2. answer' = IF old.left > 1 THEN [old EXCEPT !.left = @ - 1] ELSE NoAnswer
    BY <2>1 DEF Tick
  <2>3. CASE old.left > 1
    <3>1. answer'.docs = old.docs /\ answer'.left = old.left - 1
      BY <2>1, <2>2, <2>3
    <3>2. old.left \in Nat
      BY <2>1
    <3> QED BY <2>1, <2>3, <3>1, <3>2
  <2>4. CASE ~(old.left > 1)
    <3>1. answer'.left = 0
      BY <2>2, <2>4 DEF NoAnswer
    <3> QED BY <3>1
  <2> QED BY <2>3, <2>4
<1>4. RetrievalTypes'
  <2>1. answer' \in [docs : SUBSET Papers, left : Nat] /\ answer'.left <= QueryTTL
    BY RetrievalNumbers DEF Tick, RetrievalInv, RetrievalTypes, NoAnswer
  <2>2. ask' \in [Asks -> [step : {"idle", "search", "parents", "rerank", "answered"}, age : Nat,
                            after : SUBSET Papers, found : SUBSET Papers, given : SUBSET Papers]]
    BY SMTT(30) DEF Tick, RetrievalInv, RetrievalTypes
  <2>3. since' \in [Papers -> Nat]
    BY <1>2 DEF Tick
  <2> QED BY <1>1, <2>1, <2>2, <2>3 DEF RetrievalInv, RetrievalTypes
<1>5. \A q \in Asks : AskSound(ask[q])'
  <2> TAKE q \in Asks
  <2>1. PICK b : b = ask[q] /\ AskSound(b)
                 /\ b \in [step : {"idle", "search", "parents", "rerank", "answered"}, age : Nat,
                        after : SUBSET Papers, found : SUBSET Papers, given : SUBSET Papers]
    BY DEF RetrievalInv, RetrievalTypes
  <2>2. PICK a : a = ask'[q]
    OBVIOUS
  <2>3. /\ a.step = b.step /\ a.after = b.after /\ a.found = b.found /\ a.given = b.given
        /\ b.step \notin {"idle", "answered"} => a.age = b.age + 1 /\ b.age < Patience
    BY <2>1, <2>2 DEF Tick, Asking
  <2>4. ASSUME a.step \notin {"idle", "answered"}
        PROVE  /\ a.age <= Patience /\ a.given = {}
               /\ \A d \in a.found : Lost(d) => since'[d] <= a.age /\ d \notin a.after
    <3>1. /\ b.age <= Patience /\ b.given = {}
          /\ \A d \in b.found : Lost(d) => since[d] <= b.age /\ d \notin b.after
      BY <2>1, <2>3, <2>4 DEF AskSound
    <3>2. a.age = b.age + 1 /\ b.age < Patience /\ b.age \in Nat
      BY <2>1, <2>3, <2>4
    <3>3. \A d \in b.found : Lost(d) => since'[d] <= a.age
      <4> SUFFICES ASSUME NEW d \in b.found, Lost(d) PROVE since'[d] <= a.age
        OBVIOUS
      <4>1. d \in Papers /\ since[d] \in Nat
        BY <2>1 DEF RetrievalInv, RetrievalTypes
      <4> QED BY <1>2, <3>1, <3>2, <4>1
    <3>4. a.age <= Patience
      BY <3>2, RetrievalNumbers
    <3> QED BY <2>3, <3>1, <3>3, <3>4
  <2>5. (\A d \in a.after : Lost(d)) /\ (a.step = "answered" => a.given \cap a.after = {})
    BY <2>1, <2>3 DEF AskSound
  <2> QED BY <1>1, <2>2, <2>4, <2>5 DEF AskSound, Lost
<1>6. AnswerSound'
  <2> SUFFICES ASSUME answer'.left > 0, NEW d \in answer'.docs, Lost(d)
               PROVE  since'[d] + answer'.left <= Fading
    BY <1>1 DEF AnswerSound, Lost
  <2>1. d \in answer.docs /\ answer.left = answer'.left + 1 /\ answer.left > 0 /\ d \in Papers
    BY <1>3 DEF RetrievalInv, RetrievalTypes
  <2>2. since[d] + answer.left <= Fading
    BY <2>1 DEF RetrievalInv, AnswerSound
  <2>3. since[d] \in Nat /\ answer.left \in Nat /\ answer'.left \in Nat
    BY <1>4, <2>1 DEF RetrievalInv, RetrievalTypes
  <2> QED BY <1>2, <2>1, <2>2, <2>3, RetrievalNumbers
<1>7. \A d \in Papers : paper'[d].step # "gone" => since'[d] = 0
  BY <1>1, <1>2 DEF RetrievalInv
<1> QED BY <1>4, <1>5, <1>6, <1>7 DEF RetrievalInv

--------------------------------------------------------------------------------
LEMMA RetrievalInvNext ==
  ASSUME RetrievalInv, [RetrievalNext]_retrievalVars
  PROVE  RetrievalInv'
<1>1. CASE \E q \in Asks : Lookup(q) \/ Search(q) \/ Expand(q) \/ Rerank(q)
  BY <1>1, LookupSound, SearchSound, ExpandSound, RerankSound
<1>2. CASE \E d \in Papers :
             \/ IngestVectors(d) \/ IngestEnds(d) \/ CleanVectors(d) \/ DeleteCommit(d)
             \/ ParentExpires(d)
  BY <1>2, DocumentStepsSound
<1>3. CASE Tick
  BY <1>3, TickSound
<1>4. CASE UNCHANGED retrievalVars
  BY <1>4 DEF retrievalVars, RetrievalInv, RetrievalTypes, AskSound, AnswerSound, Lost
<1> QED BY <1>1, <1>2, <1>3, <1>4 DEF RetrievalNext

\* No question asked Fading after the commit of a document's deletion is answered with it.
THEOREM DeletedAlwaysFadesOut == RetrievalSpec => []DeletedFadesOut
<1>1. RetrievalInv => DeletedFadesOut
  BY DEF RetrievalInv, AskSound, DeletedFadesOut
<1> QED BY <1>1, RetrievalInvInit, RetrievalInvNext, PTL DEF RetrievalSpec

--------------------------------------------------------------------------------
(* The knowledge graph.  A counter a build has loaded is at most what has been counted since,  *)
(* and a build adds what nobody has: its links are new as long as its memory exists, and its   *)
(* memory is not marked.                                                                       *)

\* The links ever made to entity x.
LinksTo(S, x) == {l \in S : l[2] = x}

OneSpelling(names) == \A x, y \in names : Fold(x) = Fold(y) => x = y

Building == {"extract", "relate", "commit"}

Fields == {"op", "note", "tries", "names", "fresh", "mentions", "evidence"}

GraphTypes ==
  /\ DOMAIN note = Notes
  /\ \A n \in Notes : DOMAIN note[n] = {"exists", "done", "patches"} /\ note[n].patches \in Nat
  /\ DOMAIN builder = Builders /\ \A b \in Builders : DOMAIN builder[b] = Fields
  /\ IsFiniteSet(linked) /\ linked \subseteq Notes \X Named
  /\ \A x \in Named : mentions[x] \in Nat
  /\ DOMAIN given = DOMAIN evidence
  /\ \A p \in DOMAIN evidence : evidence[p] \in Nat /\ IsFiniteSet(given[p])
  /\ mixed \in BOOLEAN /\ doubled \in BOOLEAN

\* The links of a memory that exists are the ones ever made; what it gave carries the number of
\* its patches, and while it did not change again it is marked.
NotesSound ==
  /\ links \subseteq linked /\ \A l \in linked : note[l[1]].exists => l \in links
  /\ \A p \in DOMAIN given : \A n \in Notes : \A k \in Nat :
       <<n, k>> \in given[p] => k <= note[n].patches /\ (~doubled /\ k = note[n].patches => note[n].done)

\* What a build has loaded.
Loaded(b) ==
  LET t == builder[b]
  IN  /\ IsFiniteSet(t.names) /\ t.fresh \subseteq t.names /\ t.names \ t.fresh \subseteq Named
      /\ DOMAIN t.mentions \subseteq Named
      /\ \A x \in DOMAIN t.mentions :
           /\ t.mentions[x] \in Nat /\ t.mentions[x] <= Cardinality(LinksTo(linked, x))
           /\ ~mixed => t.mentions[x] = mentions[x]

Weighed(b) ==
  LET t == builder[b]
  IN  /\ DOMAIN t.evidence \subseteq DOMAIN evidence
      /\ \A p \in DOMAIN t.evidence :
           /\ t.evidence[p] \in Nat
           /\ ~doubled => t.evidence[p] <= Cardinality(given[p])
           /\ ~mixed => t.evidence[p] = evidence[p]

BuildSound(b) ==
  LET t == builder[b]
  IN  /\ t.op \in Building \cup {"idle", "name"}
      /\ t.op \in Building => t.note \in Notes /\ (~doubled => ~note[t.note].done)
      /\ t.op \notin Building => t.note = NoNote
      /\ t.op = "idle" => t.names = {}
      /\ t.op \in {"relate", "commit"} => Loaded(b)
      /\ t.op = "commit" => Weighed(b)
      /\ ~mixed => OneSpelling(Named \cup t.names)

GraphAlone ==
  /\ doubled => mixed
  /\ ~mixed => \A b, c \in Builders : builder[b].op # "idle" /\ builder[c].op # "idle" => b = c
  /\ ~doubled => \A b, c \in Builders : builder[b].note = builder[c].note /\ builder[b].note # NoNote => b = c

Counted ==
  /\ \A x \in Named : /\ mentions[x] <= Cardinality(LinksTo(linked, x))
                      /\ ~mixed => mentions[x] = Cardinality(LinksTo(linked, x))
  /\ \A p \in DOMAIN evidence : /\ ~doubled => evidence[p] <= Cardinality(given[p])
                                /\ ~mixed => evidence[p] = Cardinality(given[p])
  /\ ~mixed => OneSpelling(Named)

GraphInv ==
  /\ GraphTypes
  /\ NotesSound
  /\ \A b \in Builders : BuildSound(b)
  /\ GraphAlone
  /\ Counted

--------------------------------------------------------------------------------
Extended(S, T, n, fresh) == T = S \cup ({n} \X fresh)

\* A link nobody made before adds one to its entity, and nothing to another.
LEMMA LinkAdds ==
  ASSUME NEW S, IsFiniteSet(S), NEW n, NEW fresh, NEW x, NEW T, Extended(S, T, n, fresh)
  PROVE  /\ Cardinality(LinksTo(S, x)) \in Nat
         /\ x \in fresh /\ <<n, x>> \notin S => Cardinality(LinksTo(T, x)) = Cardinality(LinksTo(S, x)) + 1
         /\ x \notin fresh => Cardinality(LinksTo(T, x)) = Cardinality(LinksTo(S, x))
<1>1. IsFiniteSet(LinksTo(S, x))
  BY FS_Subset DEF LinksTo
<1>2. Cardinality(LinksTo(S, x)) \in Nat
  BY <1>1, FS_CardinalityType
<1>3. ASSUME x \in fresh, <<n, x>> \notin S
      PROVE  Cardinality(LinksTo(T, x)) = Cardinality(LinksTo(S, x)) + 1
  <2>1. LinksTo(T, x) = LinksTo(S, x) \cup {<<n, x>>}
    BY <1>3 DEF LinksTo, Extended
  <2>2. <<n, x>> \notin LinksTo(S, x)
    BY <1>3 DEF LinksTo
  <2> QED BY <1>1, <2>1, <2>2, FS_AddElement
<1>4. x \notin fresh => LinksTo(T, x) = LinksTo(S, x)
  BY DEF LinksTo, Extended
<1> QED BY <1>2, <1>3, <1>4

\* More links count for no less.
LEMMA LinksGrow ==
  ASSUME NEW S, NEW T, IsFiniteSet(T), S \subseteq T, NEW x
  PROVE  /\ Cardinality(LinksTo(S, x)) \in Nat /\ Cardinality(LinksTo(T, x)) \in Nat
         /\ Cardinality(LinksTo(S, x)) <= Cardinality(LinksTo(T, x))
<1>1. IsFiniteSet(LinksTo(T, x)) /\ LinksTo(S, x) \subseteq LinksTo(T, x)
  BY FS_Subset DEF LinksTo
<1>2. IsFiniteSet(LinksTo(S, x))
  BY <1>1, FS_Subset
<1> QED BY <1>1, <1>2, FS_Subset, FS_CardinalityType

LEMMA TwoOfOne == ASSUME NEW a, NEW n, NEW k PROVE <<n, k>> # <<a>>
<1> SUFFICES ASSUME <<n, k>> = <<a>> PROVE FALSE
  OBVIOUS
<1>1. DOMAIN <<n, k>> = 1 .. 2 /\ DOMAIN <<a>> = 1 .. 1
  OBVIOUS
<1> QED BY <1>1

\* A builder that keeps what it has, while the tables stay as they are.
LEMMA BuildKept ==
  ASSUME GraphInv, UNCHANGED tables, mixed => mixed', doubled => doubled',
         mixed' \in BOOLEAN, doubled' \in BOOLEAN, NEW c \in Builders, builder'[c] = builder[c]
  PROVE  BuildSound(c)'
BY DEF GraphInv, GraphTypes, BuildSound, Loaded, Weighed, tables, OneSpelling, Named

\* A build that leaves.
LEMMA Exits ==
  ASSUME GraphInv, NEW b \in Builders, Exit(b), UNCHANGED tables, UNCHANGED <<mixed, doubled>>
  PROVE  GraphInv'
<1>1. DOMAIN builder' = Builders /\ builder'[b] = NoBuild /\ \A c \in Builders \ {b} : builder'[c] = builder[c]
  BY DEF Exit, GraphInv, GraphTypes
<1>2. NoBuild.op = "idle" /\ NoBuild.note = NoNote /\ DOMAIN NoBuild = Fields /\ NoBuild.names = {}
  BY DEF NoBuild, Fields
<1>3. \A c \in Builders \ {b} : BuildSound(c)'
  BY <1>1, BuildKept DEF GraphInv, GraphTypes
<1>4. BuildSound(b)'
  BY <1>1, <1>2 DEF BuildSound, Building, GraphInv, Counted, OneSpelling, tables, Named
<1>5. GraphTypes' /\ NotesSound' /\ Counted'
  BY <1>1, <1>2 DEF GraphInv, GraphTypes, NotesSound, Counted, tables, OneSpelling, Named
<1>6. GraphAlone'
  BY <1>1, <1>2 DEF GraphInv, GraphAlone
<1> QED BY <1>3, <1>4, <1>5, <1>6 DEF GraphInv

\* One that starts: whether it overlaps another is recorded.
LEMMA Engages ==
  ASSUME GraphInv, NEW b \in Builders, NEW start, Engage(b, start), UNCHANGED tables,
         DOMAIN start = Fields, start.op \in {"extract", "name"},
         start.op = "extract" => start.note \in Notes /\ ~note[start.note].done,
         start.op = "name" => start.note = NoNote,
         ~mixed => OneSpelling(Named \cup start.names)
  PROVE  GraphInv'
<1>1. DOMAIN builder' = Builders /\ builder'[b] = start /\ \A c \in Builders \ {b} : builder'[c] = builder[c]
  BY DEF Engage, GraphInv, GraphTypes
<1>2. mixed' \in BOOLEAN /\ doubled' \in BOOLEAN /\ (mixed => mixed') /\ (doubled => doubled')
  BY DEF Engage, GraphInv, GraphTypes
<1>3. \A c \in Builders \ {b} : BuildSound(c)'
  BY <1>1, <1>2, BuildKept
<1>4. BuildSound(b)'
  BY <1>1, <1>2 DEF BuildSound, Building, OneSpelling, tables, Named
<1>5. GraphTypes' /\ NotesSound' /\ Counted'
  BY <1>1, <1>2 DEF GraphInv, GraphTypes, NotesSound, Counted, tables, OneSpelling, Named
<1>6. \A c \in Builders : builder[c].op = "idle" => builder[c].note = NoNote
  BY DEF GraphInv, BuildSound, Building
<1>7. GraphAlone'
  <2>1. ~mixed' => \A c \in Builders : builder[c].op = "idle"
    BY DEF Engage
  <2>2. doubled' => mixed'
    BY <1>6, <2>1 DEF Engage, GraphInv, GraphAlone
  <2>3. ~mixed' => \A c, d \in Builders : builder'[c].op # "idle" /\ builder'[d].op # "idle" => c = d
    BY <1>1, <2>1
  <2>4. ~doubled' => \A c \in Builders \ {b} : builder[c].note # start.note \/ start.note = NoNote
    BY DEF Engage
  <2>5. ~doubled' => \A c, d \in Builders : builder'[c].note = builder'[d].note /\ builder'[c].note # NoNote => c = d
    BY <1>1, <1>2, <2>4 DEF GraphInv, GraphAlone
  <2> QED BY <2>2, <2>3, <2>5 DEF GraphAlone
<1> QED BY <1>1, <1>3, <1>4, <1>5, <1>7 DEF GraphInv

\* What a build does not touch.
LEMMA TakeSound ==
  ASSUME GraphInv, NEW b \in Builders, NEW n \in Notes, NEW k, TakeBuild(b, n, k)
  PROVE  GraphInv'
<1>1. CASE note[n].exists /\ ~AlreadyProcessed(n)
  <2>1. PICK start : start = [NoBuild EXCEPT !.op = "extract", !.note = n, !.tries = k]
    OBVIOUS
  <2>2. start.op = "extract" /\ start.note = n /\ start.names = {} /\ DOMAIN start = Fields
    BY <2>1 DEF NoBuild, Fields
  <2>3. Engage(b, start) /\ UNCHANGED tables /\ ~note[n].done
    BY <1>1, <2>1 DEF TakeBuild, AlreadyProcessed
  <2>4. ~mixed => OneSpelling(Named \cup start.names)
    BY <2>2 DEF GraphInv, Counted, OneSpelling
  <2> QED BY <2>2, <2>3, <2>4, Engages
<1>2. CASE ~(note[n].exists /\ ~AlreadyProcessed(n))
  <2>1. UNCHANGED <<tables, builder, mixed, doubled>>
    BY <1>2 DEF TakeBuild
  <2> QED BY <2>1 DEF GraphInv, GraphTypes, NotesSound, BuildSound, Loaded, Weighed, GraphAlone, Counted,
                      tables, OneSpelling, Named
<1> QED BY <1>1, <1>2

LEMMA NameSound ==
  ASSUME GraphInv, NEW b \in Builders, NEW x \in Spellings, NameBegins(b, x)
  PROVE  GraphInv'
<1>1. PICK start : start = [NoBuild EXCEPT !.op = "name", !.names = {x}]
  OBVIOUS
<1>2. start.op = "name" /\ start.note = NoNote /\ start.names = {x} /\ DOMAIN start = Fields
  BY <1>1 DEF NoBuild, Fields
<1>3. Engage(b, start) /\ UNCHANGED tables /\ \A y \in Named : Fold(y) # Fold(x)
  BY <1>1 DEF NameBegins, Find
<1>4. ~mixed => OneSpelling(Named \cup start.names)
  BY <1>2, <1>3 DEF GraphInv, Counted, OneSpelling
<1> QED BY <1>2, <1>3, <1>4, Engages

LEMMA LeaveSound ==
  ASSUME GraphInv, NEW b \in Builders, BuildFails(b) \/ WorkerDies(b)
  PROVE  GraphInv'
<1>1. Exit(b) /\ UNCHANGED tables /\ UNCHANGED <<mixed, doubled>>
  BY DEF BuildFails, WorkerDies
<1> QED BY <1>1, Exits

\* Deleting a memory takes its links, and a patch its mark.
LEMMA NoteSteps ==
  ASSUME GraphInv, NEW n \in Notes, EnqueueBuild(n) \/ DeleteNote(n) \/ PatchMetadata(n)
  PROVE  GraphInv'
<1>1. CASE EnqueueBuild(n)
  BY <1>1 DEF EnqueueBuild, GraphInv, GraphTypes, NotesSound, BuildSound, Loaded, Weighed, GraphAlone, Counted,
              tables, OneSpelling, Named
<1>2. CASE DeleteNote(n)
  <2>1. /\ note' = [note EXCEPT ![n].exists = FALSE] /\ links' = {l \in links : l[1] # n}
        /\ UNCHANGED <<mentions, evidence, builder, mixed, doubled, linked, given>>
    BY <1>2 DEF DeleteNote
  <2>2. /\ DOMAIN note' = Notes
        /\ \A m \in Notes : /\ DOMAIN note'[m] = {"exists", "done", "patches"} /\ note'[m].patches = note[m].patches
                            /\ note'[m].done = note[m].done
                            /\ note'[m].exists => m # n /\ note[m].exists
    BY <2>1 DEF GraphInv, GraphTypes
  <2>3. GraphTypes' /\ GraphAlone' /\ Counted'
    BY <2>1, <2>2 DEF GraphInv, GraphTypes, GraphAlone, Counted, OneSpelling, Named
  <2>4. \A l \in linked : l[1] \in Notes
    BY DEF GraphInv, GraphTypes
  <2>5. NotesSound'
    BY <2>1, <2>2, <2>4 DEF GraphInv, NotesSound
  <2>6. \A b \in Builders : BuildSound(b)'
    BY <2>1, <2>2 DEF GraphInv, BuildSound, Loaded, Weighed, OneSpelling, Named
  <2> QED BY <2>1, <2>3, <2>5, <2>6 DEF GraphInv
<1>3. CASE PatchMetadata(n)
  <2>1. /\ note' = [note EXCEPT ![n].done = FALSE, ![n].patches = note[n].patches + 1]
        /\ UNCHANGED <<mentions, evidence, links, builder, mixed, doubled, linked, given>>
    BY <1>3 DEF PatchMetadata
  <2>2. /\ DOMAIN note' = Notes /\ note'[n].patches = note[n].patches + 1 /\ ~note'[n].done
        /\ note'[n].exists = note[n].exists /\ DOMAIN note'[n] = {"exists", "done", "patches"}
        /\ \A m \in Notes \ {n} : note'[m] = note[m]
    BY <2>1 DEF GraphInv, GraphTypes
  <2>3. \A m \in Notes : /\ note[m].patches \in Nat /\ note'[m].patches \in Nat /\ note[m].patches <= note'[m].patches
                         /\ m = n => note'[m].patches > note[m].patches
                         /\ note'[m].exists = note[m].exists
    BY <2>2 DEF GraphInv, GraphTypes
  <2>4. GraphTypes' /\ GraphAlone' /\ Counted'
    BY <2>1, <2>2, <2>3 DEF GraphInv, GraphTypes, GraphAlone, Counted, OneSpelling, Named
  <2>5. \A l \in linked : l[1] \in Notes
    BY DEF GraphInv, GraphTypes
  <2>6. \A p \in DOMAIN given, m \in Notes, k \in Nat :
          <<m, k>> \in given[p] => k <= note'[m].patches /\ (~doubled /\ k = note'[m].patches => note'[m].done)
    <3> TAKE p \in DOMAIN given, m \in Notes, k \in Nat
    <3> HAVE <<m, k>> \in given[p]
    <3>1. k <= note[m].patches /\ (~doubled /\ k = note[m].patches => note[m].done)
      BY DEF GraphInv, NotesSound
    <3>2. CASE m = n
      BY <2>3, <3>1, <3>2
    <3>3. CASE m # n
      BY <2>2, <3>1, <3>3
    <3> QED BY <3>2, <3>3
  <2>7. NotesSound'
    BY <2>1, <2>3, <2>5, <2>6 DEF GraphInv, NotesSound
  <2>8. \A b \in Builders : BuildSound(b)'
    BY <2>1, <2>2 DEF GraphInv, BuildSound, Loaded, Weighed, OneSpelling, Named
  <2> QED BY <2>1, <2>4, <2>7, <2>8 DEF GraphInv
<1> QED BY <1>1, <1>2, <1>3

--------------------------------------------------------------------------------
LEMMA RowsFinite ==
  ASSUME NEW names, IsFiniteSet(names)
  PROVE  IsFiniteSet(RowsOf(names))
<1> DEFINE row == [x \in names |-> IF Find(x) = {} THEN x ELSE CHOOSE y \in Find(x) : TRUE]
<1>1. RowsOf(names) = {row[x] : x \in names}
  BY DEF RowsOf
<1>2. PICK T : T = RowsOf(names)
  OBVIOUS
<1>3. DOMAIN row = names /\ row \in [names -> {row[x] : x \in names}]
  OBVIOUS
<1> HIDE DEF row
<1>4. row \in Surjection(names, T)
  BY <1>1, <1>2, <1>3 DEF Surjection
<1> QED BY <1>2, <1>4, FS_Surjection

\* The rows of an extraction have one spelling each, and no other than a row has already.
LEMMA RowsSpelling ==
  ASSUME OneSpelling(Named), NEW names \in Extractions
  PROVE  OneSpelling(Named \cup RowsOf(names))
<1> DEFINE row(x) == IF Find(x) = {} THEN x ELSE CHOOSE y \in Find(x) : TRUE
<1>1. \A x \in names : Fold(row(x)) = Fold(x) /\ (row(x) \in Named \/ \A y \in Named : Fold(y) # Fold(x))
  BY DEF Find
<1>2. RowsOf(names) = {row(x) : x \in names}
  BY DEF RowsOf
<1>3. \A x, y \in names : Fold(x) = Fold(y) => x = y
  BY DEF Extractions
<1>4. ASSUME NEW r \in Named \cup RowsOf(names), NEW s \in Named \cup RowsOf(names), Fold(r) = Fold(s)
      PROVE  r = s
  <2> HIDE DEF row
  <2>1. CASE r \in Named /\ s \in Named
    BY <1>4, <2>1 DEF OneSpelling
  <2>2. CASE r \in RowsOf(names) /\ s \in Named
    BY <1>1, <1>2, <1>4, <2>2 DEF OneSpelling
  <2>3. CASE r \in Named /\ s \in RowsOf(names)
    BY <1>1, <1>2, <1>4, <2>3 DEF OneSpelling
  <2>4. CASE r \in RowsOf(names) /\ s \in RowsOf(names)
    BY <1>1, <1>2, <1>3, <1>4, <2>4
  <2> QED BY <1>4, <2>1, <2>2, <2>3, <2>4
<1> QED BY <1>4 DEF OneSpelling

LEMMA ExtractSound ==
  ASSUME GraphInv, NEW b \in Builders, GetOrCreateEntities(b)
  PROVE  GraphInv'
<1>1. PICK names \in Extractions :
        builder' = [builder EXCEPT ![b].op = "relate", ![b].names = RowsOf(names),
                      ![b].fresh = NewLinks(builder[b].note, RowsOf(names)),
                      ![b].mentions = [x \in RowsOf(names) \cap Named |-> mentions[x]]]
  BY DEF GetOrCreateEntities
<1>2. PICK rows : rows = RowsOf(names)
  OBVIOUS
<1>3. PICK n : n = builder[b].note
  OBVIOUS
<1>4. PICK fresh : fresh = NewLinks(n, rows)
  OBVIOUS
<1>5. PICK loaded : loaded = [x \in rows \cap Named |-> mentions[x]]
  OBVIOUS
<1>6. builder' = [builder EXCEPT ![b].op = "relate", ![b].names = rows, ![b].fresh = fresh, ![b].mentions = loaded]
  BY <1>1, <1>2, <1>3, <1>4, <1>5
<1>7. /\ builder[b].op = "extract" /\ UNCHANGED tables /\ UNCHANGED <<mixed, doubled>>
      /\ mixed \in BOOLEAN /\ doubled \in BOOLEAN
  BY DEF GetOrCreateEntities, GraphInv, GraphTypes
<1>8. /\ DOMAIN builder' = Builders /\ \A c \in Builders \ {b} : builder'[c] = builder[c]
      /\ DOMAIN builder'[b] = Fields /\ builder'[b].op = "relate" /\ builder'[b].note = n
      /\ builder'[b].names = rows /\ builder'[b].fresh = fresh /\ builder'[b].mentions = loaded
  BY <1>3, <1>6 DEF GraphInv, GraphTypes, Fields
<1>9. \A c \in Builders \ {b} : BuildSound(c)'
  BY <1>7, <1>8, BuildKept
<1>10. IsFiniteSet(rows) /\ (~mixed => OneSpelling(Named \cup rows))
  <2>1. IsFiniteSet(names)
    BY DEF Extractions
  <2>2. IsFiniteSet(RowsOf(names))
    BY <2>1, RowsFinite
  <2> QED BY <1>2, <2>2, RowsSpelling DEF GraphInv, Counted
<1>11. fresh \subseteq rows /\ rows \ fresh \subseteq Named
  <2>1. \A x \in rows \ fresh : <<n, x>> \in links
    BY <1>4 DEF NewLinks
  <2>2. \A x \in rows \ fresh : <<n, x>> \in Notes \X Named
    BY <2>1 DEF GraphInv, NotesSound, GraphTypes
  <2> QED BY <1>4, <2>2 DEF NewLinks
<1>12. /\ DOMAIN loaded \subseteq Named
       /\ \A x \in DOMAIN loaded : /\ loaded[x] = mentions[x] /\ loaded[x] \in Nat
                                   /\ loaded[x] <= Cardinality(LinksTo(linked, x))
  BY <1>5 DEF GraphInv, GraphTypes, Counted
<1>13. n \in Notes /\ (~doubled => ~note[n].done)
  BY <1>3, <1>7 DEF GraphInv, BuildSound, Building
<1>14. BuildSound(b)'
  <2>1. Loaded(b)'
    BY <1>7, <1>8, <1>10, <1>11, <1>12 DEF Loaded, tables, Named
  <2>2. (~mixed => OneSpelling(Named \cup builder[b].names))'
    BY <1>7, <1>8, <1>10 DEF OneSpelling, tables, Named
  <2> QED BY <1>7, <1>8, <1>13, <2>1, <2>2 DEF BuildSound, Building, tables
<1>15. GraphTypes' /\ NotesSound' /\ Counted'
  BY <1>7, <1>8 DEF GraphInv, GraphTypes, NotesSound, Counted, tables, OneSpelling, Named
<1>16. GraphAlone'
  BY <1>3, <1>7, <1>8 DEF GraphInv, GraphAlone
<1> QED BY <1>8, <1>9, <1>14, <1>15, <1>16 DEF GraphInv

LEMMA RelateSound ==
  ASSUME GraphInv, NEW b \in Builders, GetRelations(b)
  PROVE  GraphInv'
<1>1. PICK weighed : weighed = [p \in Pairs(builder[b].names) \cap DOMAIN evidence |-> evidence[p]]
  OBVIOUS
<1>2. /\ builder' = [builder EXCEPT ![b].op = "commit", ![b].evidence = weighed]
      /\ builder[b].op = "relate" /\ UNCHANGED tables /\ UNCHANGED <<mixed, doubled>>
      /\ mixed \in BOOLEAN /\ doubled \in BOOLEAN
  BY <1>1 DEF GetRelations, GraphInv, GraphTypes
<1>3. /\ DOMAIN builder' = Builders /\ \A c \in Builders \ {b} : builder'[c] = builder[c]
      /\ DOMAIN builder'[b] = Fields /\ builder'[b].op = "commit" /\ builder'[b].note = builder[b].note
      /\ builder'[b].names = builder[b].names /\ builder'[b].fresh = builder[b].fresh
      /\ builder'[b].mentions = builder[b].mentions /\ builder'[b].evidence = weighed
  BY <1>2 DEF GraphInv, GraphTypes, Fields
<1>4. \A c \in Builders \ {b} : BuildSound(c)'
  BY <1>2, <1>3, BuildKept
<1>5. /\ DOMAIN weighed \subseteq DOMAIN evidence
      /\ \A p \in DOMAIN weighed : weighed[p] = evidence[p]
  BY <1>1
<1>6. BuildSound(b)'
  <2>1. Loaded(b)'
    <3>1. Loaded(b)
      BY <1>2 DEF GraphInv, BuildSound
    <3> QED BY <1>2, <1>3, <3>1 DEF Loaded, tables, Named
  <2>2. Weighed(b)'
    BY <1>2, <1>3, <1>5 DEF GraphInv, GraphTypes, Counted, Weighed, tables
  <2> QED BY <1>2, <1>3, <2>1, <2>2 DEF GraphInv, BuildSound, Building, tables, OneSpelling, Named
<1>7. GraphTypes' /\ NotesSound' /\ Counted'
  BY <1>2, <1>3 DEF GraphInv, GraphTypes, NotesSound, Counted, tables, OneSpelling, Named
<1>8. GraphAlone'
  BY <1>2, <1>3 DEF GraphInv, GraphAlone
<1> QED BY <1>3, <1>4, <1>6, <1>7, <1>8 DEF GraphInv

--------------------------------------------------------------------------------
\* Nobody has linked to what has no row.
LEMMA NoRowNoLink ==
  ASSUME GraphInv, NEW x, x \notin Named
  PROVE  Cardinality(LinksTo(linked, x)) = 0
<1>1. LinksTo(linked, x) = {}
  BY DEF GraphInv, GraphTypes, LinksTo
<1> QED BY <1>1, FS_EmptySet

\* What a commit writes, by its locals.
Commits(n, names, fresh, loaded, weighed, pairs) ==
  /\ note[n].exists /\ (names \ DOMAIN loaded) \cap Named = {}
  /\ \A x \in fresh : <<n, x>> \notin links
  /\ (pairs \ DOMAIN weighed) \cap DOMAIN evidence = {}
  /\ DOMAIN mentions' = Named \cup names
  /\ \A x \in Named \cup names :
       mentions'[x] = IF x \notin fresh THEN mentions[x] ELSE IF x \in DOMAIN loaded THEN loaded[x] + 1 ELSE 1
  /\ links' = links \cup ({n} \X fresh) /\ linked' = linked \cup ({n} \X fresh)
  /\ DOMAIN evidence' = DOMAIN evidence \cup pairs /\ DOMAIN given' = DOMAIN given \cup pairs
  /\ \A p \in DOMAIN evidence \cup pairs :
       evidence'[p] = IF p \notin pairs THEN evidence[p] ELSE IF p \in DOMAIN weighed THEN weighed[p] + 1 ELSE 1
  /\ \A p \in DOMAIN given \cup pairs :
       given'[p] = (IF p \in DOMAIN given THEN given[p] ELSE {}) \cup (IF p \in pairs THEN {<<n, note[n].patches>>} ELSE {})
  /\ note' = [note EXCEPT ![n].done = TRUE]
  /\ UNCHANGED <<mixed, doubled>>

LEMMA CommitWrites ==
  ASSUME NEW b \in Builders, CommitBuild(b)
  PROVE  Commits(builder[b].note, builder[b].names, builder[b].fresh, builder[b].mentions, builder[b].evidence,
                 Pairs(builder[b].names))
BY DEF CommitBuild, Commits, Refused, Named

\* The mentions counted.
LEMMA MentionsCount ==
  ASSUME GraphInv, NEW n \in Notes, NEW names, NEW fresh, NEW loaded, NEW weighed, NEW pairs,
         Commits(n, names, fresh, loaded, weighed, pairs), fresh \subseteq names, names \ fresh \subseteq Named,
         \A x \in DOMAIN loaded : /\ loaded[x] \in Nat /\ loaded[x] <= Cardinality(LinksTo(linked, x))
                                  /\ ~mixed => loaded[x] = mentions[x],
         NEW x \in Named \cup names
  PROVE  /\ mentions'[x] \in Nat /\ mentions'[x] <= Cardinality(LinksTo(linked', x))
         /\ ~mixed => mentions'[x] = Cardinality(LinksTo(linked', x))
<1>1. IsFiniteSet(linked) /\ \A y \in fresh : <<n, y>> \notin linked
  BY DEF Commits, GraphInv, GraphTypes, NotesSound
<1>2. PICK many : many = Cardinality(LinksTo(linked, x))
  OBVIOUS
<1>3. PICK more : more = Cardinality(LinksTo(linked', x))
  OBVIOUS
<1>4. many \in Nat /\ more = many + IF x \in fresh THEN 1 ELSE 0
  <2>1. PICK S : S = linked
    OBVIOUS
  <2>2. IsFiniteSet(S) /\ (x \in fresh => <<n, x>> \notin S)
    BY <1>1, <2>1
  <2>3. PICK T : T = S \cup ({n} \X fresh)
    OBVIOUS
  <2>4. /\ Cardinality(LinksTo(S, x)) \in Nat
        /\ x \in fresh => Cardinality(LinksTo(T, x)) = Cardinality(LinksTo(S, x)) + 1
        /\ x \notin fresh => Cardinality(LinksTo(T, x)) = Cardinality(LinksTo(S, x))
    <3>1. Extended(S, T, n, fresh)
      BY <2>3 DEF Extended
    <3> QED BY <2>2, <3>1, LinkAdds
  <2>5. LinksTo(linked', x) = LinksTo(T, x) /\ LinksTo(linked, x) = LinksTo(S, x)
    BY <2>1, <2>3 DEF LinksTo, Commits
  <2> QED BY <1>2, <1>3, <2>4, <2>5
<1>5. CASE x \notin fresh
  <2>1. x \in Named /\ mentions'[x] = mentions[x]
    BY <1>5 DEF Commits
  <2>2. mentions[x] \in Nat /\ mentions[x] <= many /\ (~mixed => mentions[x] = many)
    BY <1>2, <2>1 DEF GraphInv, GraphTypes, Counted
  <2> QED BY <1>3, <1>4, <1>5, <2>1, <2>2
<1>6. CASE x \in fresh /\ x \in DOMAIN loaded
  <2>1. mentions'[x] = loaded[x] + 1 /\ loaded[x] \in Nat /\ loaded[x] <= many /\ (~mixed => loaded[x] = mentions[x])
    BY <1>2, <1>6 DEF Commits
  <2>2. CASE x \in Named
    <3>1. ~mixed => mentions[x] = many
      BY <1>2, <2>2 DEF GraphInv, Counted
    <3> QED BY <1>3, <1>4, <1>6, <2>1, <3>1
  <2>3. CASE x \notin Named
    <3>1. many = 0
      BY <1>2, <2>3, NoRowNoLink
    <3> QED BY <1>3, <1>4, <1>6, <2>1, <3>1
  <2> QED BY <2>2, <2>3
<1>7. CASE x \in fresh /\ x \notin DOMAIN loaded
  <2>1. mentions'[x] = 1 /\ x \notin Named
    BY <1>7 DEF Commits
  <2>2. many = 0
    BY <1>2, <2>1, NoRowNoLink
  <2> QED BY <1>3, <1>4, <1>7, <2>1, <2>2
<1> QED BY <1>5, <1>6, <1>7

\* The evidence counted.
LEMMA EvidenceCounts ==
  ASSUME GraphInv, NEW n \in Notes, NEW names, NEW fresh, NEW loaded, NEW weighed, NEW pairs,
         Commits(n, names, fresh, loaded, weighed, pairs),
         ~doubled => ~note[n].done, DOMAIN weighed \subseteq DOMAIN evidence,
         \A p \in DOMAIN weighed : /\ weighed[p] \in Nat /\ (~doubled => weighed[p] <= Cardinality(given[p]))
                                   /\ ~mixed => weighed[p] = evidence[p],
         NEW p \in DOMAIN evidence \cup pairs
  PROVE  /\ evidence'[p] \in Nat /\ IsFiniteSet(given'[p])
         /\ ~doubled => evidence'[p] <= Cardinality(given'[p])
         /\ ~mixed => evidence'[p] = Cardinality(given'[p])
<1>1. PICK g : g = <<n, note[n].patches>>
  OBVIOUS
<1>2. DOMAIN given = DOMAIN evidence /\ (~mixed => ~doubled)
  BY DEF GraphInv, GraphTypes, GraphAlone
<1>3. given'[p] = (IF p \in DOMAIN given THEN given[p] ELSE {}) \cup (IF p \in pairs THEN {g} ELSE {})
  BY <1>1, <1>2 DEF Commits
<1>4. CASE p \in DOMAIN evidence /\ p \notin pairs
  <2>1. given'[p] = given[p] /\ evidence'[p] = evidence[p]
    BY <1>2, <1>3, <1>4 DEF Commits
  <2> QED BY <1>4, <2>1 DEF GraphInv, GraphTypes, Counted
<1>5. CASE p \in DOMAIN evidence /\ p \in pairs
  <2>1. given'[p] = given[p] \cup {g} /\ p \in DOMAIN weighed /\ evidence'[p] = weighed[p] + 1
    BY <1>2, <1>3, <1>5 DEF Commits
  <2>2. IsFiniteSet(given[p]) /\ (~mixed => evidence[p] = Cardinality(given[p]))
    BY <1>5 DEF GraphInv, GraphTypes, Counted
  <2>3. IsFiniteSet(given'[p]) /\ Cardinality(given[p]) \in Nat
    <3>1. IsFiniteSet(given[p] \cup {g})
      BY <2>2, FS_AddElement
    <3>2. Cardinality(given[p]) \in Nat
      BY <2>2, FS_CardinalityType
    <3> QED BY <2>1, <3>1, <3>2
  <2>4. ~doubled => g \notin given[p]
    <3>1. note[n].patches \in Nat
      BY DEF GraphInv, GraphTypes
    <3> QED BY <1>1, <1>2, <1>5, <3>1 DEF GraphInv, NotesSound
  <2>5. ~doubled => Cardinality(given'[p]) = Cardinality(given[p]) + 1
    BY <2>1, <2>2, <2>4, FS_AddElement
  <2>6. /\ weighed[p] \in Nat /\ (~doubled => weighed[p] <= Cardinality(given[p]))
        /\ ~mixed => weighed[p] = Cardinality(given[p])
    BY <2>1, <2>2
  <2>7. PICK many : many = Cardinality(given[p])
    OBVIOUS
  <2>8. PICK more : more = Cardinality(given'[p])
    OBVIOUS
  <2>9. /\ weighed[p] \in Nat /\ many \in Nat /\ (~doubled => weighed[p] <= many /\ more = many + 1)
        /\ ~mixed => weighed[p] = many
    BY <2>3, <2>5, <2>6, <2>7, <2>8
  <2>10. /\ weighed[p] + 1 \in Nat /\ (~doubled => weighed[p] + 1 <= more)
         /\ ~mixed => weighed[p] + 1 = more
    BY <1>2, <2>9
  <2> QED BY <2>1, <2>3, <2>8, <2>10
<1>6. CASE p \notin DOMAIN evidence
  <2>1. given'[p] = {g} /\ evidence'[p] = 1
    BY <1>2, <1>3, <1>6 DEF Commits
  <2>2. IsFiniteSet({g}) /\ Cardinality({g}) = 1
    BY FS_Singleton
  <2> QED BY <2>1, <2>2
<1> QED BY <1>4, <1>5, <1>6

\* What another build has loaded, while one commits.
LEMMA OthersKeep ==
  ASSUME GraphInv, NEW b \in Builders, NEW n \in Notes, n = builder[b].note,
         NEW names, NEW fresh, NEW loaded, NEW weighed, NEW pairs,
         Commits(n, names, fresh, loaded, weighed, pairs), builder[b].op = "commit",
         GraphTypes', OneSpelling(Named)' \/ mixed,
         \A p \in DOMAIN evidence : IsFiniteSet(given'[p]),
         NEW c \in Builders \ {b}, builder'[c] = builder[c]
  PROVE  BuildSound(c)'
<1>1. UNCHANGED <<mixed, doubled>> /\ mixed \in BOOLEAN /\ doubled \in BOOLEAN
  BY DEF Commits, GraphInv, GraphTypes
<1>2. PICK t : t = builder[c]
  OBVIOUS
<1>3. n # NoNote
  BY KnowledgeAssumption
<1>4. ~doubled => t.note # n
  BY <1>2, <1>3 DEF GraphInv, GraphAlone
<1>5. t.op \in Building => t.note \in Notes /\ (~doubled => ~note'[t.note].done)
  <2>1. \A m \in Notes : m # n => note'[m] = note[m]
    BY DEF Commits, GraphInv, GraphTypes
  <2> QED BY <1>2, <1>4, <2>1 DEF GraphInv, BuildSound
<1>6. ~mixed => t.op = "idle"
  BY <1>2 DEF GraphInv, GraphAlone
<1>7. t.op \in {"relate", "commit"} => Loaded(c)'
  <2> SUFFICES ASSUME t.op \in {"relate", "commit"} PROVE Loaded(c)'
    OBVIOUS
  <2>1. Loaded(c) /\ mixed
    BY <1>2, <1>6 DEF GraphInv, BuildSound
  <2>2. IsFiniteSet(linked') /\ linked \subseteq linked' /\ Named \subseteq Named'
    BY DEF GraphTypes, Commits, Named
  <2>3. ASSUME NEW x \in DOMAIN t.mentions PROVE t.mentions[x] <= Cardinality(LinksTo(linked', x))
    <3>1. PICK T : T = linked'
      OBVIOUS
    <3>2. /\ Cardinality(LinksTo(linked, x)) \in Nat /\ Cardinality(LinksTo(T, x)) \in Nat
          /\ Cardinality(LinksTo(linked, x)) <= Cardinality(LinksTo(T, x))
      BY <2>2, <3>1, LinksGrow
    <3>3. t.mentions[x] \in Nat /\ t.mentions[x] <= Cardinality(LinksTo(linked, x))
      BY <1>2, <2>1, <2>3 DEF Loaded
    <3>4. Cardinality(LinksTo(linked', x)) = Cardinality(LinksTo(T, x))
      BY <3>1 DEF LinksTo
    <3> QED BY <3>2, <3>3, <3>4
  <2>4. IsFiniteSet(t.names) /\ t.fresh \subseteq t.names /\ t.names \ t.fresh \subseteq Named
          /\ DOMAIN t.mentions \subseteq Named /\ \A x \in DOMAIN t.mentions : t.mentions[x] \in Nat
    BY <1>2, <2>1 DEF Loaded
  <2> QED BY <1>1, <1>2, <2>1, <2>2, <2>3, <2>4 DEF Loaded
<1>8. t.op = "commit" => Weighed(c)'
  <2> SUFFICES ASSUME t.op = "commit" PROVE Weighed(c)'
    OBVIOUS
  <2>1. Weighed(c) /\ mixed
    BY <1>2, <1>6 DEF GraphInv, BuildSound
  <2>2. DOMAIN t.evidence \subseteq DOMAIN evidence /\ DOMAIN evidence \subseteq DOMAIN evidence'
    BY <1>2, <2>1 DEF Weighed, Commits
  <2>3. ASSUME NEW p \in DOMAIN t.evidence, ~doubled
        PROVE  t.evidence[p] \in Nat /\ t.evidence[p] <= Cardinality(given'[p])
    <3>1. t.evidence[p] \in Nat /\ t.evidence[p] <= Cardinality(given[p])
      BY <1>2, <2>1, <2>3 DEF Weighed
    <3>2. given[p] \subseteq given'[p] /\ IsFiniteSet(given[p]) /\ IsFiniteSet(given'[p])
      BY <2>2 DEF Commits, GraphInv, GraphTypes
    <3>3. PICK S : S = given[p]
      OBVIOUS
    <3>4. PICK T : T = given'[p]
      OBVIOUS
    <3>5. Cardinality(S) <= Cardinality(T)
      BY <3>2, <3>3, <3>4, FS_Subset
    <3>6. Cardinality(S) \in Nat /\ Cardinality(T) \in Nat
      BY <3>2, <3>3, <3>4, FS_CardinalityType
    <3> QED BY <3>1, <3>3, <3>4, <3>5, <3>6
  <2>4. \A p \in DOMAIN t.evidence : t.evidence[p] \in Nat
    BY <1>2, <2>1 DEF Weighed
  <2> QED BY <1>1, <1>2, <2>1, <2>2, <2>3, <2>4 DEF Weighed
<1>9. t.op \in Building \cup {"idle", "name"} /\ (t.op \notin Building => t.note = NoNote)
        /\ (t.op = "idle" => t.names = {})
  BY <1>2 DEF GraphInv, BuildSound
<1>10. ~mixed => (OneSpelling(Named \cup builder[c].names))'
  BY <1>2, <1>6, <1>9 DEF OneSpelling
<1> QED BY <1>1, <1>2, <1>5, <1>7, <1>8, <1>9, <1>10 DEF BuildSound

LEMMA CommitSound ==
  ASSUME GraphInv, NEW b \in Builders, CommitBuild(b)
  PROVE  GraphInv'
<1>1. PICK n, names, fresh, loaded, weighed : n = builder[b].note /\ names = builder[b].names
        /\ fresh = builder[b].fresh /\ loaded = builder[b].mentions /\ weighed = builder[b].evidence
  OBVIOUS
<1>2. PICK pairs : pairs = Pairs(names)
  OBVIOUS
<1>3. Commits(n, names, fresh, loaded, weighed, pairs)
  BY <1>1, <1>2, CommitWrites
<1>4. builder[b].op = "commit" /\ Exit(b)
  BY DEF CommitBuild
<1>5. n \in Notes /\ (~doubled => ~note[n].done) /\ Loaded(b) /\ Weighed(b)
        /\ (~mixed => OneSpelling(Named \cup names))
  BY <1>1, <1>4 DEF GraphInv, BuildSound, Building
<1>6. /\ IsFiniteSet(names) /\ fresh \subseteq names /\ names \ fresh \subseteq Named
      /\ \A x \in DOMAIN loaded : /\ loaded[x] \in Nat /\ loaded[x] <= Cardinality(LinksTo(linked, x))
                                  /\ ~mixed => loaded[x] = mentions[x]
  BY <1>1, <1>5 DEF Loaded
<1>7. /\ DOMAIN weighed \subseteq DOMAIN evidence
      /\ \A p \in DOMAIN weighed : /\ weighed[p] \in Nat /\ (~doubled => weighed[p] <= Cardinality(given[p]))
                                   /\ ~mixed => weighed[p] = evidence[p]
  BY <1>1, <1>5 DEF Weighed
<1>8. \A x \in Named' :
        /\ mentions'[x] \in Nat /\ mentions'[x] <= Cardinality(LinksTo(linked', x))
        /\ ~mixed => mentions'[x] = Cardinality(LinksTo(linked', x))
  <2>1. Named' = Named \cup names
    BY <1>3 DEF Commits, Named
  <2> QED BY <1>3, <1>5, <1>6, <2>1, MentionsCount
<1>9. \A p \in DOMAIN evidence' :
        /\ evidence'[p] \in Nat /\ IsFiniteSet(given'[p])
        /\ ~doubled => evidence'[p] <= Cardinality(given'[p])
        /\ ~mixed => evidence'[p] = Cardinality(given'[p])
  <2>1. DOMAIN evidence' = DOMAIN evidence \cup pairs
    BY <1>3 DEF Commits
  <2> QED BY <1>3, <1>5, <1>7, <2>1, EvidenceCounts
<1>10. UNCHANGED <<mixed, doubled>> /\ note' = [note EXCEPT ![n].done = TRUE]
  BY <1>3 DEF Commits
<1>11. DOMAIN builder' = Builders /\ builder'[b] = NoBuild /\ \A c \in Builders \ {b} : builder'[c] = builder[c]
  BY <1>4 DEF Exit, GraphInv, GraphTypes
<1>12. NoBuild.op = "idle" /\ NoBuild.note = NoNote /\ DOMAIN NoBuild = Fields /\ NoBuild.names = {}
  BY DEF NoBuild, Fields
<1>13. OneSpelling(Named)' \/ mixed
  <2>1. Named' = Named \cup names
    BY <1>3 DEF Commits, Named
  <2> QED BY <1>5, <2>1 DEF OneSpelling
<1>14. GraphTypes'
  <2>1. DOMAIN note' = Notes
          /\ \A m \in Notes : DOMAIN note'[m] = {"exists", "done", "patches"} /\ note'[m].patches \in Nat
    BY <1>10 DEF GraphInv, GraphTypes
  <2>2. DOMAIN builder' = Builders /\ \A c \in Builders : DOMAIN builder'[c] = Fields
    BY <1>11, <1>12 DEF GraphInv, GraphTypes
  <2>3. IsFiniteSet(fresh) /\ IsFiniteSet(linked)
    BY <1>6, FS_Subset DEF GraphInv, GraphTypes
  <2>4. IsFiniteSet({n} \X fresh)
    BY <2>3, FS_Singleton, FS_Product
  <2>5. IsFiniteSet(linked \cup ({n} \X fresh))
    BY <2>3, <2>4, FS_Union
  <2>6. linked' = linked \cup ({n} \X fresh) /\ Named' = Named \cup names
    BY <1>3 DEF Commits, Named
  <2>7. linked' \subseteq Notes \X Named'
    BY <1>5, <1>6, <2>6 DEF GraphInv, GraphTypes
  <2>8. DOMAIN given' = DOMAIN evidence'
    BY <1>3 DEF Commits, GraphInv, GraphTypes
  <2>9. IsFiniteSet(linked')
    BY <2>5, <2>6
  <2>10. mixed' \in BOOLEAN /\ doubled' \in BOOLEAN
    BY <1>10 DEF GraphInv, GraphTypes
  <2> QED BY <1>8, <1>9, <2>1, <2>2, <2>7, <2>8, <2>9, <2>10 DEF GraphTypes
<1>15. \A c \in Builders \ {b} : BuildSound(c)'
  <2>1. \A p \in DOMAIN evidence : IsFiniteSet(given'[p])
    BY <1>3, <1>9 DEF Commits
  <2> QED BY <1>1, <1>3, <1>4, <1>5, <1>11, <1>13, <1>14, <2>1, OthersKeep
<1>16. BuildSound(b)'
  BY <1>10, <1>11, <1>12, <1>13 DEF BuildSound, Building, OneSpelling
<1>17. NotesSound'
  <2>1. \A m \in Notes : /\ note'[m].patches = note[m].patches /\ note'[m].exists = note[m].exists
                         /\ (note[m].done => note'[m].done) /\ note'[n].done
    BY <1>5, <1>10 DEF GraphInv, GraphTypes
  <2>2. links' \subseteq linked' /\ \A l \in linked' : note'[l[1]].exists => l \in links'
    <3>1. \A l \in linked : l[1] \in Notes
      BY DEF GraphInv, GraphTypes
    <3> QED BY <1>3, <2>1, <3>1 DEF Commits, GraphInv, NotesSound
  <2>3. \A p \in DOMAIN given', m \in Notes, k \in Nat :
          <<m, k>> \in given'[p] => k <= note[m].patches /\ (~doubled /\ k = note[m].patches => note'[m].done)
    <3> TAKE p \in DOMAIN given', m \in Notes, k \in Nat
    <3> HAVE <<m, k>> \in given'[p]
    <3>1. (p \in DOMAIN given /\ <<m, k>> \in given[p]) \/ <<m, k>> = <<n, note[n].patches>>
      BY <1>3 DEF Commits
    <3>2. CASE p \in DOMAIN given /\ <<m, k>> \in given[p]
      BY <2>1, <3>2 DEF GraphInv, NotesSound
    <3>3. CASE <<m, k>> = <<n, note[n].patches>>
      <4>1. m = n /\ k = note[n].patches /\ note[n].patches \in Nat
        BY <1>5, <3>3 DEF GraphInv, GraphTypes
      <4> QED BY <2>1, <4>1
    <3> QED BY <3>1, <3>2, <3>3
  <2> QED BY <1>10, <2>1, <2>2, <2>3 DEF NotesSound
<1>18. GraphAlone'
  BY <1>10, <1>11, <1>12 DEF GraphInv, GraphAlone
<1>19. Counted'
  BY <1>8, <1>9, <1>10, <1>13 DEF Counted
<1> QED BY <1>11, <1>14, <1>15, <1>16, <1>17, <1>18, <1>19 DEF GraphInv

\* By hand: an entity without mentions, a relation a user gave.
LEMMA CreateEntitySound ==
  ASSUME GraphInv, NEW b \in Builders, CreateEntity(b)
  PROVE  GraphInv'
<1>1. PICK names : names = builder[b].names
  OBVIOUS
<1>2. /\ builder[b].op = "name" /\ Exit(b) /\ Named' = Named \cup names
      /\ \A x \in Named \cup names : mentions'[x] = IF x \in Named THEN mentions[x] ELSE 0
      /\ UNCHANGED <<note, links, evidence, waiting, sent, mixed, doubled, linked, given>>
  BY <1>1 DEF CreateEntity, Named
<1>3. DOMAIN builder' = Builders /\ builder'[b] = NoBuild /\ \A c \in Builders \ {b} : builder'[c] = builder[c]
  BY <1>2 DEF Exit, GraphInv, GraphTypes
<1>4. NoBuild.op = "idle" /\ NoBuild.note = NoNote /\ DOMAIN NoBuild = Fields /\ NoBuild.names = {}
  BY DEF NoBuild, Fields
<1>5. ~mixed => OneSpelling(Named \cup names)
  BY <1>1 DEF GraphInv, BuildSound
<1>6. \A x \in Named' : /\ mentions'[x] \in Nat /\ mentions'[x] <= Cardinality(LinksTo(linked, x))
                        /\ ~mixed => mentions'[x] = Cardinality(LinksTo(linked, x))
  <2> TAKE x \in Named'
  <2>1. CASE x \in Named
    BY <1>2, <2>1 DEF GraphInv, GraphTypes, Counted
  <2>2. CASE x \notin Named
    BY <1>2, <2>2, NoRowNoLink
  <2> QED BY <2>1, <2>2
<1>7. GraphTypes'
  BY <1>2, <1>3, <1>4, <1>6 DEF GraphInv, GraphTypes
<1>8. \A c \in Builders \ {b} : BuildSound(c)'
  <2> TAKE c \in Builders \ {b}
  <2>1. ~mixed => builder[c].op = "idle" /\ builder[c].names = {}
    BY <1>2 DEF GraphInv, GraphAlone, BuildSound
  <2>2. ~mixed => (OneSpelling(Named \cup builder[c].names))'
    BY <1>2, <1>3, <1>5, <2>1 DEF OneSpelling
  <2>3. builder[c].op \in {"relate", "commit"} => Loaded(c)'
    <3>1. builder[c].op \in {"relate", "commit"} => Loaded(c) /\ mixed
      BY <2>1 DEF GraphInv, BuildSound
    <3> QED BY <1>2, <1>3, <3>1 DEF Loaded
  <2>4. builder[c].op = "commit" => Weighed(c)'
    <3>1. builder[c].op = "commit" => Weighed(c) /\ mixed
      BY <2>1 DEF GraphInv, BuildSound
    <3> QED BY <1>2, <1>3, <3>1 DEF Weighed
  <2> QED BY <1>2, <1>3, <2>2, <2>3, <2>4 DEF GraphInv, BuildSound
<1>9. BuildSound(b)'
  BY <1>2, <1>3, <1>4, <1>5 DEF BuildSound, Building, OneSpelling
<1>10. NotesSound' /\ GraphAlone'
  BY <1>2, <1>3, <1>4 DEF GraphInv, NotesSound, GraphAlone
<1>11. Counted'
  BY <1>2, <1>5, <1>6 DEF GraphInv, Counted, OneSpelling
<1> QED BY <1>3, <1>7, <1>8, <1>9, <1>10, <1>11 DEF GraphInv

LEMMA CreateRelationSound ==
  ASSUME GraphInv, NEW p \in Pairs(Named), CreateRelation(p)
  PROVE  GraphInv'
<1>1. PICK u : u = <<"user">>
  OBVIOUS
<1>2. /\ p \notin DOMAIN evidence /\ DOMAIN evidence' = DOMAIN evidence \cup {p}
      /\ DOMAIN given' = DOMAIN given \cup {p} /\ DOMAIN given = DOMAIN evidence
      /\ evidence'[p] = 1 /\ given'[p] = {u}
      /\ \A q \in DOMAIN evidence : evidence'[q] = evidence[q] /\ given'[q] = given[q]
      /\ UNCHANGED <<note, mentions, links, waiting, sent, builder, mixed, doubled, linked>>
  BY <1>1 DEF CreateRelation, GraphInv, GraphTypes
<1>3. IsFiniteSet({u}) /\ Cardinality({u}) = 1
  BY FS_Singleton
<1>4. \A q \in DOMAIN evidence' :
        /\ evidence'[q] \in Nat /\ IsFiniteSet(given'[q])
        /\ ~doubled => evidence'[q] <= Cardinality(given'[q])
        /\ ~mixed => evidence'[q] = Cardinality(given'[q])
  <2> TAKE q \in DOMAIN evidence'
  <2>1. CASE q = p
    BY <1>2, <1>3, <2>1
  <2>2. CASE q \in DOMAIN evidence
    BY <1>2, <2>2 DEF GraphInv, GraphTypes, Counted
  <2> QED BY <1>2, <2>1, <2>2
<1>5. GraphTypes' /\ GraphAlone'
  BY <1>2, <1>4 DEF GraphInv, GraphTypes, GraphAlone, Named
<1>6. Counted'
  BY <1>2, <1>4 DEF GraphInv, Counted, OneSpelling, Named
<1>7. \A n, k : <<n, k>> # u
  BY <1>1, TwoOfOne
<1>8. NotesSound'
  BY <1>2, <1>7 DEF GraphInv, NotesSound
<1>9. \A b \in Builders : BuildSound(b)'
  <2> TAKE b \in Builders
  <2>1. builder[b].op \in {"relate", "commit"} => Loaded(b)'
    <3>1. builder[b].op \in {"relate", "commit"} => Loaded(b)
      BY DEF GraphInv, BuildSound
    <3> QED BY <1>2, <3>1 DEF Loaded, Named
  <2>2. builder[b].op = "commit" => Weighed(b)'
    <3>1. builder[b].op = "commit" => Weighed(b)
      BY DEF GraphInv, BuildSound
    <3> QED BY <1>2, <3>1 DEF Weighed
  <2> QED BY <1>2, <2>1, <2>2 DEF GraphInv, BuildSound, OneSpelling, Named
<1> QED BY <1>5, <1>6, <1>8, <1>9 DEF GraphInv

\* However often a build is delivered, retried or interrupted and whatever overlaps it: a mention
\* is counted at most once, and so is the evidence of a relation unless two builds of a memory
\* overlapped; as long as nothing overlaps the counters are exact and no entity has two spellings.
THEOREM NothingIsCountedTwice == GraphSpec => []NothingCountedTwice
<1>1. GraphInit => GraphInv
  <2> SUFFICES ASSUME GraphInit PROVE GraphInv
    OBVIOUS
  <2>1. NoBuild.op = "idle" /\ NoBuild.note = NoNote /\ DOMAIN NoBuild = Fields /\ NoBuild.names = {}
    BY DEF NoBuild, Fields
  <2>2. Named = {} /\ linked = {} /\ links = {} /\ DOMAIN evidence = {} /\ DOMAIN given = {} /\ ~mixed /\ ~doubled
    BY DEF GraphInit, Named
  <2>3. DOMAIN builder = Builders /\ \A b \in Builders : builder[b] = NoBuild
    BY DEF GraphInit
  <2>4. GraphTypes
    BY <2>1, <2>2, <2>3, FS_EmptySet DEF GraphTypes, GraphInit
  <2>5. NotesSound /\ GraphAlone /\ Counted
    BY <2>1, <2>2, <2>3 DEF NotesSound, GraphAlone, Counted, OneSpelling
  <2>6. \A b \in Builders : BuildSound(b)
    BY <2>1, <2>2, <2>3 DEF BuildSound, Building, OneSpelling
  <2> QED BY <2>4, <2>5, <2>6 DEF GraphInv
<1>2. GraphInv /\ [GraphNext]_graphVars => GraphInv'
  <2> SUFFICES ASSUME GraphInv, [GraphNext]_graphVars PROVE GraphInv'
    OBVIOUS
  <2>1. CASE UNCHANGED graphVars
    BY <2>1 DEF graphVars, GraphInv, GraphTypes, NotesSound, BuildSound, Loaded, Weighed, GraphAlone, Counted,
                OneSpelling, Named
  <2>2. CASE GraphNext
    BY <2>2, NoteSteps, TakeSound, ExtractSound, RelateSound, CommitSound, LeaveSound, NameSound,
       CreateEntitySound, CreateRelationSound DEF GraphNext
  <2> QED BY <2>1, <2>2
<1>3. GraphInv => NothingCountedTwice
  BY DEF GraphInv, Counted, NothingCountedTwice, OneSpelling, LinksTo
<1> QED BY <1>1, <1>2, <1>3, PTL DEF GraphSpec

--------------------------------------------------------------------------------
(* Syncs of a source.  An item a sync is about to insert has no row of its source, and no other *)
(* sync is about to insert it, as long as the index or the order of the syncs sees to it.       *)

IsSeq(rows) == \E T : rows \in Seq(T)

\* The items of which t is about to insert a row.
Fresh(t) == {i \in DOMAIN t.writes : t.writes[i].row = 0}

\* The source of t is still there.
Current(t) == source.exists /\ source.id = t.id

\* The items the source brought.
Brought == {i \in Items : \E n \in DOMAIN stored[i] : stored[i][n].source = source.id}

SyncFields == {"step", "id", "cursor", "synced", "items", "errors", "newest", "tries", "writes", "added"}

SyncTypes ==
  /\ DOMAIN stored = Items /\ DOMAIN source = DOMAIN NoSource
  /\ source.exists \in BOOLEAN /\ source.id \in Nat
  /\ DOMAIN sync = Syncs /\ \A s \in Syncs : DOMAIN sync[s] = SyncFields
  /\ unique \in BOOLEAN /\ overlapped \in BOOLEAN

RowsSound(i) ==
  /\ IsSeq(stored[i])
  /\ \A n \in DOMAIN stored[i] : /\ DOMAIN stored[i][n] = {"text", "source"}
                                 /\ stored[i][n].source \in Nat /\ stored[i][n].source <= source.id

SyncSound(t) ==
  /\ t.step \in {"idle", "fetch", "persist"}
  /\ t.step # "persist" => DOMAIN t.writes = {} /\ t.added = 0
  /\ t.step # "idle" => t.id \in Nat /\ t.id <= source.id
  /\ DOMAIN t.writes \subseteq Items /\ DOMAIN t.items \cap DOMAIN t.writes = {}
  /\ \A i \in DOMAIN t.writes : t.writes[i].row # 0 => t.writes[i].row \in DOMAIN stored[i]
  /\ IsFiniteSet(Fresh(t)) /\ t.added = Cardinality(Fresh(t))
  /\ ~overlapped /\ Current(t) =>
       \A i \in Fresh(t) : \A n \in DOMAIN stored[i] : stored[i][n].source # t.id
  /\ unique => \A i \in Fresh(t) : DOMAIN stored[i] = {}
  /\ ~overlapped /\ t.step # "idle" /\ Current(t) => t.synced = source.synced

SyncsApart ==
  /\ ~overlapped => \A s, q \in Syncs : sync[s].step # "idle" /\ sync[q].step # "idle" => s = q
  /\ unique => \A s, q \in Syncs : s # q => Fresh(sync[s]) \cap Fresh(sync[q]) = {}

BroughtOnce ==
  /\ unique \/ ~overlapped =>
       \A i \in Items : \A m, n \in DOMAIN stored[i] : stored[i][m].source = stored[i][n].source => m = n
  /\ IsFiniteSet(Brought)
  /\ ~overlapped /\ source.exists => source.synced = Cardinality(Brought)

SyncInv ==
  /\ SyncTypes
  /\ \A i \in Items : RowsSound(i)
  /\ \A s \in Syncs : SyncSound(sync[s])
  /\ SyncsApart
  /\ BroughtOnce

--------------------------------------------------------------------------------
LEMMA SeqDomain ==
  ASSUME NEW rows, IsSeq(rows)
  PROVE  Len(rows) \in Nat /\ DOMAIN rows = 1 .. Len(rows) /\ rows = [n \in 1 .. Len(rows) |-> rows[n]]
<1>1. PICK T : rows \in Seq(T)
  BY DEF IsSeq
<1> QED BY <1>1, LenProperties

\* One row more.
LEMMA AppendedRow ==
  ASSUME NEW rows, IsSeq(rows), NEW e
  PROVE  /\ IsSeq(Append(rows, e)) /\ DOMAIN rows = 1 .. Len(rows) /\ Len(rows) \in Nat
         /\ DOMAIN Append(rows, e) = 1 .. (Len(rows) + 1) /\ Append(rows, e)[Len(rows) + 1] = e
         /\ \A n \in 1 .. Len(rows) : Append(rows, e)[n] = rows[n]
<1>1. PICK T : rows \in Seq(T)
  BY DEF IsSeq
<1>2. PICK U : U = T \cup {e}
  OBVIOUS
<1>3. rows \in Seq(U) /\ e \in U
  BY <1>1, <1>2, SeqDef
<1>4. PICK new : new = Append(rows, e)
  OBVIOUS
<1>5. new \in Seq(U) /\ Len(new) = Len(rows) + 1 /\ new[Len(new)] = e
        /\ \A n \in 1 .. Len(rows) : new[n] = rows[n]
  BY <1>3, <1>4, AppendProperties
<1>6. DOMAIN new = 1 .. Len(new) /\ DOMAIN rows = 1 .. Len(rows) /\ Len(rows) \in Nat
  BY <1>3, <1>5, LenProperties
<1> QED BY <1>4, <1>5, <1>6 DEF IsSeq

\* A row with another text.
LEMMA ChangedRow ==
  ASSUME NEW rows, IsSeq(rows), NEW k, NEW text, NEW new, new = [rows EXCEPT ![k].text = text],
         \A n \in DOMAIN rows : DOMAIN rows[n] = {"text", "source"}
  PROVE  /\ IsSeq(new) /\ DOMAIN new = DOMAIN rows
         /\ \A n \in DOMAIN rows : DOMAIN new[n] = {"text", "source"} /\ new[n].source = rows[n].source
<1>1. PICK T : rows \in Seq(T)
  BY DEF IsSeq
<1>2. DOMAIN new = DOMAIN rows /\ DOMAIN rows = 1 .. Len(rows) /\ Len(rows) \in Nat
  BY <1>1, LenProperties
<1>3. PICK U : U = {new[n] : n \in 1 .. Len(rows)}
  OBVIOUS
<1>4. new \in [1 .. Len(rows) -> U]
  <2>1. new = [n \in 1 .. Len(rows) |-> new[n]]
    BY <1>2
  <2> QED BY <1>3, <2>1
<1>5. new \in Seq(U)
  <2>1. PICK m \in Nat : m = Len(rows)
    BY <1>2
  <2>2. [1 .. m -> U] \subseteq Seq(U)
    BY SeqDef
  <2> QED BY <1>4, <2>1, <2>2
<1>6. \A n \in DOMAIN rows : DOMAIN new[n] = {"text", "source"} /\ new[n].source = rows[n].source
  OBVIOUS
<1> QED BY <1>2, <1>5, <1>6 DEF IsSeq

\* The least row linked is one of them.
LEMMA LeastRow ==
  ASSUME NEW S, S \subseteq Nat, S # {}
  PROVE  Min(S) \in S
<1> DEFINE R == {ss \in Nat \X Nat : ss[1] < ss[2]}
<1>1. IsWellFoundedOn(R, Nat)
  BY NatLessThanWellFounded DEF OpToRel
<1>2. PICK i \in S : \A j \in S : <<j, i>> \notin R
  <2> HIDE DEF R
  <2> QED BY <1>1, WFMin
<1>3. ASSUME NEW j \in S PROVE i <= j
  <2>1. i \in Nat /\ j \in Nat /\ <<j, i>> \notin R
    BY <1>2
  <2>2. ~(j < i)
    BY <2>1
  <2> QED BY <2>1, <2>2
<1> QED BY <1>3 DEF Min

--------------------------------------------------------------------------------
Moves(s, t) ==
  DOMAIN sync' = Syncs /\ sync'[s] = t /\ \A q \in Syncs \ {s} : sync'[q] = sync[q]

SameSource ==
  source'.exists = source.exists /\ source'.id = source.id /\ source'.synced = source.synced
    /\ DOMAIN source' = DOMAIN source

\* A sync that changes nothing but its locals.
LEMMA MoveSound ==
  ASSUME SyncInv, NEW s \in Syncs, NEW t, Moves(s, t), DOMAIN t = SyncFields, SyncSound(t),
         SameSource, UNCHANGED <<unique, stored, overlapped>>,
         t.step # "idle" => sync[s].step # "idle",
         unique => \A q \in Syncs \ {s} : Fresh(t) \cap Fresh(sync[q]) = {}
  PROVE  SyncInv'
<1>1. SyncTypes'
  BY DEF Moves, SameSource, SyncInv, SyncTypes
<1>2. \A i \in Items : RowsSound(i)'
  BY DEF SameSource, SyncInv, RowsSound
<1>3. \A q \in Syncs : SyncSound(sync[q])'
  <2>1. ASSUME NEW u, SyncSound(u) PROVE SyncSound(u)'
    BY <2>1 DEF SameSource, SyncSound, Fresh, Current
  <2>2. \A q \in Syncs : \E u : u = sync'[q] /\ SyncSound(u)
    BY DEF Moves, SyncInv
  <2> TAKE q \in Syncs
  <2>3. PICK u : u = sync'[q] /\ SyncSound(u)
    BY <2>2
  <2>4. SyncSound(u)'
    BY <2>1, <2>3
  <2> QED BY <2>3, <2>4, ZenonT(30) DEF SyncSound, Fresh, Current
<1>4. SyncsApart'
  <2>1. ~overlapped => \A q, r \in Syncs : sync'[q].step # "idle" /\ sync'[r].step # "idle" => q = r
    BY DEF Moves, SyncInv, SyncsApart
  <2>2. unique => \A q, r \in Syncs : q # r => Fresh(sync'[q]) \cap Fresh(sync'[r]) = {}
    BY DEF Moves, SyncInv, SyncsApart
  <2> QED BY <2>1, <2>2 DEF SyncsApart, Fresh
<1>5. BroughtOnce'
  BY DEF SameSource, SyncInv, BroughtOnce, Brought
<1> QED BY <1>1, <1>2, <1>3, <1>4, <1>5 DEF SyncInv

LEMMA NoSyncSound ==
  DOMAIN NoSync = SyncFields /\ NoSync.step = "idle" /\ Fresh(NoSync) = {} /\ SyncSound(NoSync)
<1>1. DOMAIN NoSync = SyncFields /\ NoSync.step = "idle" /\ DOMAIN NoSync.writes = {} /\ NoSync.added = 0
  BY DEF NoSync, SyncFields
<1>2. Fresh(NoSync) = {} /\ Cardinality({}) = 0 /\ IsFiniteSet({})
  BY <1>1, FS_EmptySet DEF Fresh
<1> QED BY <1>1, <1>2 DEF SyncSound

\* Before anything is written: the fetch and what becomes of it.
LEMMA FetchSteps ==
  ASSUME SyncInv, NEW s \in Syncs, Invalid(s) \/ FetchAgain(s) \/ FetchFails(s) \/ Fetch(s)
  PROVE  SyncInv'
<1>1. PICK t : t = sync'[s]
  OBVIOUS
<1>2. PICK u : u = sync[s]
  OBVIOUS
<1>3. /\ u.step = "fetch" /\ DOMAIN u = SyncFields /\ SyncSound(u)
      /\ DOMAIN u.writes = {} /\ u.added = 0
  <2>1. u.step = "fetch" /\ DOMAIN u = SyncFields /\ SyncSound(u)
    BY <1>2 DEF SyncInv, SyncTypes, Invalid, FetchAgain, FetchFails, Fetch
  <2> QED BY <2>1 DEF SyncSound
<1>4. /\ Moves(s, t) /\ DOMAIN t = SyncFields /\ t.step \in {"fetch", "persist"}
      /\ t.id = u.id /\ t.synced = u.synced /\ t.added = u.added /\ DOMAIN t.writes = {}
  <2>1. CASE Invalid(s)
    BY <1>1, <1>2, <1>3, <2>1 DEF Invalid, Moves, SyncInv, SyncTypes, SyncFields
  <2>2. CASE FetchAgain(s)
    BY <1>1, <1>2, <1>3, <2>2 DEF FetchAgain, Moves, SyncInv, SyncTypes, SyncFields
  <2>3. CASE FetchFails(s)
    BY <1>1, <1>2, <1>3, <2>3 DEF FetchFails, Moves, SyncInv, SyncTypes, SyncFields
  <2>4. CASE Fetch(s)
    <3>1. DOMAIN NoItems = {}
      BY DEF NoItems
    <3>2. PICK f \in Fetched(sync[s].cursor) :
            sync' = [sync EXCEPT ![s].step = "persist", ![s].items = f.items, ![s].errors = f.errors,
                                 ![s].newest = f.newest, ![s].writes = NoItems]
      BY <2>4 DEF Fetch
    <3> QED BY <1>1, <1>2, <1>3, <3>1, <3>2 DEF Moves, SyncInv, SyncTypes, SyncFields
  <2> QED BY <2>1, <2>2, <2>3, <2>4
<1>5. Fresh(t) = {} /\ Fresh(u) = {} /\ IsFiniteSet({}) /\ Cardinality({}) = 0
  BY <1>3, <1>4, FS_EmptySet DEF Fresh
<1>6. SyncSound(t)
  BY <1>3, <1>4, <1>5 DEF SyncSound, Current
<1>7. SameSource /\ UNCHANGED <<unique, stored, overlapped>>
  BY DEF Invalid, FetchAgain, FetchFails, Fetch, SameSource
<1> QED BY <1>2, <1>3, <1>4, <1>5, <1>6, <1>7, MoveSound

LEMMA BrokenSound ==
  ASSUME SyncInv, NEW s \in Syncs, Broken(s)
  PROVE  SyncInv'
<1>1. PICK t : t = NoSync
  OBVIOUS
<1>2. Moves(s, t) /\ SameSource /\ UNCHANGED <<unique, stored, overlapped>>
  BY <1>1 DEF Broken, Moves, SameSource, SyncInv, SyncTypes
<1>3. DOMAIN t = SyncFields /\ t.step = "idle" /\ Fresh(t) = {} /\ SyncSound(t)
  BY <1>1, NoSyncSound
<1> QED BY <1>2, <1>3, MoveSound

LEMMA PersistKnownSound ==
  ASSUME SyncInv, NEW s \in Syncs, NEW i \in Items, PersistKnown(s, i)
  PROVE  SyncInv'
<1>1. PICK t : t = sync'[s]
  OBVIOUS
<1>2. PICK u : u = sync[s]
  OBVIOUS
<1>3. PICK n : n = Min(Linked(s, i))
  OBVIOUS
<1>4. n \in DOMAIN stored[i] /\ n # 0
  <2>1. IsSeq(stored[i])
    BY DEF SyncInv, RowsSound
  <2>2. DOMAIN stored[i] \subseteq Nat \ {0}
    BY <2>1, SeqDomain
  <2>3. Linked(s, i) \subseteq DOMAIN stored[i] /\ Linked(s, i) # {}
    BY DEF Linked, PersistKnown
  <2> QED BY <1>3, <2>2, <2>3, LeastRow
<1>5. /\ u.step = "persist" /\ DOMAIN u = SyncFields /\ SyncSound(u) /\ i \in DOMAIN u.items
  BY <1>2 DEF SyncInv, SyncTypes, PersistKnown
<1>6. PICK w : w = [row |-> n, text |-> u.items[i]]
  OBVIOUS
<1>7. PICK more : more = With(u.writes, i, w)
  OBVIOUS
<1>8. /\ Moves(s, t) /\ DOMAIN t = SyncFields /\ t.step = "persist"
      /\ t.id = u.id /\ t.synced = u.synced /\ t.added = u.added /\ t.items = Without(u.items, i)
      /\ t.writes = u.writes \/ t.writes = more
  BY <1>1, <1>2, <1>3, <1>5, <1>6, <1>7 DEF PersistKnown, Moves, SyncInv, SyncTypes, SyncFields
<1>9. /\ DOMAIN more = DOMAIN u.writes \cup {i} /\ more[i].row = n
      /\ \A j \in DOMAIN u.writes \ {i} : more[j] = u.writes[j]
      /\ DOMAIN t.items = DOMAIN u.items \ {i}
  BY <1>6, <1>7, <1>8 DEF With, Without
<1>10. i \notin DOMAIN u.writes
  BY <1>5 DEF SyncSound
<1>11. Fresh(t) = Fresh(u)
  BY <1>4, <1>8, <1>9, <1>10 DEF Fresh
<1>12. SyncSound(t)
  <2>1. DOMAIN t.writes \subseteq Items /\ DOMAIN t.items \cap DOMAIN t.writes = {}
    BY <1>5, <1>8, <1>9 DEF SyncSound
  <2>2. \A j \in DOMAIN t.writes : t.writes[j].row # 0 => t.writes[j].row \in DOMAIN stored[j]
    BY <1>4, <1>5, <1>8, <1>9, <1>10 DEF SyncSound
  <2> QED BY <1>5, <1>8, <1>11, <2>1, <2>2 DEF SyncSound, Current
<1>13. SameSource /\ UNCHANGED <<unique, stored, overlapped>>
  BY DEF PersistKnown, SameSource
<1>14. unique => \A q \in Syncs \ {s} : Fresh(t) \cap Fresh(sync[q]) = {}
  BY <1>2, <1>11 DEF SyncInv, SyncsApart
<1> QED BY <1>2, <1>5, <1>8, <1>12, <1>13, <1>14, MoveSound

LEMMA PersistNewSound ==
  ASSUME SyncInv, NEW s \in Syncs, NEW i \in Items, PersistNew(s, i)
  PROVE  SyncInv'
<1>1. PICK t : t = sync'[s]
  OBVIOUS
<1>2. PICK u : u = sync[s]
  OBVIOUS
<1>5. /\ u.step = "persist" /\ DOMAIN u = SyncFields /\ SyncSound(u) /\ i \in DOMAIN u.items
  BY <1>2 DEF SyncInv, SyncTypes, PersistNew
<1>6. PICK w : w = [row |-> 0, text |-> u.items[i]]
  OBVIOUS
<1>7. PICK more : more = With(u.writes, i, w)
  OBVIOUS
<1>8. /\ Moves(s, t) /\ DOMAIN t = SyncFields /\ t.step = "persist"
      /\ t.id = u.id /\ t.synced = u.synced /\ t.added = u.added + 1 /\ t.items = Without(u.items, i)
      /\ t.writes = more
  BY <1>1, <1>2, <1>5, <1>6, <1>7 DEF PersistNew, Moves, SyncInv, SyncTypes, SyncFields
<1>9. /\ DOMAIN more = DOMAIN u.writes \cup {i} /\ more[i].row = 0
      /\ \A j \in DOMAIN u.writes \ {i} : more[j] = u.writes[j]
      /\ DOMAIN t.items = DOMAIN u.items \ {i}
  BY <1>6, <1>7, <1>8 DEF With, Without
<1>10. i \notin DOMAIN u.writes
  BY <1>5 DEF SyncSound
<1>11. Fresh(t) = Fresh(u) \cup {i} /\ i \notin Fresh(u)
  BY <1>8, <1>9, <1>10 DEF Fresh
<1>12. IsFiniteSet(Fresh(t)) /\ t.added = Cardinality(Fresh(t))
  <2>1. IsFiniteSet(Fresh(u)) /\ u.added = Cardinality(Fresh(u))
    BY <1>5 DEF SyncSound
  <2>2. PICK F : F = Fresh(u)
    OBVIOUS
  <2>3. IsFiniteSet(F \cup {i}) /\ Cardinality(F \cup {i}) = Cardinality(F) + 1
    BY <1>11, <2>1, <2>2, FS_AddElement
  <2> QED BY <1>8, <1>11, <2>1, <2>2, <2>3
<1>13. unique => DOMAIN stored[i] = {}
  BY DEF PersistNew
<1>14. Current(u) => \A n \in DOMAIN stored[i] : stored[i][n].source # u.id
  BY <1>2 DEF PersistNew, Linked, Current
<1>15. SyncSound(t)
  <2>1. DOMAIN t.writes \subseteq Items /\ DOMAIN t.items \cap DOMAIN t.writes = {}
    BY <1>5, <1>8, <1>9 DEF SyncSound
  <2>2. \A j \in DOMAIN t.writes : t.writes[j].row # 0 => t.writes[j].row \in DOMAIN stored[j]
    BY <1>5, <1>8, <1>9, <1>10 DEF SyncSound
  <2>3. Current(t) <=> Current(u)
    BY <1>8 DEF Current
  <2>4. ~overlapped /\ Current(t) =>
          \A j \in Fresh(t) : \A n \in DOMAIN stored[j] : stored[j][n].source # t.id
    BY <1>5, <1>8, <1>11, <1>14, <2>3 DEF SyncSound
  <2>5. unique => \A j \in Fresh(t) : DOMAIN stored[j] = {}
    BY <1>5, <1>11, <1>13 DEF SyncSound
  <2> QED BY <1>5, <1>8, <1>12, <2>1, <2>2, <2>3, <2>4, <2>5 DEF SyncSound
<1>16. SameSource /\ UNCHANGED <<unique, stored, overlapped>>
  BY DEF PersistNew, SameSource
<1>17. unique => \A q \in Syncs \ {s} : Fresh(t) \cap Fresh(sync[q]) = {}
  <2>1. unique => \A q \in Syncs \ {s} : Fresh(u) \cap Fresh(sync[q]) = {}
    BY <1>2 DEF SyncInv, SyncsApart
  <2>2. unique => \A q \in Syncs \ {s} : i \notin Fresh(sync[q])
    BY DEF PersistNew, Fresh
  <2> QED BY <1>11, <2>1, <2>2
<1> QED BY <1>2, <1>5, <1>8, <1>15, <1>16, <1>17, MoveSound

--------------------------------------------------------------------------------
\* The rows of an item before and after a commit: one more if it was fresh.
Extends(old, new, fresh, id) ==
  /\ IsSeq(new) /\ DOMAIN old \subseteq DOMAIN new
  /\ \A n \in DOMAIN new : DOMAIN new[n] = {"text", "source"}
  /\ \A n \in DOMAIN old : new[n].source = old[n].source
  /\ ~fresh => DOMAIN new = DOMAIN old
  /\ fresh => \E m : m \notin DOMAIN old /\ DOMAIN new = DOMAIN old \cup {m} /\ new[m].source = id

LEMMA WrittenRows ==
  ASSUME SyncInv, NEW s \in Syncs, sync[s].step = "persist", NEW i \in Items
  PROVE  Extends(stored[i], Written(s, i), i \in Fresh(sync[s]), sync[s].id)
<1>1. PICK old : old = stored[i]
  OBVIOUS
<1>2. PICK u : u = sync[s]
  OBVIOUS
<1>3. PICK new : new = Written(s, i)
  OBVIOUS
<1>4. IsSeq(old) /\ \A n \in DOMAIN old : DOMAIN old[n] = {"text", "source"}
  BY <1>1 DEF SyncInv, RowsSound
<1>5. CASE i \notin DOMAIN u.writes
  <2>1. new = old /\ i \notin Fresh(u)
    BY <1>1, <1>2, <1>3, <1>5 DEF Written, Fresh
  <2> QED BY <1>1, <1>2, <1>3, <1>4, <2>1 DEF Extends
<1>6. CASE i \in DOMAIN u.writes /\ u.writes[i].row = 0
  <2>1. PICK e : e = [text |-> u.writes[i].text, source |-> u.id]
    OBVIOUS
  <2>2. DOMAIN e = {"text", "source"} /\ e.source = u.id
    BY <2>1
  <2>3. new = Append(old, e) /\ i \in Fresh(u)
    BY <1>1, <1>2, <1>3, <1>6, <2>1 DEF Written, Fresh
  <2>4. PICK k : k = Len(old)
    OBVIOUS
  <2>5. /\ IsSeq(new) /\ DOMAIN old = 1 .. k /\ k \in Nat
        /\ DOMAIN new = 1 .. (k + 1) /\ new[k + 1] = e
        /\ \A n \in 1 .. k : new[n] = old[n]
    <3>2. /\ IsSeq(Append(old, e)) /\ DOMAIN old = 1 .. Len(old) /\ Len(old) \in Nat
          /\ DOMAIN Append(old, e) = 1 .. (Len(old) + 1) /\ Append(old, e)[Len(old) + 1] = e
          /\ \A n \in 1 .. Len(old) : Append(old, e)[n] = old[n]
      BY <1>4, AppendedRow
    <3> QED BY <2>3, <2>4, <3>2
  <2>6. k + 1 \notin DOMAIN old /\ DOMAIN new = DOMAIN old \cup {k + 1}
    BY <2>5
  <2>7. Extends(old, new, TRUE, u.id)
    BY <1>4, <2>2, <2>5, <2>6 DEF Extends
  <2> QED BY <1>1, <1>2, <1>3, <2>3, <2>7
<1>7. CASE i \in DOMAIN u.writes /\ u.writes[i].row # 0
  <2>1. PICK k, text : k = u.writes[i].row /\ text = u.writes[i].text
    OBVIOUS
  <2>2. new = [old EXCEPT ![k].text = text] /\ i \notin Fresh(u)
    BY <1>1, <1>2, <1>3, <1>7, <2>1 DEF Written, Fresh
  <2>3. /\ IsSeq(new) /\ DOMAIN new = DOMAIN old
        /\ \A n \in DOMAIN old : DOMAIN new[n] = {"text", "source"} /\ new[n].source = old[n].source
    BY <1>4, <2>2, ChangedRow
  <2>4. Extends(old, new, FALSE, u.id)
    BY <2>3 DEF Extends
  <2> QED BY <1>1, <1>2, <1>3, <2>2, <2>4 DEF Extends
<1> QED BY <1>5, <1>6, <1>7

LEMMA FinalizeSound ==
  ASSUME SyncInv, NEW s \in Syncs, Finalize(s)
  PROVE  SyncInv'
<1>1. PICK u : u = sync[s]
  OBVIOUS
<1>2. /\ u.step = "persist" /\ DOMAIN u = SyncFields /\ SyncSound(u)
      /\ source.exists /\ source.id = u.id /\ u.id \in Nat
  BY <1>1 DEF SyncInv, SyncTypes, Finalize
<1>3. \A i \in Items : Extends(stored[i], stored'[i], i \in Fresh(u), u.id)
  <2> TAKE i \in Items
  <2>1. stored'[i] = Written(s, i)
    BY DEF Finalize
  <2>2. sync[s].step = "persist"
    BY DEF Finalize
  <2> QED BY <1>1, <2>1, <2>2, WrittenRows
<1>4. DOMAIN stored' = Items /\ UNCHANGED <<unique, overlapped>>
  BY DEF Finalize
<1>5. /\ DOMAIN source' = DOMAIN NoSource /\ source'.exists = source.exists /\ source'.id = source.id
      /\ source'.synced = IF u.added = 0 THEN source.synced ELSE u.synced + u.added
  BY <1>1, <1>2 DEF Finalize, SyncInv, SyncTypes, NoSource
<1>6. Moves(s, NoSync)
  BY DEF Finalize, Moves, SyncInv, SyncTypes
<1>7. SyncTypes'
  BY <1>4, <1>5, <1>6, NoSyncSound DEF SyncInv, SyncTypes, Moves
<1>8. \A i \in Items : RowsSound(i)'
  <2> TAKE i \in Items
  <2>1. Extends(stored[i], stored'[i], i \in Fresh(u), u.id) /\ RowsSound(i)
    BY <1>3 DEF SyncInv
  <2>2. u.id <= source.id
    BY <1>2 DEF SyncInv, SyncTypes
  <2>3. \A n \in DOMAIN stored'[i] : stored'[i][n].source \in Nat /\ stored'[i][n].source <= source.id
    BY <1>2, <2>1, <2>2 DEF Extends, RowsSound
  <2> QED BY <1>5, <2>1, <2>3 DEF Extends, RowsSound
<1>9. \A q \in Syncs \ {s} : ~overlapped => sync[q].step = "idle"
  BY <1>1, <1>2 DEF SyncInv, SyncsApart
<1>10. \A q \in Syncs : SyncSound(sync[q])'
  <2>1. ASSUME NEW v, SyncSound(v), ~overlapped => v.step = "idle",
               unique => Fresh(v) \cap Fresh(u) = {}
        PROVE  SyncSound(v)'
    <3>1. \A i \in DOMAIN v.writes : v.writes[i].row # 0 => v.writes[i].row \in DOMAIN stored'[i]
      BY <1>3, <2>1 DEF SyncSound, Extends
    <3>2. unique => \A i \in Fresh(v) : DOMAIN stored'[i] = {}
      <4>1. \A i \in Fresh(v) : i \in Items
        BY <2>1 DEF SyncSound, Fresh
      <4> QED BY <1>3, <2>1, <4>1 DEF SyncSound, Extends
    <3>3. ~overlapped => Fresh(v) = {} /\ v.step = "idle"
      BY <2>1 DEF SyncSound, Fresh
    <3> QED BY <1>4, <1>5, <2>1, <3>1, <3>2, <3>3 DEF SyncSound, Fresh, Current
  <2>2. \A q \in Syncs : \E v : v = sync'[q] /\ SyncSound(v) /\ (~overlapped => v.step = "idle")
                                  /\ (unique => Fresh(v) \cap Fresh(u) = {})
    <3> TAKE q \in Syncs
    <3>1. CASE q = s
      BY <1>6, <3>1, NoSyncSound DEF Moves
    <3>2. CASE q # s
      BY <1>1, <1>6, <1>9, <3>2 DEF Moves, SyncInv, SyncsApart
    <3> QED BY <3>1, <3>2
  <2> TAKE q \in Syncs
  <2>3. PICK v : v = sync'[q] /\ SyncSound(v) /\ (~overlapped => v.step = "idle")
                                  /\ (unique => Fresh(v) \cap Fresh(u) = {})
    BY <2>2
  <2>4. SyncSound(v)'
    BY <2>1, <2>3
  <2> QED BY <2>3, <2>4, SMTT(30) DEF SyncSound, Fresh, Current
<1>11. SyncsApart'
  <2>1. ~overlapped => \A q, r \in Syncs : sync'[q].step # "idle" /\ sync'[r].step # "idle" => q = r
    BY <1>6, NoSyncSound DEF Moves, SyncInv, SyncsApart
  <2>2. unique => \A q, r \in Syncs : q # r => Fresh(sync'[q]) \cap Fresh(sync'[r]) = {}
    BY <1>6, NoSyncSound DEF Moves, SyncInv, SyncsApart
  <2> QED BY <1>4, <2>1, <2>2 DEF SyncsApart, Fresh
<1>12. ~overlapped => \A i \in Fresh(u) : \A n \in DOMAIN stored[i] : stored[i][n].source # u.id
  BY <1>2 DEF SyncSound, Current
<1>13. Fresh(u) \subseteq Items
  BY <1>2 DEF SyncSound, Fresh
<1>14. BroughtOnce'
  <2>1. unique \/ ~overlapped =>
          \A i \in Items : \A m, n \in DOMAIN stored'[i] : stored'[i][m].source = stored'[i][n].source => m = n
    <3> SUFFICES ASSUME unique \/ ~overlapped, NEW i \in Items, NEW m \in DOMAIN stored'[i],
                        NEW n \in DOMAIN stored'[i], stored'[i][m].source = stored'[i][n].source
                 PROVE  m = n
      OBVIOUS
    <3>1. \A k, l \in DOMAIN stored[i] : stored[i][k].source = stored[i][l].source => k = l
      BY DEF SyncInv, BroughtOnce
    <3>2. Extends(stored[i], stored'[i], i \in Fresh(u), u.id)
      BY <1>3
    <3>3. CASE i \notin Fresh(u)
      BY <3>1, <3>2, <3>3 DEF Extends
    <3>4. CASE i \in Fresh(u)
      <4>1. PICK k : k \notin DOMAIN stored[i] /\ DOMAIN stored'[i] = DOMAIN stored[i] \cup {k}
                       /\ stored'[i][k].source = u.id
        BY <3>2, <3>4 DEF Extends
      <4>2. \A l \in DOMAIN stored[i] : stored[i][l].source # u.id
        <5>1. CASE unique
          BY <1>2, <3>4, <5>1 DEF SyncSound
        <5>2. CASE ~overlapped
          BY <1>12, <3>4, <5>2
        <5> QED BY <5>1, <5>2
      <4>3. \A l \in DOMAIN stored[i] : stored'[i][l].source = stored[i][l].source
        BY <3>2 DEF Extends
      <4> QED BY <3>1, <4>1, <4>2, <4>3
    <3> QED BY <3>3, <3>4
  <2>2. Brought' = Brought \cup Fresh(u)
    <3>1. \A i \in Items : (\E n \in DOMAIN stored'[i] : stored'[i][n].source = u.id)
                             <=> (i \in Fresh(u) \/ \E n \in DOMAIN stored[i] : stored[i][n].source = u.id)
      <4> TAKE i \in Items
      <4>1. Extends(stored[i], stored'[i], i \in Fresh(u), u.id)
        BY <1>3
      <4> QED BY <4>1 DEF Extends
    <3>2. Brought' = {i \in Items : \E n \in DOMAIN stored'[i] : stored'[i][n].source = u.id}
      BY <1>2, <1>5 DEF Brought
    <3>3. Brought = {i \in Items : \E n \in DOMAIN stored[i] : stored[i][n].source = u.id}
      BY <1>2 DEF Brought
    <3> QED BY <1>13, <3>1, <3>2, <3>3
  <2>3. PICK B, F : B = Brought /\ F = Fresh(u)
    OBVIOUS
  <2>4. IsFiniteSet(B) /\ IsFiniteSet(F) /\ u.added = Cardinality(F)
    BY <1>2, <2>3 DEF SyncInv, BroughtOnce, SyncSound
  <2>5. IsFiniteSet(B \cup F)
    BY <2>4, FS_Union
  <2>6. ~overlapped => source'.synced = Cardinality(B \cup F)
    <3> SUFFICES ASSUME ~overlapped PROVE source'.synced = Cardinality(B \cup F)
      OBVIOUS
    <3>1. B \cap F = {}
      BY <1>2, <1>12, <2>3 DEF Brought
    <3>2. Cardinality(B \cup F) = Cardinality(B) + Cardinality(F)
             /\ Cardinality(B) \in Nat /\ Cardinality(F) \in Nat
      <4>1. Cardinality(B \cup F) = Cardinality(B) + Cardinality(F) - Cardinality(B \cap F)
        BY <2>4, FS_Union
      <4>2. Cardinality(B) \in Nat /\ Cardinality(F) \in Nat
        BY <2>4, FS_CardinalityType
      <4>3. Cardinality(B \cap F) = 0
        BY <3>1, FS_EmptySet
      <4>4. PICK b, f, c : b = Cardinality(B) /\ f = Cardinality(F) /\ c = Cardinality(B \cup F)
        OBVIOUS
      <4>5. c = b + f - 0 /\ b \in Nat /\ f \in Nat
        BY <4>1, <4>2, <4>3, <4>4
      <4>6. c = b + f
        BY <4>5
      <4> QED BY <4>2, <4>4, <4>6
    <3>3. source.synced = Cardinality(B)
      BY <1>2, <2>3 DEF SyncInv, BroughtOnce
    <3>4. u.synced = source.synced
      BY <1>2 DEF SyncSound, Current
    <3>5. source'.synced = IF u.added = 0 THEN source.synced ELSE u.synced + u.added
      BY <1>5
    <3>6. PICK b, f : b = Cardinality(B) /\ f = Cardinality(F)
      OBVIOUS
    <3>7. source'.synced = IF f = 0 THEN b ELSE b + f
      BY <2>4, <3>3, <3>4, <3>5, <3>6
    <3> QED BY <3>2, <3>6, <3>7
  <2>7. Brought' = B \cup F
    BY <2>2, <2>3
  <2> QED BY <1>4, <2>1, <2>5, <2>6, <2>7 DEF BroughtOnce
<1> QED BY <1>7, <1>8, <1>10, <1>11, <1>14 DEF SyncInv

\* A request begins a sync of the source as it finds it.
LEMMA RequestSound ==
  ASSUME SyncInv, NEW s \in Syncs, SyncRequest(s)
  PROVE  SyncInv'
<1>1. PICK t : t = sync'[s]
  OBVIOUS
<1>2. /\ Moves(s, t) /\ DOMAIN t = SyncFields /\ t.step = "fetch"
      /\ t.id = source.id /\ t.synced = source.synced /\ t.added = 0 /\ t.writes = <<>> /\ t.items = <<>>
  BY <1>1 DEF SyncRequest, Moves, SyncInv, SyncTypes, NoSync, SyncFields
<1>3. SameSource /\ UNCHANGED <<unique, stored>> /\ source.id \in Nat
  BY DEF SyncRequest, SameSource, SyncInv, SyncTypes, NoSource
<1>4. DOMAIN t.writes = {} /\ DOMAIN t.items = {}
  BY <1>2
<1>5. Fresh(t) = {} /\ IsFiniteSet(Fresh(t)) /\ t.added = Cardinality(Fresh(t))
  <2>1. Fresh(t) = {}
    BY <1>4 DEF Fresh
  <2> QED BY <1>2, <2>1, FS_EmptySet
<1>6. ~overlapped' => ~overlapped /\ \A q \in Syncs : sync[q].step = "idle"
  BY DEF SyncRequest
<1>7. overlapped' \in BOOLEAN
  BY DEF SyncRequest, SyncInv, SyncTypes
<1>8. SyncTypes'
  BY <1>2, <1>3, <1>7 DEF Moves, SameSource, SyncInv, SyncTypes
<1>9. \A i \in Items : RowsSound(i)'
  BY <1>3 DEF SameSource, SyncInv, RowsSound
<1>10. SyncSound(t)
  BY <1>2, <1>3, <1>4, <1>5 DEF SyncSound
<1>11. \A q \in Syncs : SyncSound(sync[q])'
  <2>1. ASSUME NEW u, SyncSound(u) PROVE SyncSound(u)'
    <3>1. ~overlapped' => ~overlapped
      BY <1>6
    <3> QED BY <1>3, <2>1, <3>1 DEF SameSource, SyncSound, Fresh, Current
  <2>2. \A q \in Syncs : \E u : u = sync'[q] /\ SyncSound(u)
    BY <1>2, <1>10 DEF Moves, SyncInv
  <2> TAKE q \in Syncs
  <2>3. PICK u : u = sync'[q] /\ SyncSound(u)
    BY <2>2
  <2>4. SyncSound(u)'
    BY <2>1, <2>3
  <2> QED BY <2>3, <2>4, SMTT(30) DEF SyncSound, Fresh, Current
<1>12. SyncsApart'
  <2>1. ~overlapped' => \A q, r \in Syncs : sync'[q].step # "idle" /\ sync'[r].step # "idle" => q = r
    BY <1>2, <1>6 DEF Moves
  <2>2. unique => \A q, r \in Syncs : q # r => Fresh(sync'[q]) \cap Fresh(sync'[r]) = {}
    BY <1>2, <1>5 DEF Moves, SyncInv, SyncsApart
  <2> QED BY <1>3, <2>1, <2>2 DEF SyncsApart, Fresh
<1>13. BroughtOnce'
  BY <1>3, <1>6 DEF SameSource, SyncInv, BroughtOnce, Brought
<1> QED BY <1>8, <1>9, <1>11, <1>12, <1>13 DEF SyncInv

\* A source connected anew has brought nothing yet, and no sync under way is its own.
LEMMA CreateSound ==
  ASSUME SyncInv, CreateSource
  PROVE  SyncInv'
<1>1. /\ source'.exists = TRUE /\ source'.id = source.id + 1 /\ source'.synced = 0
      /\ DOMAIN source' = DOMAIN NoSource /\ source.id \in Nat
      /\ UNCHANGED <<unique, stored, sync, overlapped>>
  BY DEF CreateSource, NoSource, SyncInv, SyncTypes
<1>2. SyncTypes'
  <2>1. source'.exists \in BOOLEAN
    <3>1. source'.exists = TRUE
      BY DEF CreateSource, NoSource
    <3> QED BY Zenon, <3>1
  <2>2. source'.id \in Nat
    BY <1>1
  <2> QED BY <1>1, <2>1, <2>2 DEF SyncInv, SyncTypes
<1>3. \A i \in Items : RowsSound(i)'
  BY <1>1 DEF SyncInv, RowsSound
<1>4. \A s \in Syncs : SyncSound(sync[s])'
  <2> TAKE s \in Syncs
  <2>1. PICK t : t = sync[s]
    OBVIOUS
  <2>2. SyncSound(t)
    BY <2>1 DEF SyncInv
  <2>3. t.step # "idle" => ~Current(t)' /\ t.id \in Nat /\ t.id <= source.id + 1
    BY <1>1, <2>2 DEF SyncSound, Current
  <2>4. t.step = "idle" => Fresh(t) = {}
    BY <2>2 DEF SyncSound, Fresh
  <2>5. SyncSound(t)'
    BY <1>1, <2>2, <2>3, <2>4 DEF SyncSound, Fresh, Current
  <2> QED BY <1>1, <2>1, <2>5 DEF SyncSound, Fresh, Current
<1>5. SyncsApart'
  BY <1>1 DEF SyncInv, SyncsApart, Fresh
<1>6. BroughtOnce'
  <2>1. \A i \in Items : \A n \in DOMAIN stored[i] : stored[i][n].source # source.id + 1
    BY <1>1 DEF SyncInv, RowsSound
  <2>2. Brought' = {}
    BY <1>1, <2>1 DEF Brought
  <2>3. IsFiniteSet(Brought') /\ Cardinality(Brought') = 0
    BY <2>2, FS_EmptySet
  <2>4. unique \/ ~overlapped =>
       \A i \in Items : \A m, n \in DOMAIN stored[i] : stored[i][m].source = stored[i][n].source => m = n
    BY DEF SyncInv, BroughtOnce
  <2> QED BY <1>1, <2>3, <2>4 DEF BroughtOnce
<1> QED BY <1>2, <1>3, <1>4, <1>5, <1>6 DEF SyncInv

\* What happens to the source otherwise touches no row and no sync.
LEMMA OtherSound ==
  ASSUME SyncInv,
         \/ \E i \in Items : Publish(i)
         \/ DeleteSource
         \/ \E shown \in {"connected", "disconnected"} : UpdateSource(shown)
         \/ UNCHANGED syncVars
  PROVE  SyncInv'
<1>1. /\ DOMAIN source' = DOMAIN source /\ source'.id = source.id /\ source'.synced = source.synced
      /\ source'.exists \in {source.exists, FALSE}
      /\ UNCHANGED <<unique, stored, sync, overlapped>>
  BY DEF Publish, DeleteSource, UpdateSource, syncVars, SyncInv, SyncTypes, NoSource
<1>2. SyncTypes'
  BY <1>1 DEF SyncInv, SyncTypes
<1>3. \A i \in Items : RowsSound(i)'
  BY <1>1 DEF SyncInv, RowsSound
<1>4. \A s \in Syncs : SyncSound(sync[s])'
  <2> TAKE s \in Syncs
  <2>1. PICK t : t = sync[s]
    OBVIOUS
  <2>2. SyncSound(t)
    BY <2>1 DEF SyncInv
  <2>3. Current(t)' => Current(t)
    BY <1>1 DEF Current
  <2>4. SyncSound(t)'
    BY <1>1, <2>2, <2>3 DEF SyncSound, Fresh, Current
  <2> QED BY <1>1, <2>1, <2>4 DEF SyncSound, Fresh, Current
<1>5. SyncsApart'
  BY <1>1 DEF SyncInv, SyncsApart, Fresh
<1>6. BroughtOnce'
  BY <1>1 DEF SyncInv, BroughtOnce, Brought
<1> QED BY <1>2, <1>3, <1>4, <1>5, <1>6 DEF SyncInv

LEMMA SyncInvInit ==
  ASSUME SyncInit
  PROVE  SyncInv
<1>1. SyncTypes
  BY DEF SyncInit, SyncTypes, NoSource, NoSync, SyncFields
<1>2. \A i \in Items : stored[i] = <<>> /\ DOMAIN stored[i] = {} /\ IsSeq(stored[i])
  <2>1. IsSeq(<<>>) /\ DOMAIN <<>> = {}
    <3>1. <<>> \in Seq({})
      BY EmptySeq
    <3> QED BY <3>1 DEF IsSeq
  <2> QED BY <2>1 DEF SyncInit
<1>3. \A i \in Items : RowsSound(i)
  BY <1>2 DEF RowsSound
<1>4. \A s \in Syncs : sync[s] = NoSync
  BY DEF SyncInit
<1>5. \A s \in Syncs : SyncSound(sync[s])
  BY <1>4, NoSyncSound
<1>6. SyncsApart
  BY <1>4, NoSyncSound DEF SyncsApart
<1>7. BroughtOnce
  <2>1. Brought = {}
    BY <1>2 DEF Brought
  <2>2. IsFiniteSet(Brought)
    BY <2>1, FS_EmptySet
  <2>3. ~source.exists
    BY DEF SyncInit, NoSource
  <2> QED BY <1>2, <2>2, <2>3 DEF BroughtOnce
<1> QED BY <1>1, <1>3, <1>5, <1>6, <1>7 DEF SyncInv

LEMMA SyncInvNext ==
  ASSUME SyncInv, [SyncNext]_syncVars
  PROVE  SyncInv'
<1>1. CASE \E s \in Syncs : SyncStep(s)
  <2> PICK s \in Syncs : SyncStep(s)
    BY <1>1
  <2>1. CASE Invalid(s) \/ FetchAgain(s) \/ FetchFails(s) \/ Fetch(s)
    BY <2>1, FetchSteps
  <2>2. CASE \E i \in Items : PersistKnown(s, i)
    BY <2>2, PersistKnownSound
  <2>3. CASE \E i \in Items : PersistNew(s, i)
    BY <2>3, PersistNewSound
  <2>4. CASE Broken(s)
    BY <2>4, BrokenSound
  <2>5. CASE Finalize(s)
    BY <2>5, FinalizeSound
  <2> QED BY <2>1, <2>2, <2>3, <2>4, <2>5 DEF SyncStep
<1>2. CASE \E s \in Syncs : SyncRequest(s)
  BY <1>2, RequestSound
<1>3. CASE CreateSource
  BY <1>3, CreateSound
<1>4. CASE \/ \E i \in Items : Publish(i)
           \/ DeleteSource
           \/ \E shown \in {"connected", "disconnected"} : UpdateSource(shown)
           \/ UNCHANGED syncVars
  BY <1>4, OtherSound
<1> QED BY <1>1, <1>2, <1>3, <1>4 DEF SyncNext

\* A second sync of the same items adds no second memory, with the index always and without
\* it as long as no two syncs overlap, and memories_synced counts what the source brought.
THEOREM ResyncAlwaysAddsNothing == SyncSpec => []ResyncAddsNothing
<1>1. SyncInv => ResyncAddsNothing
  BY DEF SyncInv, BroughtOnce, Brought, ResyncAddsNothing
<1> QED BY <1>1, SyncInvInit, SyncInvNext, PTL DEF SyncSpec

--------------------------------------------------------------------------------
(* The turn of a chat.  What was cached was cached for an earlier retry, and a turn reaches its *)
(* end by a verdict that is good, by the limit, which replaces the text, or with a note.       *)

\* The nodes a turn passes before the retrieval of its current retry.
Ahead == {"router", "memory", "personal_context", "graph_context", "hyde", "retrieval"}

Replaced == turn.response \in {"not_found", ""}

TurnInv ==
  /\ DOMAIN turn = DOMAIN NewTurn /\ turn.retries \in Nat /\ cached \subseteq Nat
  /\ node \in Nodes \cup {"idle", "end", "error", "cancelled"}
  /\ node \in Nodes => \A k \in cached : k <= turn.retries
  /\ node \in Ahead => \A k \in cached : k < turn.retries
  /\ node = "idle" => cached = {}
  /\ ~turn.replayed
  /\ node = "save_note" => turn.type = "save_note"
  /\ node = "record_generation_retry_limit" => Replaced
  /\ node = "save" /\ turn.type = "rag" /\ HasGroundingContext(turn) /\ turn.rejected => Replaced

\* A node that changes neither the type nor the count of the retries, and stays on the way.
LEMMA OnTheWay ==
  ASSUME TurnInv, NEW n \in Nodes, NEW next \in Nodes, NEW t, Step(n, next, t),
         UNCHANGED cached, DOMAIN t = DOMAIN NewTurn, t.retries = turn.retries, ~t.replayed,
         next \in Ahead => n \in Ahead \ {"retrieval"},
         next \notin {"save_note", "record_generation_retry_limit", "save"}
  PROVE  TurnInv'
BY DEF TurnInv, Step, Nodes, Ahead, Replaced

LEMMA RouterSound ==
  ASSUME TurnInv, Router
  PROVE  TurnInv'
<1>1. PICK type : Step("router", RouteFromRouter(type), [turn EXCEPT !.type = type]) /\ UNCHANGED cached
  BY DEF Router
<1>2. RouteFromRouter(type) \in {"answer", "save_note", "memory"}
        /\ (RouteFromRouter(type) = "save_note" => type = "save_note")
  BY DEF RouteFromRouter
<1>3. PICK next : next = RouteFromRouter(type)
  OBVIOUS
<1>4. node = "router" /\ node' = next /\ turn' = [turn EXCEPT !.type = type] /\ UNCHANGED cached
  BY <1>1, <1>3 DEF Step
<1>5. DOMAIN turn' = DOMAIN NewTurn /\ turn'.retries = turn.retries /\ turn'.type = type /\ ~turn'.replayed
  BY <1>4 DEF TurnInv, NewTurn
<1> QED BY <1>2, <1>3, <1>4, <1>5 DEF TurnInv, Nodes, Ahead

LEMMA BeforeRetrieval ==
  ASSUME TurnInv, MemoryLoad \/ PersonalContext \/ GraphContext \/ Hyde
  PROVE  TurnInv'
<1>1. CASE MemoryLoad
  BY <1>1, OnTheWay DEF MemoryLoad, TurnInv, Nodes, Ahead
<1>2. CASE PersonalContext
  <2>1. PICK t : t = turn' OBVIOUS
  <2>2. Step("personal_context", "graph_context", t) /\ DOMAIN t = DOMAIN NewTurn /\ UNCHANGED cached
          /\ t.retries = turn.retries /\ ~t.replayed
    BY <1>2, <2>1 DEF PersonalContext, Step, TurnInv, NewTurn
  <2> QED BY <2>2, OnTheWay DEF Nodes, Ahead
<1>3. CASE GraphContext
  <2>1. PICK t : t = turn' OBVIOUS
  <2>2. Step("graph_context", "hyde", t) /\ DOMAIN t = DOMAIN NewTurn /\ UNCHANGED cached
          /\ t.retries = turn.retries /\ ~t.replayed
    BY <1>3, <2>1 DEF GraphContext, Step, TurnInv, NewTurn
  <2> QED BY <2>2, OnTheWay DEF Nodes, Ahead
<1>4. CASE Hyde
  <2>1. PICK t : t = turn' OBVIOUS
  <2>2. Step("hyde", "retrieval", t) /\ DOMAIN t = DOMAIN NewTurn /\ UNCHANGED cached
          /\ t.retries = turn.retries /\ ~t.replayed
    BY <1>4, <2>1 DEF Hyde, Step, TurnInv, NewTurn
  <2> QED BY <2>2, OnTheWay DEF Nodes, Ahead
<1> QED BY <1>1, <1>2, <1>3, <1>4

LEMMA RetrievalSound ==
  ASSUME TurnInv, RetrievalNone \/ RetrievalHit \/ RetrievalMiss
  PROVE  TurnInv'
<1>1. node = "retrieval" /\ node' = "multihop"
  BY DEF RetrievalNone, RetrievalHit, RetrievalMiss, Step
<1>2. turn.retries \in Nat /\ \A k \in cached : k \in Nat /\ k < turn.retries
  BY <1>1 DEF TurnInv, Ahead
<1>3. turn.retries \notin cached
  BY <1>2
<1>4. DOMAIN turn' = DOMAIN NewTurn /\ turn'.retries = turn.retries /\ ~turn'.replayed
  BY <1>3 DEF RetrievalNone, RetrievalHit, RetrievalMiss, Step, QueryKey, TurnInv, NewTurn
<1>5. cached' \subseteq cached \cup {turn.retries}
  BY DEF RetrievalNone, RetrievalHit, RetrievalMiss, QueryKey
<1>6. \A k \in cached' : k \in Nat /\ k <= turn'.retries
  BY <1>2, <1>4, <1>5
<1> QED BY <1>1, <1>2, <1>4, <1>6 DEF TurnInv, Nodes, Ahead

LEMMA AfterRetrieval ==
  ASSUME TurnInv, Multihop \/ MergeContext \/ Crag \/ Answer
  PROVE  TurnInv'
<1>1. PICK t : t = turn' OBVIOUS
<1>2. PICK n : n = node OBVIOUS
<1>3. PICK next : next = node' OBVIOUS
<1>4. Step(n, next, t) /\ UNCHANGED cached /\ n \in {"multihop", "merge_context", "crag", "answer"}
        /\ next \in {"merge_context", "grade_docs", "answer", "grade_gen"}
  BY <1>1, <1>2, <1>3 DEF Multihop, MergeContext, Crag, Answer, Step, RouteAfterMultihop
<1>5. DOMAIN t = DOMAIN NewTurn /\ t.retries = turn.retries /\ ~t.replayed
  BY <1>1 DEF Multihop, MergeContext, Crag, Answer, Step, TurnInv, NewTurn
<1> QED BY <1>4, <1>5, OnTheWay DEF Nodes, Ahead

LEMMA GradeDocsSound ==
  ASSUME TurnInv, GradeDocs
  PROVE  TurnInv'
<1>1. PICK kept \in SUBSET turn.chunks : \E t :
        /\ t = IF turn.type # "rag" \/ kept = {} THEN turn ELSE [turn EXCEPT !.chunks = kept]
        /\ Step("grade_docs", RouteAfterGradeDocs(t, kept # {}), t) /\ UNCHANGED cached
  BY DEF GradeDocs
<1>1a. PICK t :
        /\ t = IF turn.type # "rag" \/ kept = {} THEN turn ELSE [turn EXCEPT !.chunks = kept]
        /\ Step("grade_docs", RouteAfterGradeDocs(t, kept # {}), t) /\ UNCHANGED cached
  BY <1>1
<1>2. DOMAIN t = DOMAIN NewTurn /\ t.retries = turn.retries /\ ~t.replayed
  BY <1>1a DEF TurnInv, NewTurn
<1>3. PICK next : next = RouteAfterGradeDocs(t, kept # {})
  OBVIOUS
<1>4. next \in {"crag", "retry_retrieval_for_irrelevant_context", "record_irrelevant_context_retry_limit"}
  BY <1>3 DEF RouteAfterGradeDocs
<1>5. Step("grade_docs", next, t) /\ UNCHANGED cached
  BY <1>1a, <1>3
<1> QED BY <1>2, <1>4, <1>5, OnTheWay DEF Nodes, Ahead

\* The limit on the retries of the routing is at least the one of the grader.
LEMMA GradeGenSound ==
  ASSUME MaxCorrections >= 3, TurnInv, GradeGen
  PROVE  TurnInv'
<1>1. PICK v \in Verdicts(turn) : \E t :
        /\ t = [turn EXCEPT !.rejected = ~(v.grounded /\ v.resolved),
                            !.response = IF ~(v.grounded /\ v.resolved) /\ @ # "" /\ OutOfRetries(turn)
                                         THEN "not_found" ELSE @]
        /\ Step("grade_gen", RouteAfterGradeGen(t, v.grounded, v.resolved), t) /\ UNCHANGED cached
  BY DEF GradeGen
<1>2. PICK t :
        /\ t = [turn EXCEPT !.rejected = ~(v.grounded /\ v.resolved),
                            !.response = IF ~(v.grounded /\ v.resolved) /\ @ # "" /\ OutOfRetries(turn)
                                         THEN "not_found" ELSE @]
        /\ Step("grade_gen", RouteAfterGradeGen(t, v.grounded, v.resolved), t) /\ UNCHANGED cached
  BY <1>1
<1>3. /\ DOMAIN t = DOMAIN NewTurn /\ t.retries = turn.retries /\ ~t.replayed
      /\ t.rejected = ~(v.grounded /\ v.resolved)
      /\ ~(v.grounded /\ v.resolved) /\ turn.retries >= 3 => t.response \in {"not_found", ""}
  BY <1>2 DEF TurnInv, NewTurn, OutOfRetries
<1>4. PICK next : next = RouteAfterGradeGen(t, v.grounded, v.resolved)
  OBVIOUS
<1>5. next \in {"save", "record_generation_retry_limit", "retry_retrieval_for_unanswered_question",
                "retry_answer_for_hallucination"}
  BY <1>4 DEF RouteAfterGradeGen
<1>6. next = "save" /\ t.type = "rag" /\ HasGroundingContext(t) => ~t.rejected
  BY <1>3, <1>4 DEF RouteAfterGradeGen
<1>7. next = "record_generation_retry_limit" => ~(v.grounded /\ v.resolved) /\ t.retries >= MaxCorrections
  BY <1>4 DEF RouteAfterGradeGen
<1>8. turn.retries \in Nat /\ MaxCorrections \in Nat
  BY ChatTurnAssumption DEF TurnInv
<1>9. next = "record_generation_retry_limit" => t.response \in {"not_found", ""}
  <2>1. next = "record_generation_retry_limit" => turn.retries >= MaxCorrections
    BY <1>3, <1>7
  <2>2. turn.retries >= MaxCorrections => turn.retries >= 3
    BY <1>8
  <2> QED BY <1>3, <1>7, <2>1, <2>2
<1>10. node = "grade_gen" /\ node' = next /\ turn' = t /\ UNCHANGED cached
  BY <1>2, <1>4 DEF Step
<1> QED BY <1>3, <1>5, <1>6, <1>9, <1>10 DEF TurnInv, Nodes, Ahead, Replaced

LEMMA RetriesSound ==
  ASSUME TurnInv, Retries
  PROVE  TurnInv'
<1>1. /\ node \in Nodes \ Ahead /\ node' \in {"retrieval", "answer"} /\ UNCHANGED cached
      /\ turn' = [turn EXCEPT !.retries = turn.retries + 1]
  BY DEF Retries, Again, Step, Nodes, Ahead
<1>2. turn.retries \in Nat /\ \A k \in cached : k \in Nat /\ k <= turn.retries
  BY <1>1 DEF TurnInv
<1>3. DOMAIN turn' = DOMAIN NewTurn /\ turn'.retries = turn.retries + 1 /\ ~turn'.replayed
  BY <1>1 DEF TurnInv, NewTurn
<1>4. turn'.retries \in Nat /\ \A k \in cached' : k \in Nat /\ k < turn'.retries /\ k <= turn'.retries
  BY <1>1, <1>2, <1>3
<1> QED BY <1>1, <1>3, <1>4 DEF TurnInv, Nodes, Ahead

LEMMA LimitsSound ==
  ASSUME TurnInv, RetryLimits
  PROVE  TurnInv'
BY DEF RetryLimits, Step, TurnInv, Nodes, Ahead, Replaced

LEMMA SaveNoteSound ==
  ASSUME TurnInv, SaveNote
  PROVE  TurnInv'
<1>1. /\ node = "save_note" /\ node' = "save" /\ UNCHANGED cached
      /\ DOMAIN turn' = DOMAIN NewTurn /\ turn'.retries = turn.retries /\ ~turn'.replayed
      /\ turn'.type = "save_note"
  BY DEF SaveNote, Step, TurnInv, NewTurn
<1> QED BY <1>1 DEF TurnInv, Nodes, Ahead

LEMMA NewTurnFields == NewTurn.retries = 0 /\ ~NewTurn.replayed
BY DEF NewTurn

LEMMA StreamSteps ==
  ASSUME TurnInv, Begin \/ Save \/ Raise \/ Close \/ Disconnect
  PROVE  TurnInv'
<1>1. CASE Begin
  <2>1. PICK docs : SendMessage(docs)
    BY <1>1 DEF Begin, RootChat
  <2>2. /\ node = "idle" /\ node' = "router" /\ UNCHANGED cached
        /\ DOMAIN turn' = DOMAIN NewTurn /\ turn'.retries = 0 /\ ~turn'.replayed
    BY <2>1 DEF SendMessage, NewTurn
  <2> QED BY <2>2 DEF TurnInv, Nodes
<1>2. CASE Save
  BY <1>2 DEF Save, TurnInv, Nodes, Ahead
<1>3. CASE Raise
  BY <1>3, NewTurnFields DEF Raise, TurnInv, Nodes, Ahead
<1>4. CASE Close
  BY <1>4 DEF Close, TurnInv, Replaced
<1>5. CASE Disconnect
  BY <1>5, NewTurnFields DEF Disconnect, TurnInv, Nodes, Ahead
<1> QED BY <1>1, <1>2, <1>3, <1>4, <1>5

\* With as many retries as the grader expects (both are 3), no rejected answer is delivered as
\* it was generated, and no retry repeats the chunks its own turn has cached, in every state of
\* a turn, whatever the models, the search and the web return or fail to.
THEOREM RejectedNeverDelivered ==
  ASSUME MaxCorrections >= 3
  PROVE  TurnSpec => []RejectedIsNotDelivered
<1>1. TurnInit => TurnInv
  BY NewTurnFields DEF TurnInit, TurnInv, Nodes, Ahead
<1>2. TurnInv /\ [TurnNext]_turnVars => TurnInv'
  <2> SUFFICES ASSUME TurnInv, [TurnNext]_turnVars PROVE TurnInv'
    OBVIOUS
  <2>1. CASE UNCHANGED turnVars
    BY <2>1 DEF turnVars, TurnInv, Replaced
  <2>2. CASE TurnNext
    BY <2>2, RouterSound, BeforeRetrieval, RetrievalSound, AfterRetrieval, GradeDocsSound, GradeGenSound,
       RetriesSound, LimitsSound, SaveNoteSound, StreamSteps DEF TurnNext, GraphStep
  <2> QED BY <2>1, <2>2
<1>3. TurnInv => RejectedIsNotDelivered
  BY DEF TurnInv, RejectedIsNotDelivered, Replaced
<1> QED BY <1>1, <1>2, <1>3, PTL DEF TurnSpec
================================================================================
