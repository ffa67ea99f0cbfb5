------------------------------ MODULE MemoryStore ------------------------------
(***************************************************************************)
(* The dual write at the centre of the memory hub: rows of the "memories"   *)
(* table (Postgres or SQLite, the source of truth) and the vectors derived  *)
(* from them in the ChromaDB collection.  Every HTTP request or MCP tool    *)
(* call is a coroutine; it loses the processor at each await, so every      *)
(* await on the database or on Chroma is a step of its own here and the     *)
(* steps of different requests interleave.                                  *)
(*                                                                          *)
(* Ids are 1..MaxMem and are handed out in increasing order (a UUID is      *)
(* never used twice; the order stands for indexed_at, which only the        *)
(* reindex task looks at).  A row's text is abstracted to a version number. *)
(***************************************************************************)
EXTENDS Naturals, FiniteSets

CONSTANTS Users,        \* user accounts
          Reqs,         \* coroutines that can be in flight at the same time
          None,         \* no owner, no parent
          MaxMem,       \* bound: ids ever created
          MaxVersion,   \* bound: versions of one row's text
          MaxReceipts,  \* bound: erasure receipts ever written
          MaxDepth,     \* _MAX_BFS_DEPTH
          Ops           \* bound: the entry points an instance exercises

Mems == 1..MaxMem

ASSUME BoundsAssumption == /\ MaxMem \in Nat
                           /\ MaxVersion \in Nat \ {0}
                           /\ MaxReceipts \in Nat
                           /\ MaxDepth \in Nat \ {0}
ASSUME NoneAssumption == None \notin Users /\ None \notin Mems

VARIABLES
  owner,    \* owner[m] : user_id of row m, None when there is no such row
  parent,   \* parent[m] : parent_id of row m
  content,  \* content[m] : version of row m's text, 0 when there is no row
  gone,     \* ids whose row has been deleted
  vecs,     \* vecs[m] : version embedded in m's Chroma vector, 0 when absent
  pc,       \* pc[r] : the await request r is at, "idle" before it arrives
  user,     \* user[r] : the authenticated caller
  subject,  \* subject[r] : the row the request works on (its parent, at "insert")
  snap,     \* snap[r] : version of the ORM object the request holds
  era,      \* era[r] : local variables of erase_memories / _erase_one
  receipts, \* rows of erasure_receipts
  late      \* history: ids that got a vector when they no longer had a row

rows == <<owner, parent, content, gone>>
vars == <<owner, parent, content, gone, vecs, pc, user, subject, snap, era,
          receipts, late>>

--------------------------------------------------------------------------------
(* Rows *)

Live(m) == owner[m] # None

\* Mutant of Owns: the ownership check is dropped.
OwnsAny(u, m) == m \in Mems /\ Live(m)

\* db.get(Memory, id) followed by the ownership check of every handler.
Owns(u, m) == m \in Mems /\ owner[m] = u

\* Rows without children outside the set: what ON DELETE CASCADE closes over.
ChildClosed(S) == \A c \in Mems : Live(c) /\ parent[c] \in S => c \in S

\* Mutant of Cascade: the children are left behind.
CascadeRowOnly(m) == {d \in {m} : Live(d)}

\* The rows one DELETE of row m removes: the smallest child-closed set with m.
Cascade(m) == {d \in Mems : /\ Live(d)
                            /\ \A S \in SUBSET Mems :
                                  m \in S /\ ChildClosed(S) => d \in S}

\* Mutant of DeleteRows: a column outlives the row.
DeleteRowsKeepContent(D) ==
  /\ owner' = [m \in Mems |-> IF m \in D THEN None ELSE owner[m]]
  /\ parent' = [m \in Mems |-> IF m \in D THEN None ELSE parent[m]]
  /\ gone' = gone \cup D
  /\ UNCHANGED content

\* Deleting a row that is already gone matches no row and is not an error.
DeleteRows(D) ==
  /\ owner' = [m \in Mems |-> IF m \in D THEN None ELSE owner[m]]
  /\ parent' = [m \in Mems |-> IF m \in D THEN None ELSE parent[m]]
  /\ content' = [m \in Mems |-> IF m \in D THEN 0 ELSE content[m]]
  /\ gone' = gone \cup D

\* Ids that were never given to a row, and the next one to be given.
Fresh == {m \in Mems : owner[m] = None /\ m \notin gone}
NextId == CHOOSE m \in Fresh : \A n \in Fresh : m <= n

--------------------------------------------------------------------------------
(* Vectors: a call to Chroma (or to the embedding provider before it) either
   takes effect or fails; the write_back helpers swallow the failure. *)

SetVector(m, v) == /\ vecs' = [vecs EXCEPT ![m] = v]
                   /\ late' = IF Live(m) THEN late ELSE late \cup {m}

DropVector(m) == /\ \/ vecs' = [vecs EXCEPT ![m] = 0]
                    \/ UNCHANGED vecs
                 /\ UNCHANGED late

--------------------------------------------------------------------------------
(* Request bookkeeping *)

NoErasure == [requested |-> {}, todo |-> {}, affected |-> {}, frontier |-> {},
              depth |-> 0, later |-> {}, pending |-> {}, checked |-> FALSE,
              present |-> {}, entries |-> {}]

\* A request arrives, has read what it needs, and goes on at label l.
Arrive(r, u, m, l) == /\ pc[r] = "idle"
                      /\ user' = [user EXCEPT ![r] = u]
                      /\ subject' = [subject EXCEPT ![r] = m]
                      /\ pc' = [pc EXCEPT ![r] = l]
                      /\ UNCHANGED <<snap, era>>

At(r, l) == pc[r] = l
Goto(r, l) == /\ pc' = [pc EXCEPT ![r] = l]
              /\ UNCHANGED <<user, subject>>

\* The response is sent (or the exception propagates): locals are dropped.
Return(r) == /\ pc' = [pc EXCEPT ![r] = "idle"]
             /\ user' = [user EXCEPT ![r] = None]
             /\ subject' = [subject EXCEPT ![r] = None]
             /\ snap' = [snap EXCEPT ![r] = 0]
             /\ era' = [era EXCEPT ![r] = NoErasure]

--------------------------------------------------------------------------------
(* POST /memories, MCP add_memory (which has no parent) *)

CreateCheck(r, u, p) ==
  /\ p = None \/ Owns(u, p)
  /\ Cardinality({q \in Reqs : At(q, "insert")}) < Cardinality(Fresh)
  /\ Arrive(r, u, p, "insert")
  /\ UNCHANGED <<rows, vecs, receipts, late>>

\* Mutant of ParentExists: foreign keys not enforced (SQLite without the PRAGMA).
ForeignKeyOff(p) == TRUE

\* The foreign key of parent_id.
ParentExists(p) == p \in Mems => Live(p)

\* INSERT and commit; the foreign key refuses a parent deleted since the check.
CreateInsert(r) ==
  /\ At(r, "insert")
  /\ IF ParentExists(subject[r])
     THEN /\ Fresh # {}
          /\ owner' = [owner EXCEPT ![NextId] = user[r]]
          /\ parent' = [parent EXCEPT ![NextId] = subject[r]]
          /\ content' = [content EXCEPT ![NextId] = 1]
          /\ subject' = [subject EXCEPT ![r] = NextId]
          /\ pc' = [pc EXCEPT ![r] = "refresh"]
          /\ UNCHANGED <<gone, user, snap, era>>
     ELSE Return(r) /\ UNCHANGED rows
  /\ UNCHANGED <<vecs, receipts, late>>

\* db.refresh after the commit of a create or an update: fails on a lost row.
Refresh(r) ==
  /\ At(r, "refresh")
  /\ IF Live(subject[r])
     THEN /\ snap' = [snap EXCEPT ![r] = content[subject[r]]]
          /\ Goto(r, "upsert")
          /\ UNCHANGED era
     ELSE Return(r)
  /\ UNCHANGED <<rows, vecs, receipts, late>>

\* safe_upsert_to_chroma: writes the object read at the refresh, or fails.
Upsert(r) ==
  /\ At(r, "upsert")
  /\ \/ SetVector(subject[r], snap[r])
     \/ UNCHANGED <<vecs, late>>
  /\ Return(r)
  /\ UNCHANGED <<rows, receipts>>

--------------------------------------------------------------------------------
(* PATCH /memories/{id} *)

UpdateGet(r, u, m) ==
  /\ Owns(u, m)
  /\ content[m] + Cardinality({q \in Reqs : At(q, "update")}) < MaxVersion
  /\ Arrive(r, u, m, "update")
  /\ UNCHANGED <<rows, vecs, receipts, late>>

\* UPDATE ... WHERE id: no matching row raises StaleDataError.
UpdateCommit(r) ==
  /\ At(r, "update")
  /\ IF Live(subject[r])
     THEN /\ content' = [content EXCEPT ![subject[r]] = @ + 1]
          /\ Goto(r, "refresh")
          /\ UNCHANGED <<owner, parent, gone, snap, era>>
     ELSE Return(r) /\ UNCHANGED rows
  /\ UNCHANGED <<vecs, receipts, late>>

--------------------------------------------------------------------------------
(* DELETE /memories/{id}: the commit, then the vector of the row itself *)

DeleteGet(r, u, m) ==
  /\ Owns(u, m)
  /\ Arrive(r, u, m, "delete")
  /\ UNCHANGED <<rows, vecs, receipts, late>>

DeleteCommit(r) ==
  /\ At(r, "delete")
  /\ DeleteRows(Cascade(subject[r]))
  /\ Goto(r, "delete_vector")
  /\ UNCHANGED <<vecs, snap, era, receipts, late>>

DeleteVector(r) ==
  /\ At(r, "delete_vector")
  /\ DropVector(subject[r])
  /\ Return(r)
  /\ UNCHANGED <<rows, receipts>>

--------------------------------------------------------------------------------
(* MCP delete_memory: the vector first, then the commit *)

AgentDeleteGet(r, u, m) ==
  /\ Owns(u, m)
  /\ Arrive(r, u, m, "agent_vector")
  /\ UNCHANGED <<rows, vecs, receipts, late>>

AgentDeleteVector(r) ==
  /\ At(r, "agent_vector")
  /\ DropVector(subject[r])
  /\ Goto(r, "agent_commit")
  /\ UNCHANGED <<rows, snap, era, receipts>>

\* The commit carries the DELETE and the ledger row; when it fails both are lost.
AgentDeleteCommit(r) ==
  /\ At(r, "agent_commit")
  /\ \/ DeleteRows(Cascade(subject[r]))
     \/ UNCHANGED rows
  /\ Return(r)
  /\ UNCHANGED <<vecs, receipts, late>>

--------------------------------------------------------------------------------
(* POST /erasure-receipts and MCP forget_memory: erase_memories.  Duplicate ids
   are dropped and the order of the targets is the caller's, so a request is a
   set of ids and the next target is any of those left.  The caller knows only
   ids that exist or existed. *)

\* One entry of receipt.detail["targets"]; frontier # {} is depth_capped, its
\* size is vectors_unverified_depth_cap; affected includes the target.
Entry(m, status, e, rowsLeft) ==
  [mem |-> m, status |-> status, affected |-> e.affected, frontier |-> e.frontier,
   checked |-> e.checked, vectors |-> e.present, rows |-> rowsLeft]

\* Entries of a target that is not the caller's, or whose erasure raised.
EmptyEntry(m, status) == Entry(m, status, NoErasure, {})

\* The status precedence of erase_memories.
ReceiptStatus(E) ==
  IF \E e \in E : e.status = "error" THEN "completed_with_errors"
  ELSE IF \E e \in E : /\ e.status = "deleted"
                       /\ e.vectors # {} \/ e.rows # {} \/ e.frontier # {}
       THEN "completed_with_residual"
       ELSE "completed"

Erasing == {r \in Reqs : era[r].requested # {}}

EraseStart(r, u, T) ==
  /\ pc[r] = "idle"
  /\ T # {} /\ T \cap Fresh = {}
  /\ Cardinality(receipts) + Cardinality(Erasing) < MaxReceipts
  /\ user' = [user EXCEPT ![r] = u]
  /\ pc' = [pc EXCEPT ![r] = "erase"]
  /\ subject' = [subject EXCEPT ![r] = None]
  /\ era' = [era EXCEPT ![r] = [NoErasure EXCEPT !.requested = T, !.todo = T]]
  /\ UNCHANGED <<rows, vecs, snap, receipts, late>>

\* Mutant of NextTarget: a target that raised is tried again.
NextTargetRetry(r, entry) ==
  /\ era' = [era EXCEPT ![r] = [NoErasure EXCEPT
                 !.requested = era[r].requested,
                 !.todo = IF entry.status = "error" THEN era[r].todo
                                                    ELSE era[r].todo \ {entry.mem},
                 !.entries = era[r].entries \cup {entry}]]
  /\ pc' = [pc EXCEPT ![r] = "erase"]
  /\ subject' = [subject EXCEPT ![r] = None]
  /\ UNCHANGED <<user, snap>>

\* The end of one target: its entry is appended and the loop goes on.
NextTarget(r, entry) ==
  /\ era' = [era EXCEPT ![r] = [NoErasure EXCEPT
                 !.requested = era[r].requested, !.todo = era[r].todo \ {entry.mem},
                 !.entries = era[r].entries \cup {entry}]]
  /\ pc' = [pc EXCEPT ![r] = "erase"]
  /\ subject' = [subject EXCEPT ![r] = None]
  /\ UNCHANGED <<user, snap>>

\* db.get and the ownership check of a target; the search below it starts from the
\* target alone.  History: the ids that come later are the ones not given yet.
EraseTarget(r, m) ==
  /\ At(r, "erase")
  /\ m \in era[r].todo
  /\ IF Owns(user[r], m)
     THEN /\ era' = [era EXCEPT ![r].affected = {m}, ![r].frontier = {m},
                                ![r].later = Fresh]
          /\ subject' = [subject EXCEPT ![r] = m]
          /\ pc' = [pc EXCEPT ![r] = "erase_search"]
          /\ UNCHANGED <<user, snap>>
     ELSE NextTarget(r, EmptyEntry(m, "not_found_or_foreign"))
  /\ UNCHANGED <<rows, vecs, receipts, late>>

\* What one query of the search returns, less the ids visited: the caller's rows
\* under the frontier, as they are committed when the query runs.
NextLevel(r) == {c \in Mems : owner[c] = user[r] /\ parent[c] \in era[r].frontier}
                  \ era[r].affected

\* The last query: it returned nothing, or it was for the level at the cap.
LastLevel(r) == NextLevel(r) = {} \/ era[r].depth + 1 = MaxDepth

\* Mutant of EraseLevel: the level at the cap is not read, and its frontier is dropped
\* without a word.
EraseLevelCapSilent(r) ==
  LET level == IF era[r].depth + 1 = MaxDepth THEN {} ELSE NextLevel(r)
  IN  /\ At(r, "erase_search")
      /\ era' = [era EXCEPT ![r].affected = @ \cup level, ![r].frontier = level,
                            ![r].depth = IF LastLevel(r) THEN 0 ELSE @ + 1]
      /\ Goto(r, IF LastLevel(r) THEN "erase_commit" ELSE "erase_search")
      /\ UNCHANGED <<rows, vecs, snap, receipts, late>>

\* One level of the breadth-first search, a query of its own; what the last one
\* leaves in the frontier is depth_capped.  The counts of links that follow it are
\* in no property, so the next await with an effect is the commit.
EraseLevel(r) ==
  /\ At(r, "erase_search")
  /\ era' = [era EXCEPT ![r].affected = @ \cup NextLevel(r),
                        ![r].frontier = NextLevel(r),
                        ![r].depth = IF LastLevel(r) THEN 0 ELSE @ + 1]
  /\ Goto(r, IF LastLevel(r) THEN "erase_commit" ELSE "erase_search")
  /\ UNCHANGED <<rows, vecs, snap, receipts, late>>

EraseCommit(r) ==
  /\ At(r, "erase_commit")
  /\ DeleteRows(Cascade(subject[r]))
  /\ era' = [era EXCEPT ![r].pending = era[r].affected]
  /\ Goto(r, "erase_vectors")
  /\ UNCHANGED <<vecs, snap, receipts, late>>

\* safe_delete_from_chroma for each affected id; a failed delete goes unnoticed.
EraseVector(r, m) ==
  /\ At(r, "erase_vectors")
  /\ m \in era[r].pending
  /\ DropVector(m)
  /\ era' = [era EXCEPT ![r].pending = @ \ {m}]
  /\ UNCHANGED <<rows, pc, user, subject, snap, receipts>>

\* Mutant of EraseVerify: only the target is looked up, not its descendants.
EraseVerifyTargetOnly(r) ==
  /\ At(r, "erase_vectors")
  /\ era[r].pending = {}
  /\ \/ era' = [era EXCEPT ![r].checked = TRUE,
                           ![r].present = {m \in {subject[r]} : vecs[m] # 0}]
     \/ UNCHANGED era
  /\ Goto(r, "erase_record")
  /\ UNCHANGED <<rows, vecs, snap, receipts, late>>

\* _verify_absent: asks Chroma which affected ids it still has, if it answers.
EraseVerify(r) ==
  /\ At(r, "erase_vectors")
  /\ era[r].pending = {}
  /\ \/ era' = [era EXCEPT ![r].checked = TRUE,
                           ![r].present = {m \in era[r].affected : vecs[m] # 0}]
     \/ UNCHANGED era
  /\ Goto(r, "erase_record")
  /\ UNCHANGED <<rows, vecs, snap, receipts, late>>

\* _db_residual_counts: rows still parented into the affected set.
RowsLeft(A) == {c \in Mems : Live(c) /\ parent[c] \in A}

EraseRecord(r) ==
  /\ At(r, "erase_record")
  /\ NextTarget(r, Entry(subject[r], "deleted", era[r], RowsLeft(era[r].affected)))
  /\ UNCHANGED <<rows, vecs, receipts, late>>

\* Any exception of _erase_one, before, at or after its commit: the session is
\* rolled back (the commit, if it happened, stands) and the next target is tried.
EraseError(r, m) ==
  /\ \/ At(r, "erase") /\ m \in era[r].todo
     \/ pc[r] \in {"erase_search", "erase_commit", "erase_record"} /\ m = subject[r]
  /\ NextTarget(r, EmptyEntry(m, "error"))
  /\ UNCHANGED <<rows, vecs, receipts, late>>

\* The receipt is committed, or the commit raises and there is no receipt.
EraseReceipt(r) ==
  /\ At(r, "erase")
  /\ era[r].todo = {}
  /\ \/ receipts' = receipts \cup {[user |-> user[r], requested |-> era[r].requested,
                                    status |-> ReceiptStatus(era[r].entries),
                                    targets |-> era[r].entries]}
     \/ UNCHANGED receipts
  /\ Return(r)
  /\ UNCHANGED <<rows, vecs, late>>

--------------------------------------------------------------------------------
Init ==
  /\ owner = [m \in Mems |-> None]
  /\ parent = [m \in Mems |-> None]
  /\ content = [m \in Mems |-> 0]
  /\ gone = {}
  /\ vecs = [m \in Mems |-> 0]
  /\ pc = [r \in Reqs |-> "idle"]
  /\ user = [r \in Reqs |-> None]
  /\ subject = [r \in Reqs |-> None]
  /\ snap = [r \in Reqs |-> 0]
  /\ era = [r \in Reqs |-> NoErasure]
  /\ receipts = {}
  /\ late = {}

\* A request arrives: any user, any entry point, any id.
Arrival(r) == \E u \in Users :
  \/ "create" \in Ops /\ \E p \in Mems \cup {None} : CreateCheck(r, u, p)
  \/ "update" \in Ops /\ \E m \in Mems : UpdateGet(r, u, m)
  \/ "delete" \in Ops /\ \E m \in Mems : DeleteGet(r, u, m)
  \/ "agent_delete" \in Ops /\ \E m \in Mems : AgentDeleteGet(r, u, m)
  \/ "erase" \in Ops /\ \E T \in SUBSET Mems : EraseStart(r, u, T)

\* A request in flight goes on from the await it is at.
Continue(r) ==
  \/ CreateInsert(r) \/ UpdateCommit(r) \/ Refresh(r) \/ Upsert(r)
  \/ DeleteCommit(r) \/ DeleteVector(r)
  \/ AgentDeleteVector(r) \/ AgentDeleteCommit(r)
  \/ \E m \in Mems : EraseTarget(r, m) \/ EraseVector(r, m) \/ EraseError(r, m)
  \/ EraseLevel(r) \/ EraseCommit(r) \/ EraseVerify(r) \/ EraseRecord(r) \/ EraseReceipt(r)

Next == \E r \in Reqs : Arrival(r) \/ Continue(r)

Spec == Init /\ [][Next]_vars

\* The event loop resumes every coroutine whose await has completed, and every
\* await completes: calls to the database and to Chroma succeed or time out.
FairSpec == Spec /\ \A r \in Reqs : WF_vars(Continue(r))
--------------------------------------------------------------------------------
(* Properties *)

Labels == {"idle", "insert", "refresh", "upsert", "update", "delete",
           "delete_vector", "agent_vector", "agent_commit", "erase",
           "erase_search", "erase_commit", "erase_vectors", "erase_record"}

Entries == [mem : Mems, status : {"deleted", "not_found_or_foreign", "error"},
            affected : SUBSET Mems, frontier : SUBSET Mems, checked : BOOLEAN,
            vectors : SUBSET Mems, rows : SUBSET Mems]

Erasures == [requested : SUBSET Mems, todo : SUBSET Mems, affected : SUBSET Mems,
             frontier : SUBSET Mems, depth : Nat, later : SUBSET Mems,
             pending : SUBSET Mems, checked : BOOLEAN, present : SUBSET Mems,
             entries : SUBSET Entries]

Receipts == [user : Users, requested : SUBSET Mems,
             status : {"completed", "completed_with_residual", "completed_with_errors"},
             targets : SUBSET Entries]

\* Types of the variables; a row exists exactly when it has an owner and a text,
\* and a request in flight has a caller and, past its first step, a row.
TypeOK ==
  /\ owner \in [Mems -> Users \cup {None}]
  /\ parent \in [Mems -> Mems \cup {None}]
  /\ content \in [Mems -> Nat]
  /\ \A m \in Mems : Live(m) <=> content[m] # 0
  /\ gone \in SUBSET Mems
  /\ vecs \in [Mems -> Nat]
  /\ pc \in [Reqs -> Labels]
  /\ user \in [Reqs -> Users \cup {None}]
  /\ \A r \in Reqs : pc[r] # "idle" => user[r] \in Users
  /\ subject \in [Reqs -> Mems \cup {None}]
  /\ \A r \in Reqs : pc[r] \notin {"idle", "insert", "erase"} => subject[r] \in Mems
  /\ snap \in [Reqs -> Nat]
  /\ era \in [Reqs -> Erasures]
  /\ receipts \in SUBSET Receipts
  /\ late \in SUBSET Mems

\* A row's parent exists and belongs to the same user, although the check of
\* create_memory and its INSERT are two steps and deletes run in between: the
\* ownership-checked search of an erasure depends on it.
SameOwnerTree ==
  \A m \in Mems : parent[m] # None => /\ Live(m)
                                      /\ owner[parent[m]] = owner[m]

\* Whatever fails, a receipt has exactly one entry for each requested id, and what it
\* says of a target stays true for good: "deleted" means that the target and the
\* descendants listed with it no longer exist, and "not_found_or_foreign" that the row
\* is not the caller's.
ReceiptStaysTrue ==
  \A rc \in receipts :
    /\ {e.mem : e \in rc.targets} = rc.requested
    /\ \A e, f \in rc.targets : e.mem = f.mem => e = f
    /\ \A e \in rc.targets :
         /\ e.status = "deleted" => e.mem \in e.affected /\ e.affected \subseteq gone
         /\ e.status = "not_found_or_foreign" => owner[e.mem] # rc.user

\* An id that the verification pass saw absent from Chroma has a vector again only if
\* an upsert that was already on its way when the row went wrote it; and a receipt
\* that is "completed", without residual or errors, lists no vector as still there.
VerifiedAbsenceLasts ==
  \A rc \in receipts : \A e \in rc.targets : e.checked =>
    /\ \A m \in e.affected : vecs[m] # 0 => m \in e.vectors \cup late
    /\ rc.status = "completed" => e.vectors = {}

\* The search asks for each level on its own while other requests write, and its
\* receipt must account for what the commit will remove.  From the end of a search to
\* its commit, every row it found that still exists goes with the target; and unless
\* it is flagged as depth-capped, what goes with the target without having been found
\* was stored after the search began, whichever levels were already behind it.
SearchFindsCascade ==
  \A r \in Reqs : At(r, "erase_commit") =>
    /\ era[r].affected \ gone \subseteq Cascade(subject[r])
    /\ era[r].frontier = {} => Cascade(subject[r]) \ era[r].affected \subseteq era[r].later

\* "The receipt must describe what went away" (comment in _erase_one): the rows a
\* commit removes are the ones the search listed, unless the entry is flagged as
\* depth-capped.  A run of its own ends in a counterexample.
ReceiptDescribesErasure ==
  [][\A r \in Reqs : At(r, "erase_commit") /\ pc'[r] = "erase_vectors" =>
       \/ era[r].frontier # {}
       \/ Cascade(subject[r]) \subseteq era[r].affected]_vars

\* Requests of a user remove only rows of that user, a cascade included; an id is
\* stored once and never comes back (module MemoryLifecycle).
Lifecycle == INSTANCE MemoryLifecycle WITH holder <- owner, forgotten <- gone
LifecycleSpec == Lifecycle!Spec

\* Every request is answered, whichever calls fail and whatever the others do.
RequestsReturn == \A r \in Reqs : pc[r] # "idle" ~> pc[r] = "idle"
================================================================================
