-------------------------------- MODULE Reindex --------------------------------
(***************************************************************************)
(* The Celery task reindex_user_memories replays rows into the Chroma       *)
(* collection, page by page, while requests keep changing both.  It is the  *)
(* remedy the write_back helpers count on when they swallow a failure.      *)
(***************************************************************************)
EXTENDS MemoryStore

CONSTANTS PageSize,   \* _PAGE_SIZE
          MaxRetries, \* max_retries of the task
          Batches     \* the ids of one transaction (import, sync): equal indexed_at

ASSUME ReindexAssumption == /\ PageSize \in Nat \ {0}
                            /\ MaxRetries \in Nat
                            /\ Batches \subseteq SUBSET Mems

VARIABLES
  task,   \* the task: step, arguments and locals
  missed  \* history: a row or vector the attempt started with went away

rvars == <<vars, task, missed>>

NoTask == [step |-> "none", user |-> None, onlyMissing |-> FALSE, offset |-> 0,
           page |-> [m \in {} |-> 0], existing |-> {}, retries |-> 0, start |-> {}]

Mine(u) == {m \in Mems : owner[m] = u}

Tied(m, n) == \E B \in Batches : m \in B /\ n \in B

\* The only row of its transaction, as every request stores it.
Alone(m) == \A n \in Mems : Tied(m, n) => n = m

\* ORDER BY indexed_at leaves rows of one transaction in no particular order.
Before(m, n) == m < n /\ ~Tied(m, n)

\* The rows of S come before the others of u, for some order of the ties.
Prefix(S, u) == /\ S \subseteq Mine(u)
                /\ \A n \in S : \A m \in Mine(u) : Before(m, n) => m \in S

Smaller(i, j) == IF i < j THEN i ELSE j

\* The first k rows of u, or all of them when there are not as many.
FirstRows(u, k) == {S \in SUBSET Mine(u) : /\ Prefix(S, u)
                                           /\ Cardinality(S) = Smaller(k, Cardinality(Mine(u)))}

\* Mutant of Pages: the offset skips one row.
PagesSkipping(u, offset) ==
  UNION {{R \ Q : R \in {S \in FirstRows(u, offset + 1 + PageSize) : Q \subseteq S}} :
           Q \in FirstRows(u, offset + 1)}

\* What SELECT ... ORDER BY indexed_at OFFSET offset LIMIT PageSize may return: the
\* rows that follow the first offset ones.
Pages(u, offset) ==
  UNION {{R \ Q : R \in {S \in FirstRows(u, offset + PageSize) : Q \subseteq S}} :
           Q \in FirstRows(u, offset)}

\* The task is picked up, first by admin's POST .../reindex, later as a retry.
Begin(u, onlyMissing, retries) ==
  /\ task' = [NoTask EXCEPT !.step = "page", !.user = u, !.onlyMissing = onlyMissing,
                            !.retries = retries, !.start = Mine(u)]
  /\ missed' = FALSE
  /\ UNCHANGED vars

ReindexStart(u, onlyMissing) ==
  /\ task.step \in {"none", "done", "failed"}
  /\ Begin(u, onlyMissing, 0)

\* One page of rows; an empty page ends the task.
ReadPage ==
  /\ task.step = "page"
  /\ \E P \in Pages(task.user, task.offset) :
       task' = IF P = {} THEN [task EXCEPT !.step = "done"]
               ELSE [task EXCEPT
                       !.step = IF task.onlyMissing THEN "existing" ELSE "upsert",
                       !.page = [m \in P |-> content[m]], !.existing = {}]
  /\ UNCHANGED <<vars, missed>>

\* get_existing_memory_ids_sync: ids of the page that already have a vector.
CheckExisting ==
  /\ task.step = "existing"
  /\ task' = [task EXCEPT !.step = "upsert",
                          !.existing = {m \in DOMAIN task.page : vecs[m] # 0}]
  /\ UNCHANGED <<vars, missed>>

\* Mutant of UpsertPage: the offset stays where it is.
UpsertPageOffsetStuck ==
  /\ task.step = "upsert"
  /\ LET todo == DOMAIN task.page \ task.existing
     IN  /\ vecs' = [m \in Mems |-> IF m \in todo THEN task.page[m] ELSE vecs[m]]
         /\ late' = late \cup {m \in todo : ~Live(m)}
  /\ task' = [task EXCEPT !.step = "page"]
  /\ UNCHANGED <<rows, pc, user, subject, snap, era, receipts, missed>>

\* One batched upsert of what is missing, then the next page.
UpsertPage ==
  /\ task.step = "upsert"
  /\ LET todo == DOMAIN task.page \ task.existing
     IN  /\ vecs' = [m \in Mems |-> IF m \in todo THEN task.page[m] ELSE vecs[m]]
         /\ late' = late \cup {m \in todo : ~Live(m)}
  /\ task' = [task EXCEPT !.step = "page", !.offset = @ + PageSize]
  /\ UNCHANGED <<rows, pc, user, subject, snap, era, receipts, missed>>

\* Any exception: self.retry starts the task over, unless it was the last attempt.
ReindexError ==
  /\ task.step \in {"page", "existing", "upsert"}
  /\ IF task.retries < MaxRetries
     THEN Begin(task.user, task.onlyMissing, task.retries + 1)
     ELSE /\ task' = [task EXCEPT !.step = "failed"]
          /\ UNCHANGED <<vars, missed>>

--------------------------------------------------------------------------------
\* The store as earlier requests left it, whatever became of the Chroma volume.
ReindexInit ==
  /\ owner \in [Mems -> Users \cup {None}]
  /\ vecs \in [Mems -> {0, 1}]
  /\ parent = [m \in Mems |-> None]
  /\ content = [m \in Mems |-> IF owner[m] = None THEN 0 ELSE 1]
  /\ \A m, n \in Mems : m < n /\ owner[m] = None => owner[n] = None
  /\ \A m \in Mems : owner[m] = None => vecs[m] = 0
  /\ \A m, n \in Mems : Tied(m, n) => owner[m] = owner[n]
  /\ gone = {}
  /\ pc = [r \in Reqs |-> "idle"]
  /\ user = [r \in Reqs |-> None]
  /\ subject = [r \in Reqs |-> None]
  /\ snap = [r \in Reqs |-> 0]
  /\ era = [r \in Reqs |-> NoErasure]
  /\ receipts = {}
  /\ late = {}
  /\ task = NoTask
  /\ missed = FALSE

\* The history a step of a request leaves.
Meanwhile ==
  /\ UNCHANGED task
  /\ missed' = (missed \/ \E m \in task.start : \/ m \in gone' \ gone
                                                \/ vecs[m] # 0 /\ vecs'[m] = 0)

RequestStep == Next /\ Meanwhile

TaskStep == ReadPage \/ CheckExisting \/ UpsertPage \/ ReindexError

ReindexNext ==
  \/ RequestStep
  \/ \E u \in Users : \E b \in BOOLEAN : ReindexStart(u, b)
  \/ TaskStep

ReindexSpec == ReindexInit /\ [][ReindexNext]_rvars

\* A worker runs the task to its end (time limits count as exceptions).
FairReindexSpec == ReindexSpec /\ WF_rvars(TaskStep)

--------------------------------------------------------------------------------
(* Properties *)

\* "Recall can always be made whole again": when the task ends normally, every row
\* it started with that shares its indexed_at with no other has a vector, whichever
\* requests ran beside it, unless one of them took a row or a vector of the user away
\* meanwhile.  Rows of one transaction may change places between two pages, and one
\* of them may be on neither page; the rows before and after them are not affected.
ReindexMakesWhole ==
  task.step = "done" /\ ~missed => \A m \in task.start : Alone(m) => vecs[m] # 0

\* The task comes to an end, although requests keep adding rows behind the offset.
ReindexEnds == task.step \in {"page", "existing", "upsert"} ~>
                 task.step \in {"done", "failed"}
================================================================================
