---------------------------- MODULE ChunkRetrieval ----------------------------
(***************************************************************************)
(* One question asked again and again in a conversation while its documents  *)
(* are ingested and deleted: hybrid search, expansion to parents, reranking,  *)
(* and the two Redis caches that answers and parents are kept in.  A document *)
(* stands for its chunks.  Every rebuild of the keyword index raises: the     *)
(* half of the search that uses it finds nothing, and a deletion fails after  *)
(* its commit, before it would drop the cached answers.  A document deleted   *)
(* while it is being ingested is left to Documents.                           *)
(***************************************************************************)
EXTENDS Naturals, FiniteSets

CONSTANTS Papers,   \* documents
          Asks,     \* retrievals under way
          QueryTTL, \* CACHE_TTL of the answers, in ticks
          Patience, \* bound on the ticks a retrieval takes
          MaxDeleted \* bound on the documents deleted

ASSUME RetrievalAssumption == QueryTTL \in Nat \ {0} /\ {Patience, MaxDeleted} \subseteq Nat

VARIABLES
  paper,   \* per document: step of its ingestion or its deletion; its vectors were dropped
  parents, \* documents whose parents are cached
  answer,  \* the cached answer: documents, ticks left; none when no tick is left
  ask,     \* per retrieval: step, age and locals
  since    \* history: ticks since the deletion was committed, up to Fading

retrievalVars == <<paper, parents, answer, ask, since>>

Fading == Patience + QueryTTL

NoAsk == [step |-> "idle", age |-> 0, after |-> {}, found |-> {}, given |-> {}]
NoAnswer == [docs |-> {}, left |-> 0]

In(steps) == {d \in Papers : paper[d].step \in steps}
Deleted == In({"cleaned", "gone"})
Cached == answer.left > 0
Asking(q) == ask[q].step \notin {"idle", "answered"}

\* Children in the collection of the conversation, chunks in the database.
Vectors == In({"vectors", "ready"}) \cup {d \in Deleted : ~paper[d].dropped}
Chunks == In({"ready", "cleaned"})

\* What the keyword index finds: ensure_async rebuilds it from a SELECT that raises (the
\* generic JSON of chunk_metadata has no .astext), so that no web process ever has one.
Keywords == {}

\* Documents that should no longer be found, however the deletion and retrievals overlapped.
Faded == {d \in In({"gone"}) : paper[d].dropped /\ since[d] = Fading}

--------------------------------------------------------------------------------
(* retrieval_agent *)

\* Mutant of ReadAnswer: reading the answer starts its time to live anew, as reading a
\* parent does.
ReadAnswerRenewing == answer' = [answer EXCEPT !.left = QueryTTL]

\* get_cached_chunks only reads.
ReadAnswer == UNCHANGED answer

\* A cached answer, even an empty one, is the answer.
Lookup(q) ==
  LET new == [NoAsk EXCEPT !.after = Faded]
  IN  /\ ~Asking(q)
      /\ \/ /\ Cached
            /\ ask' = [ask EXCEPT ![q] = [new EXCEPT !.step = "answered", !.given = answer.docs]]
            /\ ReadAnswer
         \/ /\ ~Cached
            /\ ask' = [ask EXCEPT ![q] = [new EXCEPT !.step = "search"]]
            /\ UNCHANGED answer
      /\ UNCHANGED <<paper, parents, since>>

\* reciprocal_rank_fusion: ranked lists of children, one of each parent.
Fused(byWord, near) == byWord \cup near

\* Keywords, then the nearest chunks of the variants and of the HyDE passages, which may find
\* nothing, or fail.  Nothing found at all is an answer that is not cached.
Search(q) ==
  /\ ask[q].step = "search"
  /\ \E near \in {{}, Vectors} :
       LET found == Fused(Keywords, near)
       IN  ask' = [ask EXCEPT ![q].step = IF found = {} THEN "answered" ELSE "parents", ![q].found = found]
  /\ UNCHANGED <<paper, parents, answer, since>>

\* get_parents_batch: from the cache, the rest from the database.
Known(found) == found \cap (parents \cup Chunks)

\* When no parent is left at all the children found stand for themselves.
Expand(q) ==
  LET known == Known(ask[q].found)
  IN  /\ ask[q].step = "parents"
      /\ ask' = [ask EXCEPT ![q].step = "rerank", ![q].found = IF known = {} THEN @ ELSE known]
      /\ parents' = parents \cup known
      /\ UNCHANGED <<paper, answer, since>>

\* rerank: what scores well enough, or all when it fails.
Reranked(found) == {{}, found}

\* It is answered and cached.
Rerank(q) ==
  /\ ask[q].step = "rerank"
  /\ \E final \in Reranked(ask[q].found) :
       /\ ask' = [ask EXCEPT ![q].step = "answered", ![q].found = {}, ![q].given = final]
       /\ answer' = [docs |-> final, left |-> QueryTTL]
  /\ UNCHANGED <<paper, parents, since>>

--------------------------------------------------------------------------------
(* Ingestion and deletion of a document *)

Move(d, from, to) == paper[d].step = from /\ paper' = [paper EXCEPT ![d].step = to]

\* store_parents, and upsert_chunks, before which no search finds the document: nothing is
\* committed yet.
IngestVectors(d) ==
  /\ Move(d, "new", "vectors")
  /\ parents' = parents \cup {d}
  /\ UNCHANGED <<answer, ask, since>>

\* The commit, then the answers are dropped, unless Redis fails.
IngestEnds(d) ==
  /\ Move(d, "vectors", "ready")
  /\ answer' \in {answer, NoAnswer}
  /\ UNCHANGED <<parents, ask, since>>

\* delete_document drops the vectors first, and swallows an error of that; an error ends a
\* deletion at any step, and it may be tried again.
CleanVectors(d) ==
  /\ paper[d].step \in {"ready", "cleaned"} /\ Cardinality(Deleted \cup {d}) <= MaxDeleted
  /\ \E ok \in BOOLEAN :
       paper' = [paper EXCEPT ![d] = [step |-> "cleaned", dropped |-> paper[d].dropped \/ ok]]
  /\ UNCHANGED <<parents, answer, ask, since>>

\* The commit.  What should follow does not: publish_rebuild_async raises, and the answers
\* are not dropped; nor are cached parents, as invalidate_conversation has no caller.
DeleteCommit(d) ==
  /\ Move(d, "cleaned", "gone")
  /\ UNCHANGED <<parents, answer, ask, since>>

\* A parent's time to live starts anew whenever it is used: it may end at any time.
ParentExpires(d) ==
  /\ parents' = parents \ {d} /\ d \in parents
  /\ UNCHANGED <<paper, answer, ask, since>>

Tick ==
  /\ \A q \in Asks : Asking(q) => ask[q].age < Patience
  /\ ask' = [q \in Asks |-> IF Asking(q) THEN [ask[q] EXCEPT !.age = @ + 1] ELSE ask[q]]
  /\ since' = [d \in Papers |-> IF paper[d].step = "gone" /\ since[d] < Fading THEN since[d] + 1 ELSE since[d]]
  /\ answer' = IF answer.left > 1 THEN [answer EXCEPT !.left = @ - 1] ELSE NoAnswer
  /\ UNCHANGED <<paper, parents>>

--------------------------------------------------------------------------------
RetrievalInit ==
  /\ paper \in [Papers -> [step : {"new", "ready"}, dropped : {FALSE}]]
  /\ parents = {} /\ answer = NoAnswer
  /\ since = [d \in Papers |-> 0]
  /\ ask = [q \in Asks |-> NoAsk]

RetrievalNext ==
  \/ \E q \in Asks : Lookup(q) \/ Search(q) \/ Expand(q) \/ Rerank(q)
  \/ \E d \in Papers :
       \/ IngestVectors(d) \/ IngestEnds(d)
       \/ CleanVectors(d) \/ DeleteCommit(d) \/ ParentExpires(d)
  \/ Tick

RetrievalSpec == RetrievalInit /\ [][RetrievalNext]_retrievalVars

--------------------------------------------------------------------------------
(* Properties *)

\* A question asked Patience and QueryTTL ticks after a document was deleted, and its vectors
\* were, is answered without it: no retrieval under way at the deletion is older, no answer it
\* cached lives longer, and what stays in the parents' cache is never found on its own
\* (retrieval_agent, delete_document).
DeletedFadesOut ==
  \A q \in Asks : ask[q].step = "answered" => ask[q].given \cap ask[q].after = {}
================================================================================
