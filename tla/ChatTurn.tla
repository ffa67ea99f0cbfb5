------------------------------- MODULE ChatTurn -------------------------------
(***************************************************************************)
(* One chat turn: the agent graph that answers a query, with its corrective  *)
(* loops, and the event stream the client reads.  A chunk is represented by  *)
(* its source, a model's answer by the choice of its outcome.                *)
(***************************************************************************)
EXTENDS Integers, FiniteSets, Sequences

CONSTANTS MaxCorrections, \* MAX_RETRIES of routing.py
          MaxHops,        \* MULTIHOP_MAX_HOPS
          RecursionLimit, \* steps LangGraph runs before it raises; 25 unless configured
          FailOpen        \* EVALUATOR_FAILURE_MODE is not "fail_closed"

ASSUME ChatTurnAssumption == /\ MaxCorrections \in Nat /\ MaxHops \in Nat
                             /\ RecursionLimit \in Nat /\ FailOpen \in BOOLEAN

VARIABLES
  node,   \* node that runs next; "idle", "end", "error" or "cancelled"
  turn,   \* the fields of AgentState that outlive the node that set them
  cached, \* cache keys whose chunks this turn stored
  steps,  \* steps of the graph so far
  stream  \* the terminal events written to the client, and whether it is closed

turnVars == <<node, turn, cached, steps, stream>>

Nodes == {"router", "memory", "personal_context", "graph_context", "hyde", "retrieval",
          "multihop", "merge_context", "grade_docs", "crag", "answer", "grade_gen", "save_note",
          "save", "retry_retrieval_for_irrelevant_context", "retry_answer_for_hallucination",
          "retry_retrieval_for_unanswered_question", "record_irrelevant_context_retry_limit",
          "record_generation_retry_limit"}

\* A chunk's source is "doc", "fact" (a memory or the graph) or "web".  rejected is the
\* last verdict on an answer, hops the planned subqueries that no retrieval has seen.
NewTurn == [type |-> "", hasDocs |-> FALSE, facts |-> FALSE, chunks |-> {}, rejected |-> FALSE,
            retries |-> 0, response |-> "", hops |-> 0, replayed |-> FALSE]

NoEvents == [terminal |-> <<>>, closed |-> FALSE]

--------------------------------------------------------------------------------
(* Routing *)

RouteFromRouter(type) ==
  CASE type = "chitchat" -> "answer" [] type = "save_note" -> "save_note" [] OTHER -> "memory"

HasGroundingContext(t) == t.chunks # {} \/ t.facts

RouteAfterGradeDocs(t, relevant) ==
  IF t.type # "rag" \/ ~HasGroundingContext(t) \/ relevant \/ ~t.hasDocs THEN "crag"
  ELSE IF t.retries < MaxCorrections THEN "retry_retrieval_for_irrelevant_context"
  ELSE "record_irrelevant_context_retry_limit"

RouteAfterGradeGen(t, grounded, resolved) ==
  IF t.type # "rag" \/ ~HasGroundingContext(t) \/ (grounded /\ resolved) THEN "save"
  ELSE IF t.retries >= MaxCorrections THEN "record_generation_retry_limit"
  ELSE IF grounded THEN "retry_retrieval_for_unanswered_question"
  ELSE "retry_answer_for_hallucination"

\* multihop_pending is never set: the loop back to retrieval is never taken.
RouteAfterMultihop == "merge_context"

--------------------------------------------------------------------------------
(* The nodes.  Each runs as one superstep of the graph. *)

Step(n, next, t) ==
  /\ node = n /\ steps < RecursionLimit
  /\ node' = next /\ turn' = t
  /\ steps' = steps + 1
  /\ UNCHANGED stream

\* Without a model: retrieve if there is anything to retrieve from.
RouterFallback(hasDocs, memoryEnabled) == IF hasDocs \/ memoryEnabled THEN "rag" ELSE "chitchat"

\* A regular expression, the model or the fallback decides the type; a type the model
\* invents becomes "rag".
Types == {"rag", "summarize", "chitchat", "save_note"}

Router ==
  \E type \in Types \cup {RouterFallback(turn.hasDocs, m) : m \in BOOLEAN} :
    Step("router", RouteFromRouter(type), [turn EXCEPT !.type = type]) /\ UNCHANGED cached

MemoryLoad == Step("memory", "personal_context", turn) /\ UNCHANGED cached

\* Recalled memories come first, pinned and recent ones fill up to the limit.
RecallToChunks(results, context) == results \/ context

\* No memories either if they are disabled or the recall fails.
PersonalContext ==
  \E results, context \in BOOLEAN :
    Step("personal_context", "graph_context", [turn EXCEPT !.facts = RecallToChunks(results, context)])
      /\ UNCHANGED cached

\* Entities linked to the recalled memories, and those named in the query.
FetchRelevantEntities(memories) ==
  {linked \/ named : linked \in IF memories THEN BOOLEAN ELSE {FALSE}, named \in BOOLEAN}

\* Relations start or end at one of the entities.
FetchOneHopRelations(entities) == IF entities THEN BOOLEAN ELSE {FALSE}

BuildGraphContextChunk(entities, relations) == entities \/ relations

\* One chunk of facts, or none: nothing found, disabled, or a failure.
GraphContext ==
  \E entities \in FetchRelevantEntities(turn.facts) : \E relations \in FetchOneHopRelations(entities) :
    \E chunk \in {BuildGraphContextChunk(entities, relations), FALSE} :
      Step("graph_context", "hyde", [turn EXCEPT !.facts = @ \/ chunk]) /\ UNCHANGED cached

Hyde == Step("hyde", "retrieval", turn) /\ UNCHANGED cached

\* The part of _query_hash that changes within a turn.
QueryKey(t) == t.retries

\* An empty result is left out of the cache only if no search returned anything; the
\* reranker may drop all that was found.
RetrievalOutcomes == {[found |-> f, store |-> s] : f \in SUBSET {"doc"}, s \in BOOLEAN}
                       \ {[found |-> {"doc"}, store |-> FALSE]}

RetrievalNone ==
  /\ ~turn.hasDocs
  /\ Step("retrieval", "multihop", [turn EXCEPT !.chunks = {}]) /\ UNCHANGED cached

\* Chunks that this turn stored, or that an earlier turn did.
RetrievalHit ==
  /\ turn.hasDocs
  /\ \E found \in SUBSET {"doc"} :
       Step("retrieval", "multihop",
            [turn EXCEPT !.chunks = found, !.replayed = @ \/ QueryKey(turn) \in cached])
  /\ UNCHANGED cached

\* Every variant of the query is searched, the planned hops among them.
RetrievalMiss ==
  /\ turn.hasDocs /\ QueryKey(turn) \notin cached
  /\ \E r \in RetrievalOutcomes :
       /\ Step("retrieval", "multihop", [turn EXCEPT !.chunks = r.found, !.hops = 0])
       /\ cached' = IF r.store THEN cached \cup {QueryKey(turn)} ELSE cached

\* Number of hops the model sees in the query: 0 for a single one, or if the call fails.
DetectMultihop == 0 .. MaxHops

\* As many subqueries as hops, whatever the model returned.
GenerateSubqueries(hops) == hops

\* The subqueries of a multi-hop query become variants for the next retrieval.
Multihop ==
  \E hops \in DetectMultihop :
    /\ Step("multihop", RouteAfterMultihop,
            IF hops = 0 THEN turn ELSE [turn EXCEPT !.hops = GenerateSubqueries(hops)])
    /\ UNCHANGED cached

\* Documents, then facts, until the budget is used up; the first chunk is always kept.
Merged(t) ==
  LET facts == IF t.facts THEN {"fact"} ELSE {}
  IN  IF t.chunks = {} THEN {facts} ELSE {t.chunks, t.chunks \cup facts}

MergeContext ==
  \E kept \in Merged(turn) :
    Step("merge_context", "grade_docs", [turn EXCEPT !.chunks = kept]) /\ UNCHANGED cached

\* The chunks graded relevant replace the others, unless there are none.
GradeDocs ==
  \E kept \in SUBSET turn.chunks :
    LET t == IF turn.type # "rag" \/ kept = {} THEN turn ELSE [turn EXCEPT !.chunks = kept]
    IN  /\ Step("grade_docs", RouteAfterGradeDocs(t, kept # {}), t)
        /\ UNCHANGED cached

\* A grading that fails counts as irrelevant.
GradeSingleDocument == {"relevant", "partial", "irrelevant"}

\* CRAG_FALLBACK_THRESHOLD: fewer than half of the documents usable.
NeedsWebFallback(grades) ==
  2 * Cardinality({c \in DOMAIN grades : grades[c] # "irrelevant"}) < Cardinality(DOMAIN grades)

TavilySearch == {{}, {"web"}}

DuckDuckGoSearch == {{}, {"web"}}

\* Tavily, or DuckDuckGo without its key.  A search that fails adds nothing, and results
\* of blocked domains are dropped.
ExecuteWebFallback == TavilySearch \cup DuckDuckGoSearch \cup {{}}

\* Without enough usable chunks those of the web join them; the order of the chunks is
\* left out.
Crag ==
  \E grades \in [turn.chunks -> GradeSingleDocument] :
    \E web \in IF NeedsWebFallback(grades) THEN ExecuteWebFallback ELSE {{}} :
      Step("crag", "answer", [turn EXCEPT !.chunks = @ \cup web]) /\ UNCHANGED cached

\* Text, nothing, or the apology after an error of the model.
Answer ==
  \E response \in {"text", "", "sorry"} :
    Step("answer", "grade_gen", [turn EXCEPT !.response = response]) /\ UNCHANGED cached

\* Mutant of OutOfRetries: one retry more than the routing allows.
OutOfRetriesLate(t) == t.retries > 3

\* The literal 3 in hallucination_agent, beside MAX_RETRIES of the routing.
OutOfRetries(t) == t.retries >= 3

\* What the grader may find: nothing to grade, no context, an error, or a verdict.
Verdicts(t) ==
  IF t.type # "rag" THEN {[grounded |-> TRUE, resolved |-> TRUE]}
  ELSE IF t.response = "" THEN {[grounded |-> TRUE, resolved |-> FALSE]}
  ELSE IF t.chunks = {} THEN {[grounded |-> g, resolved |-> FALSE] : g \in BOOLEAN}
  ELSE {[grounded |-> g, resolved |-> r] : g, r \in BOOLEAN} \cup {[grounded |-> FailOpen, resolved |-> FailOpen]}

\* Once the retries are used up a rejected answer is replaced.
GradeGen ==
  \E v \in Verdicts(turn) :
    LET bad == ~(v.grounded /\ v.resolved)
        t == [turn EXCEPT !.rejected = bad,
                          !.response = IF bad /\ @ # "" /\ OutOfRetries(turn) THEN "not_found" ELSE @]
    IN  /\ Step("grade_gen", RouteAfterGradeGen(t, v.grounded, v.resolved), t)
        /\ UNCHANGED cached

Again(n, next) == Step(n, next, [turn EXCEPT !.retries = @ + 1]) /\ UNCHANGED cached

Retries ==
  \/ Again("retry_retrieval_for_irrelevant_context", "retrieval")
  \/ Again("retry_answer_for_hallucination", "answer")
  \/ Again("retry_retrieval_for_unanswered_question", "retrieval")

RetryLimits ==
  \/ Step("record_irrelevant_context_retry_limit", "crag", turn) /\ UNCHANGED cached
  \/ Step("record_generation_retry_limit", "save", turn) /\ UNCHANGED cached

\* The note is stored, refused for want of a text, or lost to an error.
SaveNote ==
  \E response \in {"saved", "ask", "sorry"} :
    Step("save_note", "save", [turn EXCEPT !.response = response]) /\ UNCHANGED cached

\* Failing to store the two messages is logged only.  The client gets the response, then "done".
Save ==
  /\ node = "save" /\ steps < RecursionLimit
  /\ node' = "end" /\ steps' = steps + 1
  /\ stream' = [stream EXCEPT !.terminal = Append(@, "done")]
  /\ UNCHANGED <<turn, cached>>

--------------------------------------------------------------------------------
(* The stream around the graph *)

SendMessage(docs) ==
  /\ node = "idle"
  /\ turn' = [NewTurn EXCEPT !.hasDocs = docs]
  /\ node' = "router"
  /\ UNCHANGED <<cached, steps, stream>>

\* Without a conversation of the user's a new one is made, which has no documents.
RootChat == \E existing, docs \in BOOLEAN : SendMessage(existing /\ docs)

Begin == RootChat \/ \E docs \in BOOLEAN : SendMessage(docs)

\* Mutant of Raise: the exception is logged only.
RaiseSilently ==
  /\ \/ node \in {"memory", "retrieval", "multihop"}
     \/ node \in Nodes /\ steps >= RecursionLimit
  /\ node' = "error" /\ turn' = NewTurn
  /\ UNCHANGED <<cached, steps, stream>>

\* Redis or the database fails where no node catches it, the model's subqueries lack a
\* field, or the graph has taken too many steps.
Raise ==
  /\ \/ node \in {"memory", "retrieval", "multihop"}
     \/ node \in Nodes /\ steps >= RecursionLimit
  /\ node' = "error" /\ turn' = NewTurn
  /\ stream' = [stream EXCEPT !.terminal = Append(@, "error")]
  /\ UNCHANGED <<cached, steps>>

\* The sentinel that ends the queue.
Close ==
  /\ node \in {"end", "error"} /\ ~stream.closed
  /\ stream' = [stream EXCEPT !.closed = TRUE]
  /\ UNCHANGED <<node, turn, cached, steps>>

\* The client goes away: the task is cancelled.
Disconnect ==
  /\ node # "idle" /\ ~stream.closed
  /\ node' = "cancelled" /\ stream' = [stream EXCEPT !.closed = TRUE]
  /\ turn' = NewTurn /\ cached' = {} /\ steps' = 0

--------------------------------------------------------------------------------
TurnInit ==
  node = "idle" /\ turn = NewTurn /\ cached = {} /\ steps = 0 /\ stream = NoEvents

GraphStep ==
  \/ Router \/ MemoryLoad \/ PersonalContext \/ GraphContext \/ Hyde
  \/ RetrievalNone \/ RetrievalHit \/ RetrievalMiss \/ Multihop \/ MergeContext
  \/ GradeDocs \/ Crag \/ Answer \/ GradeGen \/ Retries \/ RetryLimits
  \/ SaveNote \/ Save

TurnNext == Begin \/ GraphStep \/ Raise \/ Close \/ Disconnect

TurnSpec == TurnInit /\ [][TurnNext]_turnVars

\* The event loop resumes the graph's task after every await; the model's client has a
\* timeout, so an await ends.
FairTurnSpec == TurnSpec /\ WF_turnVars(GraphStep \/ Raise \/ Close)

--------------------------------------------------------------------------------
\* A turn ends, with one terminal event unless the client went away: the retry loops of
\* the graph share one counter, and every exception becomes an "error" event.
TurnEnds ==
  node = "router" ~> stream.closed /\ (node = "cancelled" \/ Len(stream.terminal) = 1)

\* A rag answer with context that the grader rejected is not delivered as it was
\* generated: the graph retries, and when it may not any more the text is replaced.  No
\* retry is made of the chunks that an earlier attempt of the turn stored in the cache.
RejectedIsNotDelivered ==
  /\ node = "save" /\ turn.type = "rag" /\ HasGroundingContext(turn) /\ turn.rejected
       => turn.response \in {"not_found", ""}
  /\ ~turn.replayed
================================================================================
