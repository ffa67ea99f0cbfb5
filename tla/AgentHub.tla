------------------------------- MODULE AgentHub -------------------------------
(***************************************************************************)
(* The tools of one user's memories that registered agents call over MCP,    *)
(* and the ledger in which every call is meant to leave a row.  Each call is  *)
(* made once; its record keeps what it was answered.                          *)
(***************************************************************************)
EXTENDS Naturals

CONSTANTS Agents,  \* clients the user may register
          Own,     \* ids of memories of the user
          Foreign, \* ids of memories of others
          Calls,   \* calls ever made
          NoId     \* no memory, no agent

ASSUME HubAssumption == Own \cap Foreign = {} /\ NoId \notin Own \cup Foreign \cup Agents

VARIABLES
  enforced, \* the database has the foreign keys of the migration (lite mode has none)
  client,   \* rows of agent_clients: status, scopes
  kept,     \* rows of memories
  ledger,   \* rows of memory_access_logs
  old,      \* the rows that are older than the retention
  pruned,   \* history: rows that were removed for their age
  call      \* per call: agent, tool, argument, step, what it was shown and what it did

hubVars == <<enforced, client, kept, ledger, old, pruned, call>>

Reads == {"search", "timeline", "get", "list"}
Writes == {"add", "delete", "forget"}

NotMade == [agent |-> NoId, tool |-> "none", id |-> NoId, step |-> "none", ids |-> {}, did |-> {}]

\* A row: call and tool it is of, column memory_id, ids of its detail, and what it claims.
Row(c, about, named, done) ==
  [call |-> c, agent |-> call[c].agent, tool |-> call[c].tool, about |-> about, named |-> named,
   done |-> done]

\* A row cannot be inserted about a memory that does not exist.
Insertable(m) == enforced => m \in kept \cup {NoId}

\* ON DELETE SET NULL: the row stays and forgets which memory it was about.
Forgetting(rows, gone) == {IF enforced /\ r.about \in gone THEN [r EXCEPT !.about = NoId] ELSE r : r \in rows}

Log(row) == ledger' = ledger \cup {row}

Proceed(c, step) == call' = [call EXCEPT ![c].step = step]
Answer(c, ids) == call' = [call EXCEPT ![c].step = "answered", ![c].ids = ids]

clients == <<enforced, client, old, pruned>>

--------------------------------------------------------------------------------
(* Clients and their identity *)

\* validate_scopes: no scope asked for is the scope to read.
RegisterClient(a, scopes) ==
  /\ client[a].status = "none"
  /\ client' = [client EXCEPT ![a] = [status |-> "active", scopes |-> scopes]]
  /\ UNCHANGED <<enforced, kept, ledger, old, pruned, call>>

Revoke(a) ==
  /\ client[a].status = "active"
  /\ client' = [client EXCEPT ![a].status = "revoked"]
  /\ UNCHANGED <<enforced, kept, ledger, old, pruned, call>>

Allowed(a, tool) ==
  client[a].status = "active" /\ (IF tool \in Reads THEN "read" ELSE "write") \in client[a].scopes

\* The identity is resolved once, in a session of its own; refusals leave no row.
Resolve(c, a, tool, m) ==
  /\ call[c].step = "none" /\ client[a].status # "none"
  /\ tool \in {"search", "list", "add"} <=> m = NoId
  /\ call' = [call EXCEPT ![c] = [NotMade EXCEPT !.agent = a, !.tool = tool, !.id = m,
                !.step = IF Allowed(a, tool) THEN "begun" ELSE "refused"]]
  /\ UNCHANGED <<clients, kept, ledger>>

--------------------------------------------------------------------------------
(* Tools that read *)

\* The ids of the best memories, in a session of its own; their number is limited.
Recall(c) ==
  /\ call[c].tool = "search" /\ call[c].step = "begun"
  /\ \E ids \in SUBSET (Own \cap kept) :
       /\ Own \cap kept # {} => ids # {}
       /\ call' = [call EXCEPT ![c].step = "recalled", ![c].ids = ids]
  /\ UNCHANGED <<clients, kept, ledger>>

\* What still exists is answered, and named by the row.
Search(c) ==
  /\ call[c].tool = "search" /\ call[c].step = "recalled"
  /\ Log(Row(c, NoId, call[c].ids \cap Own \cap kept, TRUE))
  /\ Answer(c, call[c].ids \cap Own \cap kept)
  /\ UNCHANGED <<clients, kept>>

ListRecent(c) ==
  /\ call[c].tool = "list" /\ call[c].step = "begun"
  /\ \E ids \in SUBSET (Own \cap kept) :
       /\ Own \cap kept # {} => ids # {}
       /\ Log(Row(c, NoId, ids, TRUE)) /\ Answer(c, ids)
  /\ UNCHANGED <<clients, kept>>

\* The row names the anchor alone; a memory not found leaves no row.
Timeline(c) ==
  LET m == call[c].id
  IN  /\ call[c].tool = "timeline" /\ call[c].step = "begun"
      /\ IF m \notin Own \cap kept THEN Proceed(c, "not_found") /\ UNCHANGED ledger
         ELSE \E ids \in SUBSET (Own \cap kept) :
                Log(Row(c, NoId, {m}, TRUE)) /\ Answer(c, ids \cup {m})
      /\ UNCHANGED <<clients, kept>>

GetRead(c) ==
  /\ call[c].tool = "get" /\ call[c].step = "begun"
  /\ call' = [call EXCEPT ![c].step = "read", ![c].ids = {call[c].id} \cap Own \cap kept]
  /\ UNCHANGED <<clients, kept, ledger>>

\* A row about an id that does not exist is refused: the call fails and leaves none.
GetCommit(c) ==
  LET t == call[c]
  IN  /\ t.tool = "get" /\ t.step = "read"
      /\ IF Insertable(t.id)
         THEN /\ Log(Row(c, t.id, {}, t.ids # {}))
              /\ IF t.ids = {} THEN Proceed(c, "not_found") ELSE Answer(c, t.ids)
         ELSE Proceed(c, "failed") /\ UNCHANGED ledger
      /\ UNCHANGED <<clients, kept>>

--------------------------------------------------------------------------------
(* Tools that write *)

\* Its vector (MemoryStore) may fail silently.
AddMemory(c) ==
  /\ call[c].tool = "add" /\ call[c].step = "begun"
  /\ \E m \in Own \ kept :
       /\ \A d \in Calls : m # call[d].id /\ m \notin call[d].did
       /\ kept' = kept \cup {m}
       /\ call' = [call EXCEPT ![c].step = "added", ![c].did = {m}]
  /\ UNCHANGED <<clients, ledger>>

\* In a second transaction, which fails when the memory was deleted meanwhile.
AddCommit(c) ==
  LET m == CHOOSE x \in call[c].did : TRUE
  IN  /\ call[c].tool = "add" /\ call[c].step = "added"
      /\ IF Insertable(m) THEN Log(Row(c, m, {m}, TRUE)) /\ Answer(c, {m})
         ELSE Proceed(c, "failed") /\ UNCHANGED ledger
      /\ UNCHANGED <<clients, kept>>

\* Mutant of DeleteFind: the row is committed before the memory is deleted.
DeleteFindAndTell(c) ==
  LET m == call[c].id
  IN  /\ call[c].tool = "delete" /\ call[c].step = "begun" /\ m \in Own \cap kept
      /\ Proceed(c, "found")
      /\ Log(Row(c, NoId, {}, TRUE))
      /\ UNCHANGED <<clients, kept>>

\* The vector (MemoryStore) is dropped before the commit.
DeleteFind(c) ==
  LET m == call[c].id
  IN  /\ call[c].tool = "delete" /\ call[c].step = "begun" /\ m \in Own \cap kept
      /\ Proceed(c, "found")
      /\ UNCHANGED <<clients, kept, ledger>>

DeleteNotFound(c) ==
  LET m == call[c].id
  IN  /\ call[c].tool = "delete" /\ call[c].step = "begun" /\ m \notin Own \cap kept
      /\ IF Insertable(m) THEN Log(Row(c, m, {}, FALSE)) /\ Proceed(c, "not_found")
         ELSE Proceed(c, "failed") /\ UNCHANGED ledger
      /\ UNCHANGED <<clients, kept>>

\* One flush inserts the row, then deletes the memory: the row loses its memory_id at once.
\* If the memory was deleted meanwhile, the foreign key fails the transaction.
DeleteCommit(c) ==
  LET m == call[c].id
  IN  /\ call[c].tool = "delete" /\ call[c].step = "found"
      /\ IF Insertable(m)
         THEN /\ ledger' = Forgetting(ledger \cup {Row(c, m, {}, TRUE)}, {m})
              /\ kept' = kept \ {m}
              /\ call' = [call EXCEPT ![c].step = "answered", ![c].did = {m} \cap kept]
         ELSE Proceed(c, "failed") /\ UNCHANGED <<kept, ledger>>
      /\ UNCHANGED clients

\* erase_memories commits what it erases, and its receipt.
Forget(c) ==
  LET gone == {call[c].id} \cap Own \cap kept
  IN  /\ call[c].tool = "forget" /\ call[c].step = "begun"
      /\ kept' = kept \ gone
      /\ ledger' = Forgetting(ledger, gone)
      /\ call' = [call EXCEPT ![c].step = "erased", ![c].did = gone]
      /\ UNCHANGED clients

ForgetCommit(c) ==
  /\ call[c].tool = "forget" /\ call[c].step = "erased"
  /\ Log(Row(c, NoId, {call[c].id}, call[c].did # {})) /\ Answer(c, {})
  /\ UNCHANGED <<clients, kept>>

--------------------------------------------------------------------------------
(* Around the calls *)

Underway(c) == call[c].step \in {"begun", "recalled", "read", "added", "found", "erased"}

\* The database fails, or the process dies: what is not committed is undone.
CallFails(c) ==
  /\ Underway(c)
  /\ Proceed(c, "failed")
  /\ UNCHANGED <<clients, kept, ledger>>

\* The user, or a sync, removes a memory.
RemoveMemory(m) ==
  /\ m \in kept
  /\ kept' = kept \ {m}
  /\ ledger' = Forgetting(ledger, {m})
  /\ UNCHANGED <<clients, call>>

\* Ninety days pass, in which no call is under way.
DaysPass ==
  /\ \A c \in Calls : ~Underway(c)
  /\ old' = {r.call : r \in ledger}
  /\ old' # old
  /\ UNCHANGED <<enforced, client, kept, ledger, pruned, call>>

\* prune_access_ledger.
Prune ==
  /\ \E r \in ledger : r.call \in old
  /\ ledger' = {r \in ledger : r.call \notin old}
  /\ pruned' = pruned \cup old
  /\ UNCHANGED <<enforced, client, kept, old, call>>

--------------------------------------------------------------------------------
HubInit ==
  /\ enforced \in BOOLEAN
  /\ client = [a \in Agents |-> [status |-> "none", scopes |-> {}]]
  /\ \E ids \in SUBSET Own : kept = ids \cup Foreign
  /\ ledger = {} /\ old = {} /\ pruned = {}
  /\ call = [c \in Calls |-> NotMade]

HubNext ==
  \/ \E a \in Agents :
       \/ \E scopes \in (SUBSET {"read", "write"}) \ {{}} : RegisterClient(a, scopes)
       \/ Revoke(a)
  \/ \E c \in Calls :
       \/ \E a \in Agents, tool \in Reads \cup Writes, m \in Own \cup Foreign \cup {NoId} :
            Resolve(c, a, tool, m)
       \/ Recall(c) \/ Search(c) \/ ListRecent(c) \/ Timeline(c) \/ GetRead(c) \/ GetCommit(c)
       \/ AddMemory(c) \/ AddCommit(c) \/ DeleteFind(c) \/ DeleteNotFound(c) \/ DeleteCommit(c)
       \/ Forget(c) \/ ForgetCommit(c) \/ CallFails(c)
  \/ \E m \in Own : RemoveMemory(m)
  \/ DaysPass \/ Prune

HubSpec == HubInit /\ [][HubNext]_hubVars

--------------------------------------------------------------------------------
(* Properties *)

\* However calls, deletions and failures interleave, the ledger answers which agent saw and
\* did what: an answer has a row (until it is pruned) that names what was shown, or lost
\* its one memory with that memory; only a call that failed may have changed the memories
\* without a row; no row claims a deletion that did not happen; and no memory of another
\* user is shown (mcp_hub/tools.py).
LedgerExplains ==
  LET rows(c) == {r \in ledger : r.call = c}
  IN  /\ \A c \in Calls :
           /\ call[c].step = "answered" => rows(c) # {} \/ c \in pruned
           /\ call[c].did # {} /\ ~Underway(c) /\ call[c].step # "failed" =>
                rows(c) # {} \/ c \in pruned
           /\ call[c].ids \subseteq Own
      /\ \A r \in ledger :
           /\ call[r.call].step \in {"answered", "not_found"} /\ r.agent = call[r.call].agent
           /\ r.tool \in {"search", "list"} => call[r.call].ids = r.named
           /\ r.tool = "get" /\ r.about = NoId /\ r.done => call[r.call].ids \cap kept = {}
           /\ r.tool \in {"delete", "forget"} /\ r.done => call[r.call].id \notin kept
================================================================================
