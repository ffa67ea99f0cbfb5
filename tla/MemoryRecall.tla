------------------------------ MODULE MemoryRecall ------------------------------
(***************************************************************************)
(* Recall of a user's memories for the turns of a chat, and the salience it   *)
(* feeds: what an answer used is lifted, what lies idle decays, the user may  *)
(* set it, while memories are created and deleted.  Salience is counted in    *)
(* steps, and lifted by one.                                                  *)
(***************************************************************************)
EXTENDS Integers, FiniteSets, Functions

CONSTANTS Facts,       \* memories of the user: numbers, newer is larger
          Recent,      \* those captured within lookback_days
          Turns,       \* turns under way
          TopK,        \* memories asked for
          ContextCap,  \* the personal context holds at most that many
          RecentLimit, \* and that many of the newest
          MaxSalience, Usual, Floor,
          MaxUses,     \* bound on the uses counted
          MaxEdits     \* bound on the user's edits

ASSUME RecallAssumption ==
  /\ Facts \subseteq Nat /\ Recent \subseteq Facts
  /\ {TopK, ContextCap, RecentLimit, MaxSalience, MaxUses, MaxEdits} \subseteq Nat
  /\ Usual \in 0..MaxSalience /\ Floor \in 0..MaxSalience

VARIABLES
  row,     \* memories in the database: salience, pinned, recall_count, idle
  near,    \* memories in the collection
  turn,    \* per turn: step and locals
  uses,    \* history: bumps committed
  edits    \* edits made

recallVars == <<row, near, turn, uses, edits>>

NoTurn == [step |-> "idle", gone |-> {}, broken |-> FALSE, loaded |-> <<>>, context |-> {}, candidates |-> {},
           results |-> {}, read |-> <<>>]

Stored == DOMAIN row
Newest(n, S) == {f \in S : Cardinality({g \in S : g > f}) < n}

--------------------------------------------------------------------------------
(* Scores *)

\* A salience of 0 counts as the usual one.
Effective(salience) == IF salience = 0 THEN Usual ELSE salience

\* time_decay_score: times 0.5 + salience, and 1.5 when pinned; the age is left out.
Decayed(base, m) == base * (MaxSalience + 2 * Effective(m.salience)) * (IF m.pinned THEN 3 ELSE 2)

\* entity_boost: 0.3 for each shared entity, at most 1.0.
Boosted(base, matches) == base * (10 + (IF matches > 3 THEN 10 ELSE 3 * matches))

--------------------------------------------------------------------------------
(* MemoryRetriever.recall in a turn *)

\* fetch_personal_context: pinned, recent and newest; the newest of them, pinned or not.
PersonalContext ==
  Newest(ContextCap, {f \in Stored : row[f].pinned} \cup (Stored \cap Recent) \cup Newest(RecentLimit, Stored))

\* Of a loaded row the score reads these columns.
Scored(m) == [salience |-> m.salience, pinned |-> m.pinned]

\* An error is swallowed, but the session it happened in is of no more use.
RecallBegins(t) ==
  LET new == [NoTurn EXCEPT !.step = "search", !.gone = Facts \ Stored]
  IN  /\ turn[t].step = "idle"
      /\ \/ turn' = [turn EXCEPT ![t] = [new EXCEPT !.context = PersonalContext,
                                                    !.loaded = [f \in PersonalContext |-> Scored(row[f])]]]
         \/ turn' = [turn EXCEPT ![t] = [new EXCEPT !.broken = TRUE]]
      /\ UNCHANGED <<row, near, uses, edits>>

Respond(t, results, context) ==
  turn' = [turn EXCEPT ![t] = [NoTurn EXCEPT !.step = "answer", !.gone = turn[t].gone,
                                             !.results = results, !.context = context]]

\* The query is rewritten, or left as it is, and embedded; without an embedding, and when
\* the search fails, there are no candidates.
SearchMemories(t) ==
  /\ turn[t].step = "search"
  /\ \/ Respond(t, {}, turn[t].context)
     \/ near # {} /\ turn' = [turn EXCEPT ![t].step = "hydrate", ![t].candidates = near]
  /\ UNCHANGED <<row, near, uses, edits>>

\* Rows of the candidates.
Hydrated(t) == turn[t].candidates \cap Stored

\* The best TopK of the rows, for some similarities and some entities in common.  What the
\* session has loaded as a context is not loaded again.
Best(t, found, similar, matches) ==
  LET memory(f) == IF f \in DOMAIN turn[t].loaded THEN turn[t].loaded[f] ELSE Scored(row[f])
      score == [f \in found |-> Decayed(Boosted(similar[f], matches[f]), memory(f))]
  IN  {top \in SUBSET found :
         /\ Cardinality(top) = IF Cardinality(found) < TopK THEN Cardinality(found) ELSE TopK
         /\ \A f \in top, g \in found \ top : score[f] >= score[g]}

\* Mutant of HydrateAndRank: the search's own score and text will do.
RankCandidates(t) ==
  /\ turn[t].step = "hydrate"
  /\ \E top \in SUBSET turn[t].candidates : Cardinality(top) <= TopK /\ Respond(t, top, turn[t].context)
  /\ UNCHANGED <<row, near, uses, edits>>

\* In a broken session the recall raises; the turn goes on without memories.
HydrateAndRank(t) ==
  /\ turn[t].step = "hydrate"
  /\ \/ turn[t].broken /\ Respond(t, {}, {})
     \/ /\ ~turn[t].broken
        /\ \E similar \in [Hydrated(t) -> 1..2], matches \in [Hydrated(t) -> 0..1] :
             \E top \in Best(t, Hydrated(t), similar, matches) : Respond(t, top, turn[t].context)
  /\ UNCHANGED <<row, near, uses, edits>>

--------------------------------------------------------------------------------
(* bump_salience, after the answer, in a session of its own *)

\* The answer used some of the results and of the context; bump_salience selects them.
BumpReads(t) ==
  /\ turn[t].step = "answer"
  /\ \E used \in SUBSET (turn[t].results \cup turn[t].context) :
       LET known == used \cap Stored
       IN  turn' = [turn EXCEPT ![t] = IF known = {} THEN NoTurn
                                       ELSE [NoTurn EXCEPT !.step = "bump", !.read = [f \in known |-> [salience |-> row[f].salience,
                                                                                count |-> row[f].count]]]]
  /\ UNCHANGED <<row, near, uses, edits>>

NextSalience(salience) == IF salience < MaxSalience THEN salience + 1 ELSE MaxSalience

\* Mutant of Counted: the count read before, plus one.
CountedFrom(t, f) == turn[t].read[f].count + 1

\* recall_count + 1 is computed by the database, the new salience from what was read.
Counted(t, f) == row[f].count + 1

\* The rows that are left are updated, in one transaction.
BumpCommits(t) ==
  LET left == DOMAIN turn[t].read \cap Stored
  IN  /\ turn[t].step = "bump"
      /\ Cardinality(left) + SumFunction(uses) <= MaxUses
      /\ row' = [f \in Stored |-> IF f \in left
                   THEN [row[f] EXCEPT !.salience = NextSalience(turn[t].read[f].salience),
                                       !.count = Counted(t, f), !.idle = FALSE]
                   ELSE row[f]]
      /\ uses' = [f \in Facts |-> IF f \in left THEN uses[f] + 1 ELSE uses[f]]
      /\ turn' = [turn EXCEPT ![t] = NoTurn]
      /\ UNCHANGED <<near, edits>>

\* It fails, or is the victim of a deadlock of two bumps: logged, and nothing is changed.
BumpFails(t) ==
  /\ turn[t].step = "bump"
  /\ turn' = [turn EXCEPT ![t] = NoTurn]
  /\ UNCHANGED <<row, near, uses, edits>>

--------------------------------------------------------------------------------
(* Everything else that touches the rows *)

\* decay_stale_salience: one statement.
Decay ==
  LET stale(f) == ~row[f].pinned /\ row[f].idle /\ row[f].salience > Floor
  IN  /\ \E f \in Stored : stale(f)
      /\ row' = [f \in Stored |-> IF stale(f) THEN [row[f] EXCEPT !.salience = @ - 1] ELSE row[f]]
      /\ UNCHANGED <<near, turn, uses, edits>>

\* STALE_AFTER_DAYS pass without a use; no turn takes that long.
WeeksPass ==
  /\ \A t \in Turns : turn[t].step = "idle"
  /\ row' = [f \in Stored |-> [row[f] EXCEPT !.idle = TRUE]]
  /\ UNCHANGED <<near, turn, uses, edits>>

\* PATCH: an absolute salience, or the pin.
UpdateMemory(f) ==
  /\ f \in Stored /\ edits < MaxEdits
  /\ \/ \E s \in {0, MaxSalience} : row' = [row EXCEPT ![f].salience = s]
     \/ row' = [row EXCEPT ![f].pinned = ~@]
  /\ edits' = edits + 1
  /\ UNCHANGED <<near, turn, uses>>

\* Dropping the vector is a best effort.
DeleteMemory(f) ==
  /\ f \in Stored
  /\ row' = [g \in Stored \ {f} |-> row[g]]
  /\ near' \in {near, near \ {f}}
  /\ UNCHANGED <<turn, uses, edits>>

--------------------------------------------------------------------------------
RecallInit ==
  /\ row = [f \in Facts |-> [salience |-> Usual, pinned |-> FALSE, count |-> 0, idle |-> FALSE]]
  /\ near = Facts
  /\ turn = [t \in Turns |-> NoTurn]
  /\ uses = [f \in Facts |-> 0] /\ edits = 0

RecallNext ==
  \/ \E t \in Turns :
       \/ RecallBegins(t) \/ SearchMemories(t) \/ HydrateAndRank(t)
       \/ BumpReads(t) \/ BumpCommits(t) \/ BumpFails(t)
  \/ \E f \in Facts : UpdateMemory(f) \/ DeleteMemory(f)
  \/ WeeksPass \/ Decay

RecallSpec == RecallInit /\ [][RecallNext]_recallVars

--------------------------------------------------------------------------------
(* Properties *)

\* A memory deleted before a recall begins is not in it, although its vector may still be
\* found (MemoryRetriever.recall).
DeletedIsNotRecalled ==
  \A t \in Turns : turn[t].step = "answer" => (turn[t].results \cup turn[t].context) \cap turn[t].gone = {}

\* Each use that was rewarded is counted once, although bumps of the same memory overlap,
\* the memory is edited meanwhile and decays (bump_salience).
EveryUseCounted == \A f \in Stored : row[f].count = uses[f]
================================================================================
