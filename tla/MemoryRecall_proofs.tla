-------------------------- MODULE MemoryRecall_proofs --------------------------
(***************************************************************************)
(* What was deleted is not recalled, and every rewarded use is counted once. *)
(* Both rest on memories never coming back: what was gone when a recall      *)
(* began stays gone, and a turn only ever names rows that were there since.  *)
(***************************************************************************)
EXTENDS MemoryRecall, TLAPS

\* Rows are only ever taken away.
RecallTypes ==
  /\ Stored \subseteq Facts
  /\ \A f \in Stored : DOMAIN row[f] = {"salience", "pinned", "count", "idle"}
  /\ uses \in [Facts -> Nat]
  /\ DOMAIN turn = Turns
  /\ \A t \in Turns : DOMAIN turn[t] = DOMAIN NoTurn

\* What was gone when a turn began is gone, and is in none of its results.
GoneStaysGone ==
  \A t \in Turns :
    /\ turn[t].gone \cap Stored = {}
    /\ turn[t].gone \cap turn[t].context = {}
    /\ turn[t].gone \cap turn[t].results = {}

RecallInv == RecallTypes /\ GoneStaysGone /\ EveryUseCounted

\* The rows of a step are rows of before.
RowsShrink == DOMAIN row' \subseteq DOMAIN row

LEMMA RowsStep == [RecallNext]_recallVars => RowsShrink
<1> SUFFICES ASSUME [RecallNext]_recallVars PROVE RowsShrink
  OBVIOUS
<1>1. ASSUME UNCHANGED row PROVE RowsShrink
  BY <1>1 DEF RowsShrink
<1>2. ASSUME NEW t \in Turns, RecallBegins(t) \/ SearchMemories(t) \/ HydrateAndRank(t) \/ BumpReads(t)
                                \/ BumpFails(t)
      PROVE  RowsShrink
  BY <1>1, <1>2 DEF RecallBegins, SearchMemories, HydrateAndRank, BumpReads, BumpFails
<1>3. ASSUME NEW t \in Turns, BumpCommits(t) PROVE RowsShrink
  BY <1>3 DEF BumpCommits, RowsShrink, Stored
<1>4. ASSUME NEW f \in Facts, UpdateMemory(f) PROVE RowsShrink
  BY <1>4 DEF UpdateMemory, RowsShrink
<1>5. ASSUME NEW f \in Facts, DeleteMemory(f) PROVE RowsShrink
  BY <1>5 DEF DeleteMemory, RowsShrink, Stored
<1>6. CASE WeeksPass
  BY <1>6 DEF WeeksPass, RowsShrink, Stored
<1>7. CASE Decay
  BY <1>7 DEF Decay, RowsShrink, Stored
<1>8. CASE UNCHANGED recallVars
  BY <1>1, <1>8 DEF recallVars
<1> QED
  BY <1>2, <1>3, <1>4, <1>5, <1>6, <1>7, <1>8 DEF RecallNext

\* What a step leaves of a turn: the set of what was gone, and what it names.
LEMMA NoTurnFields ==
  /\ DOMAIN NoTurn = {"step", "gone", "broken", "loaded", "context", "candidates", "results", "read"}
  /\ NoTurn.gone = {} /\ NoTurn.context = {} /\ NoTurn.results = {} /\ NoTurn.step = "idle"
BY DEF NoTurn

LEMMA SearchKeeps ==
  ASSUME RecallTypes, NEW t \in Turns, turn' = [turn EXCEPT ![t].step = "hydrate", ![t].candidates = near]
  PROVE  /\ DOMAIN turn' = Turns /\ \A u \in Turns : DOMAIN turn'[u] = DOMAIN NoTurn
         /\ \A u \in Turns : /\ turn'[u].gone = turn[u].gone
                             /\ turn'[u].context = turn[u].context
                             /\ turn'[u].results = turn[u].results
BY NoTurnFields DEF RecallTypes

LEMMA RespondKeeps ==
  ASSUME RecallTypes, NEW t \in Turns, NEW results, NEW context, Respond(t, results, context)
  PROVE  /\ DOMAIN turn' = Turns /\ \A u \in Turns : DOMAIN turn'[u] = DOMAIN NoTurn
         /\ \A u \in Turns \ {t} : turn'[u] = turn[u]
         /\ turn'[t].gone = turn[t].gone /\ turn'[t].context = context /\ turn'[t].results = results
<1> DEFINE x == [NoTurn EXCEPT !.step = "answer", !.gone = turn[t].gone, !.results = results, !.context = context]
<1>1. DOMAIN x = DOMAIN NoTurn /\ x.gone = turn[t].gone /\ x.context = context /\ x.results = results
  BY NoTurnFields DEF NoTurn
<1>2. turn' = [turn EXCEPT ![t] = x]
  BY DEF Respond
<1> HIDE DEF x
<1> QED
  BY <1>1, <1>2 DEF RecallTypes

\* One turn moves on to x.
LEMMA OneTurn ==
  ASSUME RecallInv, RowsShrink, NEW t \in Turns, NEW x, turn' = [turn EXCEPT ![t] = x],
         DOMAIN x = DOMAIN NoTurn, x.gone \cap Stored = {},
         x.gone \cap x.context = {}, x.gone \cap x.results = {}
  PROVE  DOMAIN turn' = Turns /\ (\A u \in Turns : DOMAIN turn'[u] = DOMAIN NoTurn) /\ GoneStaysGone'
<1>1. \A u \in Turns : turn'[u] = IF u = t THEN x ELSE turn[u]
  BY DEF RecallInv, RecallTypes
<1>2. Stored' \subseteq Stored
  BY DEF RowsShrink, Stored
<1> QED
  BY <1>1, <1>2 DEF RecallInv, RecallTypes, GoneStaysGone

LEMMA ContextIsStored == PersonalContext \subseteq Stored
BY DEF PersonalContext, Newest

\* The turns, whatever happens.
LEMMA TurnsStep ==
  ASSUME RecallInv, [RecallNext]_recallVars
  PROVE  DOMAIN turn' = Turns /\ (\A u \in Turns : DOMAIN turn'[u] = DOMAIN NoTurn) /\ GoneStaysGone'
<1> DEFINE Goal == DOMAIN turn' = Turns /\ (\A u \in Turns : DOMAIN turn'[u] = DOMAIN NoTurn) /\ GoneStaysGone'
<1>s. RowsShrink
  BY RowsStep
<1>r. Stored' \subseteq Stored
  BY <1>s DEF RowsShrink, Stored
<1>u. ASSUME UNCHANGED turn PROVE Goal
  BY <1>u, <1>r DEF RecallInv, RecallTypes, GoneStaysGone
<1>1. ASSUME NEW t \in Turns, RecallBegins(t) PROVE Goal
  <2> DEFINE new == [NoTurn EXCEPT !.step = "search", !.gone = Facts \ Stored]
             full == [new EXCEPT !.context = PersonalContext,
                                 !.loaded = [f \in PersonalContext |-> Scored(row[f])]]
             broken == [new EXCEPT !.broken = TRUE]
  <2>1. turn' = [turn EXCEPT ![t] = full] \/ turn' = [turn EXCEPT ![t] = broken]
    BY <1>1 DEF RecallBegins
  <2>2. /\ DOMAIN full = DOMAIN NoTurn /\ full.gone = Facts \ Stored
        /\ full.context = PersonalContext /\ full.results = {}
    BY NoTurnFields
  <2>3. /\ DOMAIN broken = DOMAIN NoTurn /\ broken.gone = Facts \ Stored
        /\ broken.context = {} /\ broken.results = {}
    BY NoTurnFields
  <2> HIDE DEF full, broken
  <2>4. CASE turn' = [turn EXCEPT ![t] = full]
    BY <2>2, <2>4, <1>s, ContextIsStored, OneTurn
  <2>5. CASE turn' = [turn EXCEPT ![t] = broken]
    BY <2>3, <2>5, <1>s, OneTurn
  <2> QED
    BY <2>1, <2>4, <2>5
<1>2. ASSUME NEW t \in Turns, NEW results, NEW context, Respond(t, results, context),
             results \subseteq Stored, context \subseteq turn[t].context
      PROVE  Goal
  BY <1>2, <1>r, RespondKeeps DEF RecallInv, RecallTypes, GoneStaysGone
<1>3. ASSUME NEW t \in Turns, SearchMemories(t) PROVE Goal
  <2>1. CASE Respond(t, {}, turn[t].context)
    BY <1>2, <2>1
  <2>2. CASE turn' = [turn EXCEPT ![t].step = "hydrate", ![t].candidates = near]
    BY <2>2, <1>r, SearchKeeps DEF RecallInv, GoneStaysGone
  <2> QED
    BY <1>3, <2>1, <2>2 DEF SearchMemories
<1>4. ASSUME NEW t \in Turns, HydrateAndRank(t) PROVE Goal
  <2>1. CASE Respond(t, {}, {})
    BY <1>2, <2>1
  <2>2. ASSUME NEW similar \in [Hydrated(t) -> 1..2], NEW matches \in [Hydrated(t) -> 0..1],
               NEW top \in Best(t, Hydrated(t), similar, matches), Respond(t, top, turn[t].context)
        PROVE  Goal
    <3>1. top \subseteq Stored
      BY DEF Best, Hydrated
    <3> QED
      BY <1>2, <2>2, <3>1
  <2> QED
    BY <1>4, <2>1, <2>2 DEF HydrateAndRank
<1>5. ASSUME NEW t \in Turns, NEW x, turn' = [turn EXCEPT ![t] = x], DOMAIN x = DOMAIN NoTurn,
             x.gone = {}
      PROVE  Goal
  BY <1>5, <1>s, OneTurn
<1>6. ASSUME NEW t \in Turns, turn' = [turn EXCEPT ![t] = NoTurn] PROVE Goal
  BY <1>5, <1>6, NoTurnFields
<1>7. ASSUME NEW t \in Turns, BumpReads(t) PROVE Goal
  <2>1. PICK used \in SUBSET (turn[t].results \cup turn[t].context) :
          LET known == used \cap Stored
          IN  turn' = [turn EXCEPT ![t] = IF known = {} THEN NoTurn
                ELSE [NoTurn EXCEPT !.step = "bump", !.read = [f \in known |-> [salience |-> row[f].salience,
                                                                                count |-> row[f].count]]]]
    BY <1>7 DEF BumpReads
  <2> DEFINE known == used \cap Stored
             x == [NoTurn EXCEPT !.step = "bump", !.read = [f \in known |-> [salience |-> row[f].salience,
                                                                             count |-> row[f].count]]]
  <2>2. DOMAIN x = DOMAIN NoTurn /\ x.gone = {}
    BY NoTurnFields
  <2>3. turn' = [turn EXCEPT ![t] = NoTurn] \/ turn' = [turn EXCEPT ![t] = x]
    BY <2>1
  <2> HIDE DEF x
  <2> QED
    BY <1>5, <1>6, <2>2, <2>3
<1>8. ASSUME NEW t \in Turns, BumpCommits(t) \/ BumpFails(t) PROVE Goal
  BY <1>6, <1>8 DEF BumpCommits, BumpFails
<1>9. ASSUME NEW f \in Facts, UpdateMemory(f) \/ DeleteMemory(f) PROVE Goal
  BY <1>u, <1>9 DEF UpdateMemory, DeleteMemory
<1>10. ASSUME WeeksPass \/ Decay \/ UNCHANGED recallVars PROVE Goal
  BY <1>u, <1>10 DEF WeeksPass, Decay, recallVars
<1> HIDE DEF Goal
<1>11. Goal
  BY <1>1, <1>3, <1>4, <1>7, <1>8, <1>9, <1>10 DEF RecallNext
<1> QED
  BY <1>11 DEF Goal

Columns == {"salience", "pinned", "count", "idle"}

\* The rows and the counted uses, whatever happens.
LEMMA CountStep ==
  ASSUME RecallInv, [RecallNext]_recallVars
  PROVE  /\ \A f \in Stored' : DOMAIN row'[f] = Columns
         /\ uses' \in [Facts -> Nat]
         /\ EveryUseCounted'
<1> DEFINE Goal == /\ \A f \in Stored' : DOMAIN row'[f] = Columns
                   /\ uses' \in [Facts -> Nat]
                   /\ EveryUseCounted'
<1>t. /\ Stored \subseteq Facts /\ uses \in [Facts -> Nat]
      /\ \A f \in Stored : DOMAIN row[f] = Columns /\ row[f].count = uses[f]
  BY DEF RecallInv, RecallTypes, Columns, EveryUseCounted
<1>u. ASSUME UNCHANGED <<row, uses>> PROVE Goal
  BY <1>u, <1>t DEF Stored, EveryUseCounted
\* Rows whose count stays, and uses that stay.
<1>k. ASSUME UNCHANGED uses, DOMAIN row' \subseteq DOMAIN row,
             \A f \in DOMAIN row' : DOMAIN row'[f] = DOMAIN row[f] /\ row'[f].count = row[f].count
      PROVE  Goal
  BY <1>k, <1>t DEF Stored, EveryUseCounted
<1>1. ASSUME NEW t \in Turns, RecallBegins(t) \/ SearchMemories(t) \/ HydrateAndRank(t) \/ BumpReads(t)
                                \/ BumpFails(t)
      PROVE  Goal
  BY <1>u, <1>1 DEF RecallBegins, SearchMemories, HydrateAndRank, BumpReads, BumpFails
<1>2. ASSUME NEW t \in Turns, BumpCommits(t) PROVE Goal
  <2> DEFINE left == DOMAIN turn[t].read \cap Stored
             bumped(f) == [row[f] EXCEPT !.salience = NextSalience(turn[t].read[f].salience),
                                         !.count = Counted(t, f), !.idle = FALSE]
  <2>1. /\ row' = [f \in Stored |-> IF f \in left THEN bumped(f) ELSE row[f]]
        /\ uses' = [f \in Facts |-> IF f \in left THEN uses[f] + 1 ELSE uses[f]]
    BY <1>2 DEF BumpCommits
  <2>2. \A f \in Stored : DOMAIN bumped(f) = Columns /\ bumped(f).count = uses[f] + 1
    BY <1>t DEF Columns, Counted
  <2> HIDE DEF left, bumped
  <2>3. Stored' = Stored
    BY <2>1 DEF Stored
  <2>4. uses' \in [Facts -> Nat]
    BY <2>1, <1>t
  <2>5. \A f \in Stored : DOMAIN row'[f] = Columns /\ row'[f].count = uses'[f]
    BY <2>1, <2>2, <1>t
  <2> QED
    BY <2>3, <2>4, <2>5 DEF EveryUseCounted
<1>3. ASSUME NEW f \in Facts, UpdateMemory(f) PROVE Goal
  <2>1. f \in Stored /\ UNCHANGED uses
    BY <1>3 DEF UpdateMemory
  <2>2. CASE \E s \in {0, MaxSalience} : row' = [row EXCEPT ![f].salience = s]
    <3>1. PICK s \in {0, MaxSalience} : row' = [row EXCEPT ![f].salience = s]
      BY <2>2
    <3> QED
      BY <3>1, <2>1, <1>k, <1>t DEF Stored, Columns
  <2>3. CASE row' = [row EXCEPT ![f].pinned = ~@]
    BY <2>3, <2>1, <1>k, <1>t DEF Stored, Columns
  <2> QED
    BY <1>3, <2>2, <2>3 DEF UpdateMemory
<1>4. ASSUME NEW f \in Facts, DeleteMemory(f) PROVE Goal
  BY <1>4, <1>k, <1>t DEF DeleteMemory, Stored
<1>5. ASSUME WeeksPass PROVE Goal
  BY <1>5, <1>k, <1>t DEF WeeksPass, Stored, Columns
<1>6. ASSUME Decay PROVE Goal
  BY <1>6, <1>k, <1>t DEF Decay, Stored, Columns
<1>7. ASSUME UNCHANGED recallVars PROVE Goal
  BY <1>7, <1>u DEF recallVars
<1> HIDE DEF Goal
<1>8. Goal
  BY <1>1, <1>2, <1>3, <1>4, <1>5, <1>6, <1>7 DEF RecallNext
<1> QED
  BY <1>8 DEF Goal

LEMMA RecallInitially == RecallInit => RecallInv
<1> SUFFICES ASSUME RecallInit PROVE RecallInv
  OBVIOUS
<1>1. RecallTypes
  BY NoTurnFields DEF RecallInit, RecallTypes, Stored
<1>2. GoneStaysGone
  BY NoTurnFields DEF RecallInit, GoneStaysGone
<1>3. EveryUseCounted
  BY DEF RecallInit, EveryUseCounted, Stored
<1> QED
  BY <1>1, <1>2, <1>3 DEF RecallInv

LEMMA RecallStep == RecallInv /\ [RecallNext]_recallVars => RecallInv'
<1> SUFFICES ASSUME RecallInv, [RecallNext]_recallVars PROVE RecallInv'
  OBVIOUS
<1>1. Stored' \subseteq Facts
  BY RowsStep DEF RowsShrink, Stored, RecallInv, RecallTypes
<1> QED
  BY <1>1, TurnsStep, CountStep DEF RecallInv, RecallTypes, Columns

(* A memory deleted before a recall begins is in neither its results nor its context,
   although its vector may still be found (the rows are selected again by _hydrate), for
   any number of memories and turns. *)
THEOREM DeletedNotRecalled == RecallSpec => []DeletedIsNotRecalled
<1>1. RecallInv => DeletedIsNotRecalled
  BY DEF RecallInv, GoneStaysGone, DeletedIsNotRecalled
<1> QED
  BY <1>1, RecallInitially, RecallStep, PTL DEF RecallSpec

(* Bumps that overlap lose no count, because the database computes recall_count + 1
   (bump_salience). *)
THEOREM UsesAreCounted == RecallSpec => []EveryUseCounted
<1>1. RecallInv => EveryUseCounted
  BY DEF RecallInv
<1> QED
  BY <1>1, RecallInitially, RecallStep, PTL DEF RecallSpec
================================================================================
