---------------------------- MODULE KnowledgeGraph ----------------------------
(***************************************************************************)
(* The knowledge graph of one user: builds take memories from a queue that   *)
(* delivers at least once, and write entities, links and relations in one     *)
(* transaction, beside entities and relations created by hand.                *)
(***************************************************************************)
EXTENDS Naturals, FiniteSets, FiniteSetsExt

CONSTANTS Notes,     \* memories
          NoNote,    \* what a request by hand is about
          Spellings, \* names of entities: 2k - 1 and 2k differ only in their case
          Builders,  \* concurrent tasks and requests
          MaxSent,   \* bound on the messages sent
          MaxBuildRetries, \* max_retries of the task
          MaxPatches \* bound on the replacements of metadata

ASSUME KnowledgeAssumption ==
  /\ NoNote \notin Notes /\ Spellings \subseteq Nat \ {0}
  /\ {MaxSent, MaxBuildRetries, MaxPatches} \subseteq Nat

VARIABLES
  note,     \* rows of memories: exists, graph_extracted_at is set
  mentions, \* rows of entities by spelling: mention_count
  links,    \* rows of memory_entities
  evidence, \* rows of relations by their two entities: evidence_count
  waiting,  \* messages in the queue, per memory and attempt
  sent,     \* messages sent so far
  builder,  \* per task or request: operation, step and locals
  mixed,    \* history: two of them were under way at once
  doubled,  \* history: two builds of one memory were under way at once
  linked,   \* history: every link ever made
  given     \* history, per relation: what gave it (a memory before its n-th patch, a user)

graphVars == <<note, mentions, links, evidence, waiting, sent, builder, mixed, doubled, linked, given>>

Named == DOMAIN mentions

NoBuild == [op |-> "idle", note |-> NoNote, tries |-> 0, names |-> {}, fresh |-> {},
            mentions |-> <<>>, evidence |-> <<>>]

Fold(x) == (x + 1) \div 2

\* select ... lower(name): none, one, or too many rows.
Find(x) == {y \in Named : Fold(y) = Fold(x)}

\* The relations of what is mentioned together, abstracted to one for two entities.
Pairs(names) == {p \in SUBSET names : Cardinality(p) = 2}

Engage(b, start) ==
  /\ builder[b].op = "idle"
  /\ builder' = [builder EXCEPT ![b] = start]
  /\ mixed' = (mixed \/ \E c \in Builders : builder[c].op # "idle")
  /\ doubled' = (doubled \/ \E c \in Builders : start.note # NoNote /\ builder[c].note = start.note)

Exit(b) == builder' = [builder EXCEPT ![b] = NoBuild]

tables == <<note, mentions, links, evidence, linked, given>>

--------------------------------------------------------------------------------
(* Memories *)

\* A memory was created, or a sync changed it.
EnqueueBuild(n) ==
  /\ sent < MaxSent
  /\ sent' = sent + 1
  /\ waiting' = [waiting EXCEPT ![<<n, 0>>] = @ + 1]
  /\ UNCHANGED <<tables, builder, mixed, doubled>>

\* Links follow by cascade, counters do not.
DeleteNote(n) ==
  /\ note[n].exists
  /\ note' = [note EXCEPT ![n].exists = FALSE]
  /\ links' = {l \in links : l[1] # n}
  /\ UNCHANGED <<mentions, evidence, waiting, sent, builder, mixed, doubled, linked, given>>

\* The user's metadata replaces the mark of the build.
PatchMetadata(n) ==
  /\ note[n].exists /\ MapThenSumSet(LAMBDA m : note[m].patches, Notes) < MaxPatches
  /\ note' = [note EXCEPT ![n].done = FALSE, ![n].patches = @ + 1]
  /\ UNCHANGED <<mentions, links, evidence, waiting, sent, builder, mixed, doubled, linked, given>>

--------------------------------------------------------------------------------
(* One build *)

\* Mutant of AlreadyProcessed: every message is built.
NeverProcessed(n) == FALSE

AlreadyProcessed(n) == note[n].done

\* The message is acknowledged when the task ends.  Nothing to do for a memory that is
\* gone or was processed.
TakeBuild(b, n, k) ==
  /\ waiting[n, k] > 0
  /\ waiting' = [waiting EXCEPT ![<<n, k>>] = @ - 1]
  /\ IF note[n].exists /\ ~AlreadyProcessed(n)
     THEN Engage(b, [NoBuild EXCEPT !.op = "extract", !.note = n, !.tries = k])
     ELSE builder[b].op = "idle" /\ UNCHANGED <<builder, mixed, doubled>>
  /\ UNCHANGED <<tables, sent>>

\* At most one spelling of an entity, whether the model answers or the fallback does.
Extractions ==
  {names \in SUBSET Spellings : IsFiniteSet(names) /\ \A x, y \in names : x # y => Fold(x) # Fold(y)}

\* The rows the names are found in, or the name of a row to insert.
RowsOf(names) == {IF Find(x) = {} THEN x ELSE CHOOSE y \in Find(x) : TRUE : x \in names}

\* The rows this memory has no link to.
NewLinks(n, rows) == {x \in rows : <<n, x>> \notin links}

\* Each name is looked up, which raises when two rows match; counters and links are loaded.
GetOrCreateEntities(b) ==
  /\ builder[b].op = "extract"
  /\ \E names \in Extractions :
       /\ \A x \in names : Cardinality(Find(x)) <= 1
       /\ builder' = [builder EXCEPT ![b].op = "relate", ![b].names = RowsOf(names),
                        ![b].fresh = NewLinks(builder[b].note, RowsOf(names)),
                        ![b].mentions = [x \in RowsOf(names) \cap Named |-> mentions[x]]]
  /\ UNCHANGED <<tables, waiting, sent, mixed, doubled>>

\* Asked again for the relations; what is mentioned together is related in any case.
GetRelations(b) ==
  /\ builder[b].op = "relate"
  /\ builder' = [builder EXCEPT ![b].op = "commit",
       ![b].evidence = [p \in Pairs(builder[b].names) \cap DOMAIN evidence |-> evidence[p]]]
  /\ UNCHANGED <<tables, waiting, sent, mixed, doubled>>

\* What another transaction committed meanwhile that a unique index or a foreign key refuses.
Refused(b) ==
  LET t == builder[b]
  IN  \/ ~note[t.note].exists
      \/ (t.names \ DOMAIN t.mentions) \cap Named # {}
      \/ \E x \in t.fresh : <<t.note, x>> \in links
      \/ (Pairs(t.names) \ DOMAIN t.evidence) \cap DOMAIN evidence # {}

\* Counters are written from what was loaded.
CommitBuild(b) ==
  LET t == builder[b]
      pairs == Pairs(t.names)
      made == {t.note} \X t.fresh
  IN  /\ t.op = "commit" /\ ~Refused(b)
      /\ mentions' = [x \in Named \cup t.names |->
                        IF x \notin t.fresh THEN mentions[x]
                        ELSE IF x \in DOMAIN t.mentions THEN t.mentions[x] + 1 ELSE 1]
      /\ links' = links \cup made /\ linked' = linked \cup made
      /\ evidence' = [p \in DOMAIN evidence \cup pairs |->
                        IF p \notin pairs THEN evidence[p]
                        ELSE IF p \in DOMAIN t.evidence THEN t.evidence[p] + 1 ELSE 1]
      /\ given' = [p \in DOMAIN given \cup pairs |->
                     (IF p \in DOMAIN given THEN given[p] ELSE {})
                       \cup (IF p \in pairs THEN {<<t.note, note[t.note].patches>>} ELSE {})]
      /\ note' = [note EXCEPT ![t.note].done = TRUE]
      /\ Exit(b)
      /\ UNCHANGED <<waiting, sent, mixed, doubled>>

\* Any exception rolls the transaction back: sent again, or given up for good.
BuildFails(b) ==
  LET t == builder[b]
  IN  /\ t.op \in {"extract", "relate", "commit"}
      /\ waiting' = IF t.tries < MaxBuildRetries THEN [waiting EXCEPT ![<<t.note, t.tries + 1>>] = @ + 1]
                    ELSE waiting
      /\ Exit(b)
      /\ UNCHANGED <<tables, sent, mixed, doubled>>

\* The worker is lost before its commit: the message is delivered again.  After it, the
\* message delivered again is as one sent again.
WorkerDies(b) ==
  LET t == builder[b]
  IN  /\ t.op \in {"extract", "relate", "commit"}
      /\ waiting' = [waiting EXCEPT ![<<t.note, t.tries>>] = @ + 1]
      /\ Exit(b)
      /\ UNCHANGED <<tables, sent, mixed, doubled>>

--------------------------------------------------------------------------------
(* By hand *)

\* An entity found keeps its counter; otherwise it is inserted by the commit.
NameBegins(b, x) ==
  /\ Find(x) = {}
  /\ Engage(b, [NoBuild EXCEPT !.op = "name", !.names = {x}])
  /\ UNCHANGED <<tables, waiting, sent>>

CreateEntity(b) ==
  /\ builder[b].op = "name"
  /\ mentions' = [x \in Named \cup builder[b].names |-> IF x \in Named THEN mentions[x] ELSE 0]
  /\ Exit(b)
  /\ UNCHANGED <<note, links, evidence, waiting, sent, mixed, doubled, linked, given>>

\* A relation found keeps its evidence; otherwise it is inserted with one.
CreateRelation(p) ==
  /\ p \notin DOMAIN evidence
  /\ evidence' = [q \in DOMAIN evidence \cup {p} |-> IF q = p THEN 1 ELSE evidence[q]]
  /\ given' = [q \in DOMAIN given \cup {p} |-> IF q = p THEN {<<"user">>} ELSE given[q]]
  /\ UNCHANGED <<note, mentions, links, waiting, sent, builder, mixed, doubled, linked>>

--------------------------------------------------------------------------------
GraphInit ==
  /\ note = [n \in Notes |-> [exists |-> TRUE, done |-> FALSE, patches |-> 0]]
  /\ mentions = [x \in {} |-> 0] /\ links = {} /\ evidence = [p \in {} |-> 0]
  /\ waiting = [m \in Notes \X (0 .. MaxBuildRetries) |-> 0] /\ sent = 0
  /\ builder = [b \in Builders |-> NoBuild]
  /\ mixed = FALSE /\ doubled = FALSE /\ linked = {} /\ given = [p \in {} |-> {}]

GraphNext ==
  \/ \E n \in Notes : EnqueueBuild(n) \/ DeleteNote(n) \/ PatchMetadata(n)
  \/ \E b \in Builders :
       \/ \E n \in Notes, k \in 0 .. MaxBuildRetries : TakeBuild(b, n, k)
       \/ GetOrCreateEntities(b) \/ GetRelations(b) \/ CommitBuild(b)
       \/ BuildFails(b) \/ WorkerDies(b)
       \/ \E x \in Spellings : NameBegins(b, x)
       \/ CreateEntity(b)
  \/ \E p \in Pairs(Named) : CreateRelation(p)

GraphSpec == GraphInit /\ [][GraphNext]_graphVars

--------------------------------------------------------------------------------
(* Properties *)

\* Whatever is delivered twice, retried or interrupted and whichever builds overlap, no
\* memory is counted twice as a mention of an entity; nor as evidence of a relation, unless
\* two builds of it overlapped or a user erased the mark of the first.  As long as nothing
\* overlaps every one is counted, and no entity has two spellings (build_memory_graph_sync).
NothingCountedTwice ==
  LET made(x) == Cardinality({l \in linked : l[2] = x})
  IN  /\ \A x \in Named : mentions[x] <= made(x)
      /\ ~doubled => \A p \in DOMAIN evidence : evidence[p] <= Cardinality(given[p])
      /\ ~mixed => /\ \A x \in Named : mentions[x] = made(x)
                   /\ \A p \in DOMAIN evidence : evidence[p] = Cardinality(given[p])
                   /\ \A x, y \in Named : Fold(x) = Fold(y) => x = y
================================================================================
