-------------------------------- MODULE Imports --------------------------------
(***************************************************************************)
(* Imports of export files of other assistants: detection of the format,     *)
(* parsing, deduplication by reference, one commit, indexing of each memory, *)
(* and the ledger row of an agent's import.                                  *)
(***************************************************************************)
EXTENDS Naturals, Sequences, FiniteSets, Functions

CONSTANTS Refs,        \* references inside the files
          NoRef,       \* an entry without one
          Importers,   \* concurrent requests
          Payloads,    \* the shapes of the files uploaded
          MaxEntries,  \* bound on the entries of a file
          MaxImported  \* bound on the rows

ASSUME ImportsAssumption ==
  /\ NoRef \notin Refs /\ {MaxEntries, MaxImported} \subseteq Nat
  /\ Payloads \subseteq {"mapping list", "chat list", "session list", "content list", "other list",
                         "pam", "session", "export", "entries", "copilot", "conversations"}

VARIABLES
  imported, \* how many rows of memories the imports created, by type and reference
  uniqueRef, \* the partial unique index on (user, type, reference) exists
  importer, \* per request: step and locals
  answered, \* history: (type, reference) pairs a success answer covered
  mingled   \* history: two imports were under way at once

importVars == <<imported, uniqueRef, importer, answered, mingled>>

NoImport == [at |-> "idle", format |-> "auto", items |-> <<>>, known |-> {}]

--------------------------------------------------------------------------------
(* Formats *)

SourceFormats == {"auto", "chatgpt", "claude", "gemini", "copilot", "openclaw", "generic"}

Lists == {"mapping list", "chat list", "session list", "content list", "other list"}

Objects == {"pam", "session", "export", "entries", "copilot", "conversations"}

\* The payloads that are, or hold, a list of conversations.
Conversational == Lists \cup {"copilot", "conversations"}

\* The key that gives a payload away, in the order in which they are looked for.
Detect(payload) ==
  CASE payload = "mapping list" -> "chatgpt"
    [] payload = "chat list" -> "claude"
    [] payload \in {"session list", "session", "entries"} -> "openclaw"
    [] payload \in {"content list", "pam"} -> "generic"
    [] payload = "export" -> "gemini"
    [] payload = "copilot" -> "copilot"
    [] OTHER -> "unknown"

\* The payloads a parser takes.
Parsers == [
  chatgpt  |-> Lists,
  claude   |-> Lists,
  gemini   |-> Lists \cup Objects,
  copilot  |-> Conversational,
  openclaw |-> Lists \cup {"entries", "session"},
  generic  |-> Lists \cup {"pam"}]

Resolved(payload, format) == IF format = "auto" THEN Detect(payload) ELSE format

Parses(payload, format) ==
  LET f == Resolved(payload, format) IN f \in DOMAIN Parsers /\ payload \in Parsers[f]

\* An entry of a file: its identifier, its title, and whose turns have text; a "bare" turn is
\* a plain string, the "own" text is the entry's.  What is too long is cut.
Entry == [id : Refs \cup {NoRef}, title : Refs \cup {NoRef},
          turns : {{}, {"user"}, {"tool"}, {"bare"}, {"own"}}]

\* Entries without a usable turn are malformed, and skipped without being counted; an item
\* is known by the place of its entry.
ItemsOf(entries, roles) ==
  [i \in {j \in DOMAIN entries : entries[j].turns \cap roles # {}} |-> entries[i]]

ChatgptItems(entries) == ItemsOf(entries, {"user", "assistant"})

ClaudeItems(entries) == ItemsOf(entries, {"user", "assistant"})

\* An object without conversations has no items, and is not an error.
GeminiItems(payload, entries) ==
  ItemsOf(entries, IF payload \in Conversational THEN {"user", "assistant", "tool", "own"} ELSE {})

CopilotItems(entries) == ItemsOf(entries, {"user", "assistant", "tool"})

OpenclawItems(entries) == ItemsOf(entries, {"user", "assistant", "tool", "bare"})

\* The content of an item or of a portable memory is one text.
GenericItems(entries) == ItemsOf(entries, {"user"})

ParseImport(payload, format, entries) ==
  CASE format = "chatgpt" -> ChatgptItems(entries)
    [] format = "claude" -> ClaudeItems(entries)
    [] format = "gemini" -> GeminiItems(payload, entries)
    [] format = "copilot" -> CopilotItems(entries)
    [] format = "openclaw" -> OpenclawItems(entries)
    [] format = "generic" -> GenericItems(entries)

\* The reference of an item: a conversation of gemini without an identifier goes by its title.
RefOf(format, entry) ==
  IF format = "gemini" /\ entry.id = NoRef THEN entry.title ELSE entry.id

\* The type and the reference of a memory.
TypedRefs == (DOMAIN Parsers) \X (Refs \cup {NoRef})

--------------------------------------------------------------------------------
(* One import *)

Goto(c, at) == importer' = [importer EXCEPT ![c].at = at]

Leave(c) == importer' = [importer EXCEPT ![c] = NoImport]

\* A user, or an agent whose token may write.
CreateImport(c) ==
  /\ importer[c].at = "idle"
  /\ importer' = [importer EXCEPT ![c] = [NoImport EXCEPT !.at = "read"]]
  /\ mingled' = (mingled \/ \E d \in Importers : importer[d].at # "idle")
  /\ UNCHANGED <<imported, uniqueRef, answered>>

Readable == {p \in Payloads \X SourceFormats : Parses(p[1], p[2])}

\* Unreadable, of an unknown format, or not what the format says: refused.
Reject(c) ==
  /\ importer[c].at = "read"
  /\ Readable # Payloads \X SourceFormats
  /\ Leave(c)
  /\ UNCHANGED <<imported, uniqueRef, answered, mingled>>

\* What becomes of a file: its format, and the references of its items.
FileItems(p, entries) ==
  LET format == Resolved(p[1], p[2])
      items == ParseImport(p[1], format, entries)
  IN  [format |-> format, refs |-> [i \in DOMAIN items |-> RefOf(format, items[i])]]

ParsedFiles ==
  {FileItems(p, entries) : p \in Readable, entries \in UNION {[1..n -> Entry] : n \in 0..MaxEntries}}

Parse(c) ==
  /\ importer[c].at = "read"
  /\ \E file \in ParsedFiles :
       importer' = [importer EXCEPT ![c].at = "select", ![c].format = file.format, ![c].items = file.refs]
  /\ UNCHANGED <<imported, uniqueRef, answered, mingled>>

Given(items) == {items[i] : i \in DOMAIN items} \ {NoRef}

\* The references of the file that are stored already.
SelectExisting(c) ==
  /\ importer[c].at = "select"
  /\ importer' = [importer EXCEPT ![c].at = "commit",
       ![c].known = {r \in Given(importer[c].items) : imported[<<importer[c].format, r>>] > 0}]
  /\ UNCHANGED <<imported, uniqueRef, answered, mingled>>

\* Mutant of Fresh: references seen earlier in the same file are not remembered.
FreshInDatabase(c) ==
  {i \in DOMAIN importer[c].items : importer[c].items[i] \notin importer[c].known}

\* The items to create: no known reference, nor one seen earlier in the file.
Fresh(c) ==
  LET items == importer[c].items
  IN  {i \in DOMAIN items :
         items[i] # NoRef => /\ items[i] \notin importer[c].known
                            /\ \A j \in DOMAIN items : j < i => items[j] # items[i]}

Created(c) ==
  [p \in TypedRefs |-> IF p[1] # importer[c].format THEN 0
                   ELSE Cardinality({i \in Fresh(c) : importer[c].items[i] = p[2]})]

Collides(c) == uniqueRef /\ \E p \in TypedRefs : p[2] # NoRef /\ imported[p] + Created(c)[p] > 1

\* One commit for all; without anything to create, none.
CommitImport(c) ==
  /\ importer[c].at = "commit" /\ ~Collides(c)
  /\ imported' = [p \in TypedRefs |-> imported[p] + Created(c)[p]]
  /\ FoldFunction(+, 0, imported') <= MaxImported
  /\ Goto(c, IF Fresh(c) = {} THEN "ledger" ELSE "index")
  /\ UNCHANGED <<uniqueRef, answered, mingled>>

\* The index refuses one row: the whole import fails.
CommitFails(c) ==
  /\ importer[c].at = "commit" /\ Collides(c)
  /\ Leave(c)
  /\ UNCHANGED <<imported, uniqueRef, answered, mingled>>

\* Vector and graph message of each new memory; a failure is counted at most.
IndexImported(c) ==
  /\ importer[c].at = "index" /\ Goto(c, "ledger")
  /\ UNCHANGED <<imported, uniqueRef, answered, mingled>>

\* An agent's import is recorded in a transaction of its own.
AnswerImport(c) ==
  /\ importer[c].at = "ledger"
  /\ answered' = answered \cup {<<importer[c].format, r>> : r \in Given(importer[c].items)}
  /\ Leave(c)
  /\ UNCHANGED <<imported, uniqueRef, mingled>>

\* The ledger row cannot be written, or the process dies: no answer, the rows stay.
DieImporting(c) ==
  /\ importer[c].at # "idle"
  /\ Leave(c)
  /\ UNCHANGED <<imported, uniqueRef, answered, mingled>>

\* The migration keeps one row of each reference and creates the index.
AddUniqueIndex ==
  /\ ~uniqueRef /\ uniqueRef' = TRUE
  /\ imported' = [p \in TypedRefs |-> IF p[2] # NoRef /\ imported[p] > 1 THEN 1 ELSE imported[p]]
  /\ UNCHANGED <<importer, answered, mingled>>

--------------------------------------------------------------------------------
ImportsInit ==
  /\ imported = [p \in TypedRefs |-> 0] /\ uniqueRef = FALSE
  /\ importer = [c \in Importers |-> NoImport]
  /\ answered = {} /\ mingled = FALSE

ImportStep(c) ==
  Reject(c) \/ Parse(c) \/ SelectExisting(c) \/ CommitImport(c) \/ CommitFails(c)
    \/ IndexImported(c) \/ AnswerImport(c) \/ DieImporting(c)

ImportsNext ==
  \/ \E c \in Importers : ImportStep(c) \/ CreateImport(c)
  \/ AddUniqueIndex

ImportsSpec == ImportsInit /\ [][ImportsNext]_importVars

--------------------------------------------------------------------------------
(* Properties *)

\* Importing is idempotent per format and reference: however often a file is uploaded and
\* wherever an import dies, a reference has one row, and what was answered is stored
\* (create_import).  Without the index this holds for imports that do not overlap.
ImportedExactlyOnce ==
  /\ uniqueRef \/ ~mingled =>
       \A f \in DOMAIN Parsers, r \in Refs : imported[<<f, r>>] <= 1
  /\ \A p \in answered : imported[p] > 0
================================================================================
