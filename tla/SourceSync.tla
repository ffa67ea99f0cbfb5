------------------------------ MODULE SourceSync ------------------------------
(***************************************************************************)
(* Syncs of one source: a connector lists and fetches items, the dispatcher  *)
(* stores each as a memory with a link to the source and commits once.  An   *)
(* item is its reference, a date, and the version of its content.            *)
(***************************************************************************)
EXTENDS Integers, FiniteSets, FiniteSetsExt, Sequences

CONSTANTS Items,      \* references; the number is the date of publication
          Syncs,      \* concurrent sync requests
          MaxText,    \* bound on the versions of an item's content
          MaxSources, \* bound on how often the source is connected
          MaxTries,   \* max_retries of with_retry
          MaxFeedItems \* config["max_items"]

ASSUME SourceSyncAssumption ==
  /\ Items \subseteq Nat \ {0}
  /\ {MaxText, MaxSources, MaxTries, MaxFeedItems} \subseteq Nat

VARIABLES
  kind,      \* the family of the connector: "feed", "clip" or "pages"
  unique,    \* the unique index on (user, source_type, source_ref) exists
  upstream,  \* version of each item at its origin, 0 before it is published
  source,    \* the row of the source
  stored,    \* per item: its rows in memories, with the source each is linked to
  sync,      \* per request: step and locals
  overlapped \* history: two syncs were under way at once

syncVars == <<kind, unique, upstream, source, stored, sync, overlapped>>

\* The text of a fabricated item.
Junk == 0

NoSource == [exists |-> FALSE, id |-> 0, status |-> "connected", cursor |-> 0, synced |-> 0]

NoSync == [step |-> "idle", id |-> 0, cursor |-> 0, synced |-> 0, items |-> <<>>,
           errors |-> FALSE, newest |-> 0, tries |-> 0, writes |-> <<>>, added |-> 0]

NoItems == [i \in {} |-> Junk]

Without(f, x) == [y \in DOMAIN f \ {x} |-> f[y]]

With(f, x, v) == [y \in DOMAIN f \cup {x} |-> IF y = x THEN v ELSE f[y]]

Published == {i \in Items : upstream[i] > 0}

--------------------------------------------------------------------------------
(* The source *)

\* New entries carry later dates; pages may change at any time.
Publish(i) ==
  /\ upstream[i] < MaxText
  /\ kind = "feed" => \A j \in Items : j < i => upstream[j] > 0
  /\ upstream' = [upstream EXCEPT ![i] = @ + 1]
  /\ UNCHANGED <<kind, unique, source, stored, sync, overlapped>>

CreateSource ==
  /\ ~source.exists /\ source.id < MaxSources
  /\ source' = [NoSource EXCEPT !.exists = TRUE, !.id = source.id + 1]
  /\ UNCHANGED <<kind, unique, upstream, stored, sync, overlapped>>

UpdateSource(status) ==
  /\ source.exists
  /\ source' = [source EXCEPT !.status = status]
  /\ UNCHANGED <<kind, unique, upstream, stored, sync, overlapped>>

\* The links go with it, the memories stay.
DeleteSource ==
  /\ source.exists
  /\ source' = [source EXCEPT !.exists = FALSE]
  /\ UNCHANGED <<kind, unique, upstream, stored, sync, overlapped>>

--------------------------------------------------------------------------------
(* What the connectors fetch: items, per-item errors and the new cursor (0: none) *)

Feed(i) == i % 2

\* A feed that fails is an error; of the others, entries after the cursor, up to the
\* limit per feed.
FeedFetch(cursor) ==
  LET fresh(feed) == {i \in Published : i > cursor /\ Feed(i) = feed}
      Kept(failed) ==
        {k \in SUBSET {i \in Published : i > cursor} :
           \A feed \in {0, 1} :
             Cardinality({i \in k : Feed(i) = feed})
               = IF feed \in failed THEN 0 ELSE Min({Cardinality(fresh(feed)), MaxFeedItems})}
  IN  UNION {{[items |-> [i \in kept |-> upstream[i]], errors |-> failed # {}, newest |-> Max(kept \cup {cursor})] :
                kept \in Kept(failed)} : failed \in SUBSET {0, 1}}

\* Every configured URL, as it is now; one that cannot be clipped is an error.
ClipFetch ==
  {[items |-> [i \in got |-> upstream[i]], errors |-> got # Items, newest |-> 0] : got \in SUBSET Published}

\* All pages of a listing, which ends without a cursor; what could not be fetched becomes
\* an item all the same.
Listed(bad) == [items |-> [i \in Published |-> IF i \in bad THEN Junk ELSE upstream[i]],
                errors |-> FALSE, newest |-> 0]

\* A token that cannot be had, or a listing refused with a 4xx, is an empty success.
NothingListed == [items |-> NoItems, errors |-> FALSE, newest |-> 0]

\* A message whose fetch fails or is refused: an error text, or headers without a body.
GmailFetch == {NothingListed} \cup {Listed(bad) : bad \in SUBSET Published}

\* A file that fails, is of an unsupported type, or whose download is refused: the error.
DriveFetch == {NothingListed} \cup {Listed(bad) : bad \in SUBSET Published}

\* A page whose blocks fail or are refused: the error, or "(empty page)".
NotionFetch == {NothingListed} \cup {Listed(bad) : bad \in SUBSET Published}

PagesFetch == GmailFetch \cup DriveFetch \cup NotionFetch

Fetched(cursor) ==
  CASE kind = "feed" -> FeedFetch(cursor) [] kind = "clip" -> ClipFetch [] OTHER -> PagesFetch

--------------------------------------------------------------------------------
(* One sync *)

SyncRequest(s) ==
  /\ sync[s].step = "idle" /\ source.exists /\ source.status # "disconnected"
  /\ source' = [source EXCEPT !.status = "syncing"]
  /\ sync' = [sync EXCEPT ![s] = [NoSync EXCEPT !.step = "fetch", !.id = source.id,
                                    !.cursor = source.cursor, !.synced = source.synced]]
  /\ overlapped' = (overlapped \/ \E q \in Syncs : sync[q].step # "idle")
  /\ UNCHANGED <<kind, unique, upstream, stored>>

\* The config is found invalid before anything is fetched.
Invalid(s) ==
  /\ sync[s].step = "fetch" /\ sync[s].tries = 0
  /\ sync' = [sync EXCEPT ![s].step = "persist", ![s].items = NoItems, ![s].errors = TRUE]
  /\ UNCHANGED <<kind, unique, upstream, source, stored, overlapped>>

\* A retryable status or a transport error while listing.
FetchAgain(s) ==
  /\ sync[s].step = "fetch" /\ kind = "pages" /\ sync[s].tries < MaxTries
  /\ sync' = [sync EXCEPT ![s].tries = @ + 1]
  /\ UNCHANGED <<kind, unique, upstream, source, stored, overlapped>>

\* The last attempt raises; the dispatcher makes it an error of the sync.
FetchFails(s) ==
  /\ sync[s].step = "fetch" /\ kind = "pages" /\ sync[s].tries = MaxTries
  /\ sync' = [sync EXCEPT ![s].step = "persist", ![s].items = NoItems, ![s].errors = TRUE]
  /\ UNCHANGED <<kind, unique, upstream, source, stored, overlapped>>

Fetch(s) ==
  /\ sync[s].step = "fetch"
  /\ \E f \in Fetched(sync[s].cursor) :
       sync' = [sync EXCEPT ![s].step = "persist", ![s].items = f.items, ![s].errors = f.errors,
                            ![s].newest = f.newest, ![s].writes = NoItems]
  /\ UNCHANGED <<kind, unique, upstream, source, stored, overlapped>>

\* Mutant of Linked: the rows of the source with the same text.
LinkedSameText(s, i) ==
  {n \in DOMAIN stored[i] : source.exists /\ stored[i][n].source = sync[s].id
                              /\ stored[i][n].text = sync[s].items[i]}

\* The rows of the item linked to this source; its links go when it is deleted.
Linked(s, i) ==
  {n \in DOMAIN stored[i] : source.exists /\ stored[i][n].source = sync[s].id}

\* Looked up by (source, reference): skipped if it says the same, else updated.
PersistKnown(s, i) ==
  /\ sync[s].step = "persist" /\ i \in DOMAIN sync[s].items /\ Linked(s, i) # {}
  /\ LET n == Min(Linked(s, i))
         text == sync[s].items[i]
     IN  sync' = [sync EXCEPT ![s].items = Without(@, i),
                              ![s].writes = IF stored[i][n].text = text THEN @
                                            ELSE With(@, i, [row |-> n, text |-> text])]
  /\ UNCHANGED <<kind, unique, upstream, source, stored, overlapped>>

\* A new memory, flushed at once: the unique index lets no second one pass, and makes
\* it wait for a transaction that inserts the same.
PersistNew(s, i) ==
  /\ sync[s].step = "persist" /\ i \in DOMAIN sync[s].items /\ Linked(s, i) = {}
  /\ unique => /\ stored[i] = <<>>
               /\ \A q \in Syncs \ {s} : i \in DOMAIN sync[q].writes => sync[q].writes[i].row # 0
  /\ sync' = [sync EXCEPT ![s].items = Without(@, i), ![s].added = @ + 1,
                          ![s].writes = With(@, i, [row |-> 0, text |-> sync[s].items[i]])]
  /\ UNCHANGED <<kind, unique, upstream, source, stored, overlapped>>

\* A failed flush leaves the session unusable: the items after it fail, and so does the
\* commit that would have recorded it.  The same remains when the process dies.
Broken(s) ==
  /\ sync[s].step = "persist"
  /\ sync' = [sync EXCEPT ![s] = NoSync]
  /\ UNCHANGED <<kind, unique, upstream, source, stored, overlapped>>

\* What the transaction makes of the rows of an item.
Written(s, i) ==
  IF i \notin DOMAIN sync[s].writes THEN stored[i]
  ELSE LET w == sync[s].writes[i]
       IN  IF w.row = 0 THEN Append(stored[i], [text |-> w.text, source |-> sync[s].id])
           ELSE [stored[i] EXCEPT ![w.row].text = w.text]

\* One commit: the memories, and of the source what differs from what was loaded.
Finalize(s) ==
  /\ sync[s].step = "persist" /\ DOMAIN sync[s].items = {}
  /\ source.exists /\ source.id = sync[s].id
  /\ stored' = [i \in Items |-> Written(s, i)]
  /\ source' = [source EXCEPT
       !.status = IF sync[s].errors THEN "error" ELSE "connected",
       !.cursor = IF sync[s].newest \in {0, sync[s].cursor} THEN @ ELSE sync[s].newest,
       !.synced = IF sync[s].added = 0 THEN @ ELSE sync[s].synced + sync[s].added]
  /\ sync' = [sync EXCEPT ![s] = NoSync]
  /\ UNCHANGED <<kind, unique, upstream, overlapped>>

--------------------------------------------------------------------------------
SyncInit ==
  /\ kind \in {"feed", "clip", "pages"} /\ unique \in BOOLEAN
  /\ upstream = [i \in Items |-> 0]
  /\ source = NoSource
  /\ stored = [i \in Items |-> <<>>]
  /\ sync = [s \in Syncs |-> NoSync]
  /\ overlapped = FALSE

SyncStep(s) ==
  \/ Invalid(s) \/ FetchAgain(s) \/ FetchFails(s) \/ Fetch(s)
  \/ \E i \in Items : PersistKnown(s, i) \/ PersistNew(s, i)
  \/ Broken(s) \/ Finalize(s)

SyncNext ==
  \/ \E i \in Items : Publish(i)
  \/ CreateSource \/ DeleteSource \/ \E status \in {"connected", "disconnected"} : UpdateSource(status)
  \/ \E s \in Syncs : SyncRequest(s) \/ SyncStep(s)

SyncSpec == SyncInit /\ [][SyncNext]_syncVars

--------------------------------------------------------------------------------
(* Properties *)

\* A second sync of the same items adds no second memory: not when the items change in
\* between, nor when syncs fail half-way, nor (with the index) when two run at once; and
\* memories_synced is the number of memories the source brought, although it is written
\* from the value loaded when the sync began (overlapping syncs excepted).
ResyncAddsNothing ==
  /\ unique \/ ~overlapped =>
       \A i \in Items : \A m, n \in DOMAIN stored[i] : stored[i][m].source = stored[i][n].source => m = n
  /\ ~overlapped /\ source.exists =>
       source.synced = Cardinality({i \in Items : \E n \in DOMAIN stored[i] : stored[i][n].source = source.id})

\* No sync fabricates a memory for an item it could not fetch (base.py:46-53).
NoJunkMemories ==
  \A i \in Items : \A n \in DOMAIN stored[i] : stored[i][n].text # Junk
================================================================================
