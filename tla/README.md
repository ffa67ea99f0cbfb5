# Orivory: TLA+ models, checks and proofs

Orivory is a self-hosted memory hub: users and AI agents store memories and documents,
search them, chat about them, and ask for their erasure. The rows are in PostgreSQL (or
SQLite), vectors in ChromaDB, objects in MinIO, shared counters and caches in Redis; an
asyncio web process serves requests, Celery workers do the rest, and a browser
application keeps state of its own. No transaction spans two of these stores and no
handler holds a lock across an await, so what the system promises depends on the order
in which each handler writes, and on what the others do in between. That is what this
project models.

Run a model with `tlc -workers 2 -config X.cfg M`, a proof with `tlapm M.tla`, from this
directory. `PROJECT.json` maps every definition to the lines it stands for, lists the
components with the reason for each that has no module, and lists under `hazards` the
places where the code could go wrong unnoticed by a test, with the properties about each.

## 1. The system and its modules

| Part of the code | State | Module | What is hard |
|---|---|---|---|
| Memories (`api/v1/memories.py`, `retrieval/memory`), erasure (`erasure_service.py`) | rows, parents, vectors, receipts | `MemoryStore`, refining `MemoryLifecycle` | two stores, awaits between check and write, cascades, a depth cap |
| Reindex (`reindex_tasks.py`) | vectors, offset | `Reindex` | OFFSET paging over a moving table, retries |
| Salience and recall (`retriever.py`, `salience.py`) | salience, use count | `MemoryRecall` | rewards that overlap with edits, decay and deletes |
| Knowledge graph (`graph/`, `graph_tasks.py`) | entities, links, relations, counters | `KnowledgeGraph` | at-least-once delivery, get-or-create by several builds |
| Clusters (`graph/clustering.py`) | entities, relations, the walk of a request | `Clusters` | two selects with changes in between, a breadth-first search |
| Documents (`document_service.py`, `ingestion_tasks.py`) | status, chunk rows and vectors, projection | `Documents` | crashes, redelivery, two messages for one document |
| Keyword index (`bm25_retriever.py`) | an index per process, a generation in Redis | `ChunkRetrieval`, by its effect | every rebuild raises (section 6) |
| Retrieval and its caches (`hybrid_retriever.py`, `retrieval_cache.py`, `parent_store.py`) | cached answers, cached parents | `ChunkRetrieval` | fills that cross a deletion, expiry, an invalidation never reached |
| Chat graph (`agents/`) and its stream | state of one turn | `ChatTurn` | three retry loops, failing model calls, one terminal event |
| Conversations (`chat.py`, `memory_agent.py`) | rows, cached history | `Conversations` | a cache filled beside an invalidation |
| Source sync (`dispatcher.py`, `connectors/`) | cursor, link rows, memories | `SourceSync` | failing items, two syncs of a source, retries |
| Imports (`import_service.py`) | number of rows per type and reference | `Imports` | check-then-insert beside a unique index |
| MCP hub (`mcp_hub`), ledger, agents | tokens, ledger rows | `AgentHub` | effect and ledger row in two transactions |
| Accounts: sign up, codes (`auth_service.py`) | codes, mail counters | `SignUp` | codes replaced while they are used |
| Accounts: sessions (`auth_service.py`, `security.py`) | refresh tokens and their index, blacklist | `Sessions` | several Redis calls per operation |
| Administration (`admin.py`) | roles | `Administration` | administrators who change each other |
| Rate limiter (`rate_limiter.py`, `redis_client.py`) | time stamps of a caller's requests in Redis | `RateLimit` | stamps taken before Redis is reached, an expiring key |
| Quota (`quota_service.py`, `quota_tasks.py`) | counters and reset dates | `Quota` | late, doubled and concurrent resets |
| Workspaces (`workspaces.py`) | members, count, invites | `Workspaces` | check and commit apart, a cached count |
| Discovery (`discovery.py`) | a session in process memory | `Discovery` | awaits between reading and changing it |
| Insights (`insights.py`, `insight_agent.py`) | cards | `Insights` | a refresh beside the user's verdicts |
| Experiments (`experiments_service.py`) | experiments, assignments, events | `Experiments` | long sequences of legal changes |
| Browser session (`AuthProvider.tsx`, `api-client.ts`, `middleware.ts`) | token, cookies, user per tab | `WebSession` | checks in flight, outages, several tabs |
| Browser chat (`ChatInterface.tsx`) | messages, stream, abort handle | `ChatWindow` | callbacks of several streams |

They interact as follows. Documents, imports, syncs and agents write into the memory
store; erasure, deletes and the reindex work on the same rows and vectors; ingestion
publishes the keyword index and invalidates the cached answers; a chat turn reads
conversations, chunks and memories, and rewards the memories it used; the model-calling
endpoints first reserve quota. Where the interleaving of two parts matters the models
compose them: `Reindex` EXTENDS `MemoryStore`; `Documents` holds the handlers and the
worker; `ChunkRetrieval` retrieval, ingestion and deletes; `MemoryRecall` the recall and the edits; `KnowledgeGraph` builds,
entities written by hand and PATCH of metadata; `AgentHub` the tools and the deletes of
the user. A part a model does not contain is represented by what it leaves
(`IngestEnds` in `ChunkRetrieval`, the memory deletes in `MemoryRecall`).

## 2. How the models read the code

- A request, task, call or tab is a record `pc[r]`, `task[t]`, `visit[v]`, `ask[q]`, ...
  with a `step` and the locals that outlive an await. An action is the code from one
  await on a store, a model or the network to the next. Between two actions anything
  else may happen. Where all calls run without an await (`Experiments`) an action is a
  whole call.
- A SQLAlchemy session writes at its commit only the columns that differ from what was
  loaded: `Workspaces`, `Insights`, `Administration` and `Conversations` load, and commit
  that difference. A counter written as `col + 1` in SQL is one step.
- Every call that can fail has a disjunct in which it fails, with what the `except` (or
  its absence) makes of it. Celery's retries and redelivery after a lost worker are in
  `Documents`, `Reindex` and `KnowledgeGraph`; process restarts in `Discovery` and
  `Experiments`; a Redis that forgets or expires keys in `ChunkRetrieval`, `Sessions`, `SignUp` and `Conversations`.
- Data is reduced to what a property tells apart: a text is a version number, a chunk the
  attempt it comes from or its document, a model's answer the choice of its outcome, a
  name of an entity a number whose half is its lower-case form, a score its order.
- Variables marked "history" record what happened and guard nothing.

Some definitions have a variant before them, named after it (`CascadeRowOnly` beside
`Cascade`) and marked "Mutant of": a plausible slip in the code. No specification uses it;
replacing the definition by it makes the property listed for it in `PROJECT.json` fail,
which shows that the property speaks about those lines.

Constants that stand for a fact outside the Python source:

- `RetryReraises` (Documents): once the retries are used up, Celery's `retry(exc=exc)`
  raises `exc` itself, and the handler for `MaxRetriesExceededError` is not reached. TRUE
  is what Celery does; `messages_end` sets FALSE so that the code after it is exercised too.
- `RefIndexed` (Documents), and the variables `unique` (SourceSync), `uniqueRef` (Imports):
  the migration `c7d8e9f0a1b2` has been applied. Its unique index also covers the rows of
  one document's projection, which share a reference, so that the projection then never
  commits. `accounts` sets FALSE (SQLite, or before the migration), `messages_end` TRUE;
  the two variables take both values.
- `FailOpen` and `RecursionLimit` (ChatTurn): `EVALUATOR_FAILURE_MODE`, and LangGraph's limit.
- `SameOrigin` (WebSession): the API shares the pages' origin, so that answers set cookies.
- `enforced` (AgentHub): the foreign keys of the migration exist (lite mode has none).

## 3. Runs

A run whose module is `MCStore`, `MCProgress`, `MCAccounts` or `MCRequests`
checks several models that share nothing: `part` names the one that moves, the others
keep their initial state, and their states add up. A behaviour is one of the parts, so
an invariant of one is checked on all its behaviours, and trivially holds on the others.

| Run | Parts | Asks |
|---|---|---|
| `memory_store` (`MCStore`) | requests; trees; graph | `TypeOK`, `SameOwnerTree`, `LifecycleSpec` (refinement of `MemoryLifecycle`); `ReceiptStaysTrue`, `VerifiedAbsenceLasts`, `SearchFindsCascade`; `NothingCountedTwice` |
| `answers` (`MCMemoryStore`) | two requests of one user | `RequestsReturn` |
| `reindex` (`MCReindex`) | reindex beside one request | `ReindexMakesWhole`, `ReindexEnds` |
| `messages_end` (`MCProgress`) | documents with a worker crash; a chat turn; sync; rate limiter | `MessagesEnd`, `WaitingHasMessage`; `TurnEnds`, `RejectedIsNotDelivered`; `ResyncAddsNothing`; `WindowHolds` |
| `accounts` (`MCAccounts`) | quota; workspace; documents; retrieval; browser | `CapsHeld`, `RefusalsAreEarned`; `OwnerKeepsSeat`, `NoIncrementLost`; `ReadyIsSearchable`, `DeletedStaysGone`; `DeletedFadesOut`; `OutageKeepsTokens`, `NoRedirectLoop` |
| `overlapping_requests` (`MCRequests`) | discovery; insights; imports; sessions; sign up; hub; recall; window; chat; admin; experiments; clusters | `JourneyIsAChain`; `ActedOnIsNotNew`; `ImportedExactlyOnce`; `EndedSessionsStayEnded`; `FewCodesWork`; `LedgerExplains`; `DeletedIsNotRecalled`, `EveryUseCounted`; `AnsweredOnce`, `LeavingStopsStreams`; `TurnsSeeTheirPast`; `AnAdminRemains`; `VariantIsKept`; `ClustersAreComponents` |

Six runs expect a counterexample (`receipt_describes`, `deleted_chunks`,
`exhausted_failed`, `monthly_cap`, `no_junk`, `window_closes`), see below.

Each property is stated, with the behaviour of the code it is about, above its definition.
What they amount to:

- a memory's tree has one owner, an id that is gone never returns, and a receipt has one
  true entry for each id asked for; what the search of an erasure missed was stored after
  it began, or its entry says that it was cut off; absence that was verified lasts;
- a reindex that ends normally has indexed what the account had, rows that share their
  time stamp with others excepted;
- `ready` means that exactly the vectors of the committed chunks are there; a delete that
  met no running attempt leaves nothing, and cached answers forget it within their time to
  live, although nothing invalidates them;
- a sync or an import repeated adds nothing; a build delivered twice counts nothing twice;
- what an agent saw or did has a row in the ledger unless its call failed;
- a password change ends the sessions before it; no more codes of a kind work than requests
  mailed one at once; caps hold, nobody is refused before a limit was granted, and no window
  of time admits more requests than the limit;
- the clusters returned are the connected components of the graph the request has read;
- every request, message and turn comes to an end, and a turn in one terminal event;
- an outage costs the browser no token, sends no tab in circles, and a question gets one reply.

Many of these hold only while something else does not happen. The exception is then part
of the property, as a history variable (`late`, `missed`, `disturbed`, `overlapped`, `stray`,
`excused`, `twice`, `mixed`, `mingled`, `doubled`, `removed`, `outdated`, `uncounted`) or as
what the history leaves out (`settled`, `owed`): each stands for an interleaving in which the
code breaks the promise, and is named in section 6. Such a property says that nothing else
breaks it; the excepted race itself is not caught, as the notes under `hazards` say.

### Bounds

Two actors are enough for most hazards here: each is a race of one writer with one other
(a create with an erasure, a delete with an ingestion, a resend with a resend), and
the conditions mention one or two rows. More are used where a case needs them: three ids
so that a search of two levels (the cap) can be cut off, and a child arrive between them,
two ticks for the life of a cached answer that a read could renew, four days for a month that begins while a reset is late, three rounds so that a
third turn reads what two have written, three entity spellings of which two differ only
in case, two experiments of one name (and a hash that picks the last of three variants, so
that a variant added would move it). Bounds stop arrivals (`MaxMem`, `MaxReceipts`,
`MaxCrashes`, `MaxDate`, `MaxTokens`, `MaxCodes`, ... , unsent messages, questions that
are each asked once); what has begun is not cut short, except by `MaxCount`, which holds
back a commit. State constraints and bounds of the MC modules:

- `NothingFails` (`deleted_chunks`): Chroma obeys the DELETE, no stage of the ingestion
  raises, and the conversation stays, so that the counterexample is about the order alone.
- `OneKind` (`overlapping_requests`): requests about one kind of code are under way, and one
  counter of mails exists, with a time to live (each kind has rows, and a counter, of its
  own); nothing is explored after the onboarding.
- `FewCodes` (`overlapping_requests`): three codes are sent, of both kinds together.
- `OneForm` (`accounts`): the two tabs do not submit forms at once.
- `TwoMemories`, `CreateAndErase`, `MarkedAlone` (`MCStore`): the requests part creates two
  memories, in the trees part one user only creates and erases, in the graph part metadata
  is replaced only where no two builds of the memory overlapped.
- `OwnInit`, `BesideNext` (`MCReindex`): one request of the same user runs beside the reindex,
  not an erasure, an update or an agent's call (those run with others in `memory_store`).
  Two of the three ids are of one transaction (`Batches`).

Symmetry is used for safety only, over sets whose elements the specifications compare for
equality and nothing else. `MCStore`, `MCAccounts` and `MCRequests` exchange the elements of
sets of different parts together, which is sound as only one part moves. Deadlock is not
checked: once a bound is used up, or all requests are done, the models rightly stop.

### Disagreements

Each is a run with one property taken from a document or comment, which the code does not
meet; `PROJECT.json` quotes both sides.

1. `receipt_describes` (`MCMemoryStore`, `ReceiptDescribesErasure`): a child stored between the descendant search and the delete of an
   erasure goes with its parent, and the receipt does not mention it.
2. `deleted_chunks` (`MCDeletedChunks`, `DeletedChunksGone`): `delete_document` clears Chroma before its commit; an ingestion
   under way then inserts its rows, which locks the document's, writes the vectors and commits, and only then does the
   delete commit: the vectors of a deleted document stay. Nothing fails in this run, and the conversation is not deleted.
3. `exhausted_failed` (`Documents`, `ExhaustedIsFailed`): when Celery's retries are used up the document stays `processing`, and
   the admin's retry refuses it.
4. `monthly_cap` (`Quota`, `MonthlyCapHeld`): the inline reset zeroes the month's counter when only the daily reset was
   missed.
5. `no_junk` (`SourceSync`, `NoJunkMemories`): a page that cannot be fetched becomes a memory of its error, and replaces the
   text an earlier sync stored.
6. `window_closes` (`SignUp`, `WindowAlwaysCloses`): a mail counter that expires between SET NX and INCR is created anew
   without a time to live, and the address is blocked for good.

## 4. Fairness

- `MemoryStore` (`FairSpec`), `Reindex` (`FairBesideSpec`): weak fairness of `Continue(r)` for
  each request, and of the task's next step. The event loop resumes a coroutine whose await has completed,
  and every await on a store ends, with a result or an error; a worker goes on with what
  it has picked up.
- `Documents` (`FairProgressSpec`): weak fairness of each message's next step: the broker
  delivers what it holds, and redelivers after a crash (`acks_late`,
  `reject_on_worker_lost`). Crashes, failures and requests are not fair, and crashes are
  bounded by `MaxCrashes`.
- `ChatTurn`: weak fairness of the graph and its stream together: LangGraph runs the next node
  while there is one, and the generator of the stream is closed at its end. A client that
  leaves is not fair.

The other specifications state safety only and have no fairness.

## 5. Proofs

Every theorem holds for every value of the constants, from the named ASSUMEs of the module it
is about (finite sets where members are counted, naturals for bounds); one needs a hypothesis
more, which is named below. TLC checks each property on its run. A property alone is seldom
inductive; the strengthening is what carries it. Every safety and action property of the
passing runs, and the refinement, is stated by a theorem.

| Module | Theorems | The argument |
|---|---|---|
| `MemoryStore_proofs` | `TypeCorrect`, `TreesStayWithOneOwner`, `StoreImplementsLifecycle` | A parent is checked at `CreateCheck` and the row inserted later. So: a request at `insert` holds a parent id which, if still a row, belongs to the caller; owners never change and ids are never used twice. A cascade is contained in every set closed under children that holds its root, so with one owner per tree each DELETE is a Forget, and each INSERT a Store, of the abstract lifecycle. |
| | `SearchMeetsCascade` | Between two queries what was found and still exists is in the cascade, and a child of a row found is found, or has its parent in the frontier, or is younger than the search (`later`, the ids not given when it began, which are closed under children). So whatever is created or deleted between the levels, once the frontier is empty the rows found and the younger ones together are closed under children, and hold the cascade. |
| | `ReceiptsStayTrueForGood`, `VerifiedAbsenceHolds` | What an entry of a receipt says is true for good once its delete has run, as ids are not used again; the only vectors that come back are those of upserts under way at that moment (`late`). |
| `Reindex_proofs` | `ReindexMakesUserWhole` | While nothing was taken away (`missed`), the rows the attempt started with are the oldest of the user, and one that is alone in its transaction has a vector once fewer of them come before it than the offset has passed. A page is the difference of two prefixes, of orders in which only rows of one transaction change places: a row that is alone has the same rows before it in each, so it is on the page its number says. |
| `MemoryRecall_proofs` | `DeletedNotRecalled`, `UsesAreCounted` | Rows are only taken away, so what was gone when a recall began is still gone when the rows of its candidates are selected; what a turn names is a subset of rows selected since it began. |
| `Accounts_proofs` | `CapsAreHeld`, `RefusalsAlwaysEarned` | Quota: grants of a period are bounded by what its counter shows, plus one limit for each reset within it; dates of resets never exceed the date. A counter that is current shows no more than was granted in its period, so that a refusal by it is earned; a request that finds it stale resets it and tries again, and fails then only by grants of the period, unless another reset came between its UPDATE and its decision (`reset`). `twice` excuses inline resets that hit a counter already current. |
| | `OwnerStays`, `IncrementsAreKept` | Workspaces: no request under way, and no invite, is about the owner; a committed seat adds at most one member, together with the SQL increment of the count. |
| | `AnAdminStays` | No request under way costs its own author the administration, and a commit changes one account: if its author is another one, that one is still an administrator unless `outdated`. |
| | `WindowAlwaysHolds` | Rate limiter: no request in place from now on has a stamp before the front, so when a request is admitted the window that ends at its stamp is complete in the sorted set; a window that ends elsewhere has no more than the one that ends at its last stamp. |
| | `SessionsAlwaysStayEnded` | A valid token is in the index an invalidation reads, and among the keys it is about to delete, unless issued while one was under way (`stray`). A blacklist entry lives at least as long as its token. |
| `Chat_proofs` | `RepliesAreSingle`, `StreamsStop` | A stream is settled exactly when it has had its one reply, and is over only when settled or aborted; while nothing overlapped the abort handle is that of the only stream that runs. |
| | `TokensSurviveOutages`, `NoTabLoops` | A refresh is under way only after the server refused a token, and one whose answer is awaited holds a token that exists: the tokens are cleared without a token, after a logout, or after a refusal. A tab sent back from the login page has its check before it, and stays where the check leaves it. |
| | `TurnsAlwaysSeeTheirPast` | A round counts as settled once it has invalidated the cache with no older fill to come; from then on it is in the cached history, if there is one, and in what any fill under way has selected. |
| `Requests_proofs` | `ClustersAreComponentsHolds` | A finished component is closed under relations, and no closed set separates its members; the component under way together with its queue keeps the second, and is closed except for what is queued. |
| | `FewCodesAlwaysWork` | Any usable codes of a kind, and any requests that are mailing one and have marked none of these, are together at most `peak`. A request that marks has marked every usable code, so with any code it is not counted; when it commits, its code takes the place in the count that it leaves, and the codes it marked are no longer usable. |
| | `LedgerAlwaysExplains` | Only calls that are over have a row, and what they returned stays true of them, as ids are not used again. |
| | `VariantIsAlwaysKept` | A user has at most one assignment, and what was told or counted is the one stored, as long as the experiment is kept; one that is not kept comes back under another identity. |
| | `JourneyIsAlwaysAChain` | Connections of type `step` carry the number of steps up to them, and the path grows with them. |
| | `ActedOnIsNeverNew` | A request's copy of a card that was not new when loaded does not become new, and a commit writes only what differs from the copy; no answer of the model, whichever cards it names, makes one new. |
| | `ImportedAlwaysOnce` | An item is stored at the first place its reference has in its file; what a request knows of the table is what it holds, until imports mingle. |
| `Content_proofs` | `WaitingIsCarried`, `ReadyIsFound`, `DeletedNeverReturns` | One invariant of documents: one that waits is carried by a message or by the request that will send it; one that nothing disturbed has at most one message, whose step tells which vectors and rows are there; an attempt between its first write and its commit locks the row, so the delete waits; once a document was deleted quietly nobody works on it, and no attempt can begin. |
| | `DeletedAlwaysFadesOut` | What an answer or a retrieval holds of a deleted document was found before its vectors and rows went: a retrieval lasts no longer than `Patience`, and the answer it caches then lives no longer than `QueryTTL`, as reading it does not renew it. No invalidation is needed, and none comes. |
| | `NothingIsCountedTwice` | Counters a build has loaded do not exceed the links made; a link and its count are committed together, and a mark seen is a build committed, until builds overlap or a PATCH takes the mark. |
| | `ResyncAlwaysAddsNothing` | An item a sync takes for new has no row of the source: with the index because the fresh items of two syncs are disjoint (the second insert waits for the first), without it while syncs do not overlap; until then the counter is the number of items the source brought. |
| | `RejectedNeverDelivered` | Chunks are cached under the number of the retry, which is raised before each new retrieval; a rejected answer is replaced before it is saved. Hypothesis `MaxCorrections >= 3`: the graph compares with `MAX_RETRIES`, the grader with a literal 3, and with a smaller setting the graph would deliver what the grader still wants retried. |

Only model-checked: liveness (`MessagesEnd`, `TurnEnds`, `ReindexEnds`, `RequestsReturn`),
as the prover does not treat fairness or ENABLED; and the runs that end in a
counterexample.

## 6. Observations without a run

Met while modelling; the models contain these behaviours, and the properties exclude them
by the history variables of section 3.

- Documents: the counter behind `MAX_DOCS` is written back absolute, so overlapping uploads
  pass the cap and leave it low (`document_service.py:59`). A failing vector delete is
  swallowed.
- Erasure: `untracked_estimate` is not a lower bound when the tree changes; a receipt may say
  `completed` although the verification call itself failed (`erasure_service.py:225`,
  against `docs/API.md:2854`).
- Reindex: OFFSET paging over equal `indexed_at` may skip a row (`ReindexMakesWhole` without
  `Alone` fails in the run), as may a row deleted while the task pages (`missed`).
- Keyword index: `chunk_metadata` has SQLAlchemy's generic JSON type, which has no `.astext`,
  so every rebuild raises (`bm25_retriever.py:129`, `153`). No web process ever has an index,
  hybrid search finds nothing by keyword, and `delete_document` answers with an error after
  its commit (`document_service.py:124`), before the line that would drop the cached answers.
- Retrieval: answers cached before a delete are served until they expire;
  `parent_store.invalidate_conversation` has no caller, so that cached parents only
  expire, and their time to live starts anew at every read (`parent_store.py:61`).
- Chat: planned subqueries are searched only when a retrieval is retried
  (`multihop_agent.py:343-345` says otherwise); grounding defaults to grounded when the
  evaluator failed; deleting a session deletes only its row: vectors and the
  cached history stay.
- Recall: pinned memories drop out of the context when enough newer ones fill its cap; a
  stale bump overwrites the salience although the use count is exact.
- Knowledge graph: entities are looked up by lower-case name beside a case-sensitive unique
  key; two builds of one memory count evidence twice; the mark of a build overwrites
  metadata written meanwhile.
- Hub: a refused call and an id that is not found leave no ledger row on Postgres
  (`tools.py:8` promises one for each call).
- Sync: an RSS cursor passes entries that failed or exceeded the limit; deleting and
  connecting a source anew adds its items again. Imports: with the index one duplicate fails
  the whole import; a Gemini conversation without an id is known by its title, so that a
  second one of that title is taken for the first (`import_formats.py:266`).
- Accounts: two overlapping refreshes with one token both succeed; a token issued while all
  sessions are invalidated survives (`stray`); two overlapping resends leave two codes that
  work (`peak` counts them), and one code loaded by two requests is spent by both; two administrators who demote each other leave none (`outdated`).
- Quota: two inline resets of one period forget the grants between them (`twice`).
- Rate limiter: requests may reach Redis in another order than their stamps; in lite mode
  the stand-in drops an expired key while it counts, together with the member just added,
  so that the first request after an idle window is not counted (`uncounted`).
- Workspaces: `remove_member` writes an absolute member count (`removed`); a soft-deleted
  workspace still takes members; the check for a pending invite compares the address as
  typed with the stored lower-case one.
- Insights: a save that overlaps a dismissal reverts it, and a refresh overwrites verdicts
  given while the model was asked. A refresh changes whatever card the model's answer names,
  also an expired one, one created meanwhile, or another user's: the id is not checked
  against the cards asked about or their owner (`insights.py:461`; the model has one user).
  Discovery: a session is
  known to one process only. Experiments: the comparison of the cumulated weights includes
  the bound, so that the first variant gets one residue more and a last one of weight 1 nobody.
- Browser: a suggestion picked after clearing a running chat starts a second stream
  (`overlapped`); `setCurrentSession` has no caller, so that every message of the web chat
  opens a new conversation; while the API is down a tab that holds the
  cookie is sent from /login to the application and back; `NoRedirectLoop` therefore counts
  anew with each outage the tab sees.
- Settings: the PUT of a new key fails on the audit row, so that no setting can exist.
  Hints: a placeholder for an unknown id makes GET /hints raise. Referrals:
  `complete_referral` has no caller.

## 7. Not modelled, and why

- Data: texts, embeddings, scores, file contents, what parsers and models return. No
  property depends on more than the choice among their outcomes.
- Reading endpoints: listings, digests, analytics, statistics, health, traces.
- System settings, referrals, hints: their code reaches no state worth a model (section 6).
- E-mail, audit, demo data, compression: one call or one insert each.
- Renames and merges of entities, update and archive of a workspace, renaming of a
  conversation, feedback: single updates of columns that no
  modelled step depends on (an entity's name is read by its look-up alone).
- Quota's token counters go the way of the request counters; a row's first reset date is
  taken to be the UTC date, as in all later code.
- The OAuth exchange, cryptography, vendor APIs, LangGraph and Celery: external; what the
  code relies on is a constant or an action marked external.
- The pages of the web application other than login and chat: forms and lists.
- Evaluation, notebooks, scripts: offline tools.
