# Verification of the Document AI Platform

A PDF is uploaded to a FastAPI service, stored in Postgres, and taken through seven
stages by workers that share a job queue in the same database. This directory holds
TLA+ specifications of that program, TLC configurations that check them on small
instances, and theorems that TLAPS checks for every instance. Paths below are
relative to the repository; `app/` stands for `backend/app/`.

## The system

| Component | State | Operations | Interacts with |
|---|---|---|---|
| Document state machine (`app/domain/enums.py`, `entities.py`) | `documents.status`, `processing_jobs` | `transition_to`, `mark_failed`, `cancel`, `record_attempt`, `succeed`, `fail` | called by services and stage handlers |
| Job queue (`app/infrastructure/queue/postgres_queue.py`) | `pipeline_tasks`, one row per (document, stage) | `enqueue`, `claim_batch`, `mark_succeeded`, `mark_retry`, `mark_dead`, `reclaim_expired` | shared by API and workers through the database |
| Event publisher (`app/infrastructure/messaging/event_publisher.py`) | none | `publish`: `DocumentUploaded` becomes the first task, in the transaction of the upload | queue |
| Runner and stages (`app/interfaces/worker`) | the claimed batch, in memory | `_claim`, `process_one`, `_handle_failure`, `reclaim_expired`, seven handlers | queue, documents, symbols, engines |
| Document service (`document_service.py`) | `documents`, `audit_logs`, blobs | `upload`, `cancel`, `reprocess`, reads | queue, object store |
| Symbol and graph services | `symbols`, `symbol_versions`, `symbol_properties`, `relationships` | `edit`, `upsert_properties`, `add_edge`, `delete_edge`, reads | the same rows as the handlers |
| Repositories, mappers, unit of work | a database session | whole-row `update`, bulk deletes and inserts | Postgres at READ COMMITTED |
| Algorithms (`domain/services.py`, `graph/inferrer.py`, `classification`, `cv`, `ocr`, `embeddings`) | none | pure functions, or calls to libraries | handlers |
| Authentication (`auth_service.py`, `security/jwt.py`) | `users`; the claims in the tokens | `register`, `authenticate`, `refresh`, `decode` | rate limiter before it, `scripts/seed.py` beside it |
| Rate limiter (`app/interfaces/http/rate_limit.py`) | a token bucket per client, in memory | `allow` | every request |
| Search (`search_service.py`, `search_similar`) | none | `similar` | rows that the handlers replace |
| Audit, validation | none | request/response | repositories |
| HTTP layer (`app/interfaces/http`) | none | routing, middleware, statuses of errors | services |
| Frontend (`frontend/src`) | tokens; query cache, canvas nodes, selection and panel of each tab | refresh of tokens, polling, dragging, editing | HTTP API, other tabs through it |

What makes it hard: several workers and any number of requests read and write the same
rows in transactions that take no locks when they read; a worker can die between the
commit of its claim and the commit of its work; a lease can expire under a worker that
is merely slow, since leases are not renewed and the statements that finish a task do
not look at who holds it; retries, dead letters and reprocessing act on the same row. On the other side of the API
a tab edits from a copy of its own, whose refetches and acknowledgements arrive in any order.
`PROJECT.json` lists these hazards with their lines.

## Modules

| Module | What it is |
|---|---|
| `DocumentStates` | The enums of `app/domain/enums.py`: statuses, transition table, stages. Constants only. |
| `DocumentLifecycle` | Abstract specification: what a user may rely on about a document's status and audit log, with no queue or worker in sight. |
| `Pipeline` | The queue, the workers, the stage handlers and the requests that touch the same rows. The core of the project. |
| `MCPipeline` | `Pipeline` with the symmetry sets TLC uses. |
| `Pipeline_proofs` | Theorems about `Pipeline`: whatever the leases do, and when they outlive the work; among them that it implements `DocumentLifecycle`. |
| `SymbolEditing` | One symbol under edits, stage handlers and the rebuild: rows, versions and the row lock. |
| `MCSymbolEditing` | `SymbolEditing` with the symmetry set TLC uses. |
| `SymbolEditing_proofs` | Theorems about `SymbolEditing`. |
| `Artifacts` | Pages, symbols, edges and embeddings of one document under overlapping handlers, statement by statement, and users who add and delete edges. |
| `MCArtifacts` | `Artifacts` with its page numbers and symmetry set for TLC. |
| `Artifacts_proofs` | Theorems about `Artifacts`. |
| `Geometry` | Boxes, their overlap and distance, in integers. |
| `PageAnalysis` | The greedy loops that turn one page into symbols, labels, types and edges, and the traversal of the graph. |
| `MCPageAnalysis` | `PageAnalysis` with the pages TLC tries. |
| `PageAnalysis_proofs` | Theorems about `PageAnalysis`. |
| `ContentStore` | Abstract specification: what uploading promises, with no scanner, blob or transaction in sight. |
| `Uploads` | Validation, scan, deduplication, blob and row of racing uploads. |
| `Uploads_proofs` | Theorems about `Uploads`, among them that it implements `ContentStore`. |
| `RateLimiter` | The token buckets of the API under a clock. |
| `SymbolSearch` | What a ranked search may answer, by either plan of the database. Operators only. |
| `Gateway` | Requests that register, sign in, refresh and search, on top of `RateLimiter` and `SymbolSearch`, with the seed script, the rebuilds and the end of the process. |
| `MCGateway` | `Gateway` with its spellings, owners and symmetry set for TLC. |
| `Gateway_proofs` | Theorems about `RateLimiter` and `Gateway`, among them that the second implements the first. |
| `ApiSession` | The frontend's tokens, its calls and the refresh they share. |
| `ApiSession_proofs` | Theorems about `ApiSession`. |
| `CanvasPage` | The canvas of a document in several tabs: query cache, nodes, panel, and the edits and properties they save. |
| `MCCanvasPage` | `CanvasPage` with the symmetry set TLC uses. |
| `CanvasPage_proofs` | Theorems about `CanvasPage`. |

### How `Pipeline` corresponds to the code

State. `status`, `job`, `audit` are the columns of `documents`, `processing_jobs` and
`audit_logs` that decide something; `task[<<d, s>>]` is the row of `pipeline_tasks`
(`"absent"` before its first enqueue); `batch`, `phase`, `claim`, `seen` are the memory
of a worker: the tasks it has claimed, what it is doing, the task at hand and the status
it read; `request` is the memory of an API request; the last four variables count the
uses of the bounds.

Steps. The database is used at READ COMMITTED, and reads take no lock. A transaction
that reads a document and writes it later is therefore two actions, a read
(`BeginStage`, `GiveUp`, `BeginCancel`, `BeginReprocess`) and a commit (`Handle...`,
`BuryTask`, `CommitCancel`, `CommitReprocess`); everything else may happen in between.
`documents.update` writes back the whole row from memory, so a commit writes the status
that was read, moved along one edge if the handler found it where it expects it
(`MoveDocument`). The end of a transaction is one instant here: `documents.update`
re-reads the row and SQLAlchemy sends the columns that differ from what it re-read, then
the row stays locked until the commit. A change that commits between that re-read and
the UPDATE is not distinguished from one before it or after the commit; where the
difference matters more, in `SymbolEditing`, the two are steps of their own. Transactions
that consist of one statement (`Claim`, `Reclaim`) or that read only their own new rows
(`Upload`) are one action. The failure transaction locks the task's row first
(`mark_dead`) and then reads the document, so other statements on that row wait for it
(`Locked`).

| Action | Code |
|---|---|
| `Claim` | `PipelineRunner._claim`, `claim_batch` |
| `BeginStage` | `process_one` up to the handler's `documents.get` |
| `HandleValidate` ... `HandleFinalize` | the handlers of `stages.py`, with `mark_succeeded` and the commit of `process_one` |
| `HandlerStops` | a handler that finds CANCELLED and returns False |
| `RetryLater` | `_handle_failure`, will_retry |
| `GiveUp`, `BuryTask` | `_handle_failure`, exhausted or not retryable |
| `Crash` | process death, or an exception out of `_handle_failure`; the worker is restarted |
| `Reclaim` | `reclaim_expired`, between two ticks of some worker |
| `Upload` | `DocumentService.upload` from `documents.add` on, with the event publisher's `enqueue` |
| `BeginCancel`, `CommitCancel` | `DocumentService.cancel` |
| `BeginReprocess`, `CommitReprocess` | `DocumentService.reprocess` |

Abstractions. `run_after` and `locked_at` become nondeterminism: any pending rows, at
most a batch, may be the ones that are due, and any running rows may be the ones whose
lease has run out, except that rows claimed together share one `locked_at` and expire
together. Whether a handler succeeds or raises is a free choice; the only exception that
is not retryable and that a handler can raise is `PdfBombError`, from `handle_validate`.
What the handlers compute (pages, symbols, edges, timings, page counts) is left out, as
is the job's attempt counter, which nothing reads. The payload with the correlation id is
left out: it decides log lines only. The status VALIDATING is entered and left inside
one transaction, and RETRYING is never written, so neither is ever stored.

### How `SymbolEditing` corresponds to the code

`row` and `history` are the symbol's rows of `symbols` and `symbol_versions`; a session
holds in memory the symbol as it read it (`prior`), the entity it changed (`symbol`) and
the row that `symbols.update` fetched again (`found`). Geometry (`bbox`, `rotation`) is
written by edits only; one column `label` stands for label, type and classification,
which handlers write too. A symbol is created once, by `handle_pdf_extract`, and deleted
once, by the next rebuild, which inserts symbols with new ids.

| Action | Code |
|---|---|
| `BeginEdit` | `SymbolService.edit` up to `symbol.version += 1` |
| `BeginHandle` | `handle_ocr`, `handle_classify`: `list_by_document` and the change of one symbol |
| `Refetch`, `Flush` | `symbols.update`: `session.get`, then assignment and `flush` |
| `CommitEdit` | `add_version` and `commit` of `edit` |
| `CommitHandle` | the commit of `process_one` after the handler |
| `Abort` | an exception (constraint, vanished symbol, lost connection) and the rollback |
| `Rebuild` | the commit of `handle_pdf_extract`, for the symbols it deleted |

`Flush` sends the columns in which the entity differs from the row fetched (`Merge`) and
takes the row's lock; an entity equal to that row sends nothing. A handler flushes each symbol
and commits after its last page, so the lock is held while OCR runs: edits wait for it.
That the session may still have the row in its identity map when `session.get` is called
is the case of a `Refetch` that follows the read at once. An edit's flush and its commit
are separate because the lock is held between them, and because `add_version` may still
fail. `upsert_properties` writes other rows and no version; `CanvasPage` has it.

### How `Artifacts` corresponds to the code

`pages`, `symbols`, `edges` and `embedded` are the committed rows of their tables. Ids are
fresh with every rebuild, so a row is named by the rebuild (`run`) that inserted it; an edge
a user added has run 0. A worker is at a statement of its handler (`step`); `scanned` is the
snapshot of the DELETE it has started, `gone` the rows it has deleted and not committed,
`listed` what it has read.

| Action | Code |
|---|---|
| `Begin` | the claim and the first lines of `handle_pdf_extract`, `handle_embed`, `handle_graph` |
| `Scan`, `Delete` | one of `relationships.delete_by_document`, `symbols.delete_by_document`, `delete_pages` |
| `List` | `symbols.list_by_document`, and what is computed from it |
| `SaveExtract`, `SaveEmbed`, `SaveGraph` | the inserts of the three handlers with the commit of `process_one` |
| `Abort` | an exception, a constraint, a deadlock or a crash, and the rollback; the task is pending or dead afterwards |
| `Expire` | the lease runs out under a live worker |
| `AskReprocess`, `Reprocess` | `DocumentService.reprocess`, its check and its commit |
| `AskEdge`, `AddEdge`, `AskDelete`, `DeleteEdge`, `Refuse` | `add_edge` and `delete_edge` of the graph service, up to and including the commit |

At READ COMMITTED a DELETE sees what was committed when it started (`Scan`) and waits for
rows that somebody else has deleted (`Delete`, with the rows that cascade); rows that are
gone by then are skipped. The three deletes of a rebuild are statements of their own, and
minutes of rendering separate them from its inserts, which come just before the commit and
are one step with it. The foreign keys are the condition that an inserted row's symbols are
there and not being deleted; `uq_pages_doc_num` is the condition of `SaveExtract`.

The chain of stages is shortened: validate and finalize write no artifact, OCR and
classification change columns of symbols, which `SymbolEditing` has. Which neighbour is
nearest is left open in `Inferred`, because users move symbols at any time. How often a task
may be tried and when it is dead-lettered is in `Pipeline`; here a failed task is either
pending or dead, by choice.

### How `PageAnalysis` corresponds to the code

`page` is the input: what `findContours` and the filters give, sorted, and what OCR reads.
`kept` are the boxes that become symbols, `left` the pairs that `triples` still holds,
`matched` the entries of `result`. Pixels are whole, points are given in half pixels and distances
squared (`Geometry`), so that comparisons are exact: the floats of the code may
decide a tie differently, which shifts who is nearest among equals.

| Action | Code |
|---|---|
| `Detect` | one turn of the suppression loop of `OpenCvSymbolExtractor.extract` |
| `BeginOcr`, `Associate` | `associate_text_to_symbol`, up to the sort and one turn of its loop |
| `Classify` | the labels `handle_ocr` assigns and `RuleBasedClassifier.classify` for every symbol |
| `BeginGraph`, `Connect`, `Finish` | `ProximityRelationshipInferrer.infer`, one turn per symbol |

`list_by_document` sorts by page and `created_at`, which symbols of one insert share, so `order` is
any order and a new one for every stage. `Neighbours` is the query of the relationship
repository. No user edits the page meanwhile; that is in `SymbolEditing` and `Artifacts`.

### How `Uploads` corresponds to the code

`docs` are the rows of `documents`, `blobs` the uploaded files in the object store, `answers` the
ids clients have been told. An upload is an attempt: a client that tries again is another
one with the same owner and content, and the id it draws for its document is its number.

| Action | Code |
|---|---|
| `Receive` | `upload_document` of the router, once it has the principal and the bytes |
| `Scan` | `FileValidator.validate` and `scanner.scan` let the file pass |
| `Deduplicate`, `Miss` | `get_by_owner_and_hash` finds a document, or none |
| `Put` | `object_store.put`, in a transaction of its own |
| `Commit` | `documents.add` and the commit, under `uq_documents_owner_hash` |
| `Reply` | the answer |
| `Fail` | a refusal, an exception, a constraint, a lost connection or the end of the process, anywhere |

A reply of the scanner that is not FOUND passes, as in `clamav.py:33`; a scanner out of reach is
a `Fail`. The hash stands for the content. The audit entry and the first task are written by
the same commit, which `Pipeline` has.

### How `ApiSession` corresponds to the code

`session` is the store of `auth.ts`; `refreshing` the shared promise of `client.ts`, named by the
call that created it; `post` the refresh requests in flight; `reply` the pairs of tokens that the
server has issued and that are on their way, to a login or a refresh; `call[c]` a request with what its
interceptor knows (`tries = 2` once `_retry` is set and it was sent again). `user` and `crossed`
are history. Handlers of JavaScript run to completion, so the arrival of an answer and all
the promises it resolves are one action; that the server answers and that the answer arrives are
two, and others may overtake it.

The login is a call like any other. `/login` is not guarded (`App.tsx:38`), so a user who is signed in
may get there and sign in as somebody else, with calls and a refresh of the former session in flight, and
`submit` stores the tokens whatever is in the store. Its request carries the token in the store
and its answer passes through the same interceptor: wrong credentials, sent over a live session, refresh that session
and are sent once more.

| Action | Code |
|---|---|
| `Send` | a hook calls `api`, the request interceptor attaches the token |
| `SendLogin` | `LoginPage.submit`, whoever is signed in; a registration before it is part of it |
| `ServeLogin`, `ServeRefresh` | `AuthService.authenticate`, `refresh` issue a pair |
| `SignIn` | the answer to the login: `setTokens` |
| `Settle` | an answer other than 401, or none |
| `Unauthorized` | the response interceptor up to `await refreshing` |
| `Refreshed` | `.then(setTokens)`, whatever is in the store, and the calls that waited are sent again with the new token |
| `RefreshFails` | `.catch(clear)`: the refresh is answered 429 or 5xx, or not at all |
| `RefreshRefused` | the refresh is answered 401 and enters the interceptor itself |
| `SignOut`, `Reload` | the button in `Shell`, a reload of the page (the store is persisted) |
| `Expire` | the `exp` claims of `JwtService` |

### How `RateLimiter`, `Gateway` and `SymbolSearch` correspond to the code

`bucket` is `_Limiter._buckets`; a token is `Minute` units, so that a tick of the clock
refills whole units where the code adds floats. `spent` is history: what a key was served
since each time. `users` is the table; `rows` the symbols with their vectors; `call`,
`answer`, `token` and `hits` what a request asks, is answered and brings. A request whose
answer matters to nobody forgets what it asked (`Vain`), which keeps the states few.

| Action | Code |
|---|---|
| `Serve`, `Refuse` | `_Bucket.allow`, through `_Limiter.allow`, which makes a full bucket for a new key |
| `Admit`, `Limit` | `RateLimitMiddleware.dispatch` for a path under `/auth/` |
| `Lookup`, `Insert`, `Confirm` | `AuthService.register` up to the hash, its INSERT and commit, its answer |
| `Seed` | `scripts/seed.py`, its lookup and its commit |
| `SignIn`, `Renew` | `AuthService.authenticate`, `refresh` |
| `AdmitSearch`, `Prepare` | `get_principal`, the check of the document, the symbol and its vector |
| `Query` | `search_similar`, a statement of its own: a rebuild may commit before it |
| `Rebuild`, `Embed` | the symbols that `handle_pdf_extract` replaces and `handle_embed` gives vectors |
| `Pass`, `Restart`, `Crash` | the clock; the end of the process, which loses the buckets and the requests |

Hashes and signatures are perfect. A vector is a number and the distance of two is their difference.
`Sorted` is the plan that sorts every matching row, `Scanned` the one that takes what the HNSW index
comes up with and filters that. Documents are never deleted, so the 404 for one is left
out, and `is_active` is never cleared. The id of an account is its lowercased email.

### How `CanvasPage` corresponds to the code

One document with one symbol, several tabs. `cache`, `fetch` and `invalid` are the query
`["symbols", id]` of a tab, `node` the place of its Konva node, `rows` and `saved` its panel.
A position has a coordinate for every axis, x and y; coordinates and sizes are measured from those
of the drawing and taken from `Lengths`, so a drop or a resize may bring back one or all of the values the symbol or
another tab had before. The value of a property is the number of the change that brought it. A change fails, or
its answer is lost, at any time. Rotation is left out, and the tabs stay on the page: a tab that is
opened again starts without data, as in `Init`.

| Action | Code |
|---|---|
| `Refetch`, `ServeSymbols`, `SymbolsArrive`, `FetchFails` | `useSymbols`: mount, focus or reconnection; the list; the data and the render of `SymbolShape`; a fetch whose retries fail |
| `Rendered` | the props `x` and `y` of `Rect` |
| `Drag` | `onDragEnd`: the node is where it was dropped, the rest of the box is what the tab knows |
| `Resize` | `onTransformEnd`, on the symbol that is selected: the place of the node, moved by the handle or not, and another size (one that leaves the size sends what a drag would) |
| `ChooseType` | `saveType` of the panel |
| `Edit` | `PATCH /symbols/{id}` (one step here; `SymbolEditing` has its steps) |
| `Acknowledge` | the answer: `onSuccess` invalidates the query for moves, the panel shows its badge |
| `ChangeFails` | an error or a lost answer, which nothing handles |
| `Select`, `ClearSelection` | the click on a symbol, and beside it; the effect that loads the rows |
| `SaveProps` | rows typed in the panel, and `saveProps` |
| `DeleteProps`, `StoreProps` | `upsert_properties`: its DELETE sees what was committed when it started, its INSERTs are subject to `uq_symbol_property_key` |

`invalidateQueries` cancels a fetch that is under way and starts another, and a refetch for any
other reason joins the one under way: that is TanStack Query, modelled from how `hooks.ts` uses
it. `x` and `y` are props of their own, and react-konva sets one only if it differs from what was rendered
last: a coordinate that comes back as it was before leaves the node where it was dropped (`Rendered`).

## Runs

Deadlock is not checked in any run: the system stops when the bounds are used up and the
queue is empty, which is where it should be. A run that finds its property violated
documents a disagreement between the code and a text of the repository.

| Run | Instance | Checks | Result |
|---|---|---|---|
| `LeasesExpire` | 1 document, 2 workers, batches of 2, 2 attempts, 1 lease expires under its holder | `TypeOK`, `TerminalIsAudited`, `StatusIsEarned`, `RetryBudget` | hold, 1.4 million states |
| `TwoDocuments` | 2 documents, 2 workers, batches of 2, 1 attempt, 1 crash, 1 cancellation | `OneStageAtATime`, `ClaimsAreExclusive`, `JobTracksQueue`, `NoStrandedDocument` | hold, 0.7 million states |
| `Settles` | 1 document, 2 workers, 2 attempts, 1 crash, 1 reprocess, fairness | `EverythingSettles`, `FollowsLifecycle` | hold, 83 thousand states |
| `Editing` | 1 symbol, 2 edits at a time, 1 handler, 2 values, versions up to 3 | `HistoryIsContiguous`, `OnlyHandlersRollBack`, `EditLeavesEditable` | hold, 0.9 million states |
| `Artifacts` | 2 workers, 1 user, 2 items on a page, up to 3 rebuilds, 1 edge added or deleted, 1 reprocess | `NothingDangles`, `PagesOfOneRun`, `RebuildsAreClean`, `CompleteIsSearchable` | hold, 1.6 million states |
| `PageAnalysis` | pages of up to 4 of 5 boxes and up to 3 tokens, at most 3 symbols | `SuppressionIsSound`, `AssociationIsStable`, `EdgesAreSound`, `NeighboursNest` | hold, 0.14 million states |
| `Uploads` | 3 uploads, 2 owners, a good, an infected and an oversized file | `EveryDocumentHasItsBlob`, `NothingFlaggedIsPersisted`, `ImplementsStore` | hold, 19 thousand states |
| `Canvas` | 2 tabs, 2 changes, 2 axes, 2 lengths, 2 keys of properties, failures in 1 tab | `TypeOK`, `ShownIsSaved`, `SavedIsTrue`, `OnlyStaleDragsResize` | hold, 5.8 million states |
| `Gateway` | 3 requests, 1 client, 1 request a minute of 2 ticks, a clock of 2 ticks, 3 spellings of 2 emails, 2 documents, 2 rebuilds | `GatewayTypeOK`, `WithinAllowance`, `RefusalIsDeserved`, `OneAccountPerEmail`, `RegistrationsAreTrue`, `HitsAreAllowed`, `SelfIsFound` | hold, 3.3 million states |
| `Session` | 2 calls, 2 users, 3 pairs of tokens, 1 refresh token may expire, 1 reload, fairness | `TypeOK`, `SingleFlight`, `RetryIsFresh`, `SessionIsCurrent`, `CallsSettle` | hold, 0.5 million states |
| `LostCancel` | 1 worker, 1 cancellation | `CancelledIsFinal` | violated |
| `RefreshRefused` | 1 call, 2 pairs of tokens, 1 refresh token expires, fairness | `RefusalClears` | violated |

What the passing runs show. Whatever the leases do, a status is never ahead of the
stages that have committed and a terminal status always has its audit entry, although
zombies and slow requests write back statuses they read long ago; the number of claims
is bounded by the limit plus one for every crash and every row whose lease expired under
its worker. As long as leases
outlive the work and a document is not reprocessed, its chain never forks, every task in
a batch is leased to the worker that has it, the job row agrees with the queue, and a
document that is not finished has a live row. Under the fairness below every upload
ends. Without cancellation and with leases that outlive the work the pipeline implements
`DocumentLifecycle`.

`Editing` shows that the unique constraint on (symbol, version) is what keeps edits apart:
the columns are written back from memory without a check, but of two edits of one version
one is refused, the history has no gap, and what a committed edit leaves can be edited
again. A handler is different: it writes the version it read back over later ones.

`Artifacts` shows that the database keeps the tables coherent however handlers overlap: no
edge or vector without its symbols, no mixture of two rebuilds' pages. That the symbols are
those of one rebuild is a matter of the queue: it holds as long as no two workers were at
work on the document at a time, through aborts at any statement, retries and reprocessing.

`PageAnalysis` shows that the greedy loops have the meaning one wants of them: no symbol twice and none
dropped for nothing, an association in which no free pair is closer than what either member has,
and one edge for every symbol with a role, without circles of three.

`Uploads` shows that uploads that race and fail look like a store that keeps one document
for an owner and a content; the lookup alone would not, the constraint does. A blob
without a document may remain, of an upload that failed after `put`, and nobody knows its id.
The loser of a race gets an error, and the document when it tries again.

`Session` shows that the shared promise does what it is for: one refresh at a time, calls are
sent again once, and every call is settled. `SessionIsCurrent` and `RetryIsFresh` need
that no session begins or ends with other calls in flight (`crossed`): neither sign-out nor signing in over a
session aborts anything. A refresh that ends later brings the tokens of the old session back, under
the next user if one has signed in; a late 401 of the old session is retried with the tokens
of the next; and answers that overtake each other leave the older pair in the store.

`Canvas` shows that restarting the fetch on every acknowledgement is what keeps a tab true: once nothing
is under way, each of its drops was saved as a version and its data is as new, in whatever order refetches
and answers came. What it shows is more delicate. A tab that has moved nothing shows the symbol where its data
has it; one whose last drop was the last to be saved shows it where it is stored; in between a coordinate may be off
(see the disagreements below). A drag sends the size the tab knows and undoes a resize, but only one
the tab had not seen. A symbol has one property with a key however saves overlap, and a badge
"Saved" is true of what is stored unless a save failed, two were under way at once, or another tab
has saved since.

`Gateway` shows that a client gets its allowance, no more and no less, over every stretch of
time, through refusals and pauses; that racing registrations, in any capitals and beside
the seed script, leave one account whose password is the winner's; and that a search finds what
belongs to whoever signed in at the root of its tokens, although the roles are copied from token to token, the
owner is checked in one statement and the rows come from another. A search that sorts finds
the symbol it is for.

What the violated ones show.

* `LostCancel`: a handler reads the document, the user cancels, the handler commits and
  overwrites CANCELLED; the pipeline goes on to COMPLETED. `enums.py:88` allows no way
  out of CANCELLED, but `documents.update` does not go through `transition_to`.
* `RefreshRefused`: the refresh is posted through the same interceptor, so its own 401 waits
  for the promise that waits for it; the session is not cleared and every later call hangs
  until the page is reloaded. client.ts:25 says the session is cleared.

A handler can also take a symbol back to a version that is recorded. From then on every
edit is refused by `uq_symbol_version` (an IntegrityError), until another handler writes
a later version back or the symbol is rebuilt: `HistoryIsContiguous` says the version is recorded, and `CommitEdit` needs one
that is not. `EditsAreOptimistic` shows that handlers are the only cause.

More disagreements were met that no run checks.

*Leases and the queue.* `mark_succeeded` looks at the row's id alone: when the lease of a worker expires,
another runs the stage and the chain comes round again, the late commit of the first may mark a newly enqueued row
succeeded that nobody has run, and the document stays in its stage for ever. ADR 0005:45 excludes
a lost message. `handle_pdf_extract` deletes edges, symbols and pages in three statements: a second holder's
delete of the symbols may start before the first commits and its delete of the pages after, so the
symbols of both stay, where `stages.py:6` and README.md:226 say that a retry never duplicates data
(`RebuildsAreClean` speaks of runs that do not overlap). `reclaim_expired` makes a row pending whatever
its attempts, so a task that kills its worker is claimed beyond `task_max_retries`, where
README.md:191 promises bounded retries (`RetryBudget` counts it). Of two reprocess requests that read a
FAILED document, the second may commit after the first one's run has completed it, and writes QUEUED over
COMPLETED, for which `enums.py` allows no transition (`FollowsLifecycle` needs requests that do not overlap). A COMPLETED document whose
reprocessing is dead-lettered stays COMPLETED; ADR 0005:31 says it turns FAILED. An edit
that commits over a classification committed after its read replaces a state that no
snapshot has; README.md:228 says every edit snapshots the prior state (`SnapshotsPriorState`,
which holds without handlers). docs/02:132 says that the re-delivery of a
completed stage short-circuits: no handler looks at its task's row or the job's
`stage_status`, and a late holder commits the stage again and enqueues the next one again. README.md:228 counts property changes among
the edits that are versioned: `upsert_properties` writes no version. docs/02:110 and README.md:190 say
every transition writes an audit entry; the handlers before finalize write none.
services.py:24 says the highest-confidence token is
picked: confidence only filters, distance decides, and a token whose nearest symbol has a closer one
goes to a farther symbol, which `services.py:25` excludes in words. README.md:240 says the correlation id is threaded through all stages; the handlers
enqueue their successor without a payload (`stages.py:72`), so it ends with the first stage. The failure path locks the task's row and then the
document's, a handler that commits locks them the other way round (`runner.py:96`): the database
breaks the deadlock and the one it rolls back is, in `Pipeline`, `RetryLater` or `Crash`.

*Accounts, limits and search.* The docstring of `rate_limit.py` and the security guide speak of a limit per
principal: the key is a hash of the Authorization header, so every refreshed token has a full
bucket of its own, and buckets are never removed. The loser of two racing registrations is
answered 500, not 409. A 500 comes from outside the middlewares, without the headers that
the security guide promises on every response. A search that scans the HNSW index filters after an approximate
scan and may answer fewer than there are, or none; `test_symbols_graph_search_api.py:167` relies on the other plan.

*Canvas.* A drag whose request fails leaves the node where it was dropped, and nobody is told
(`ShownIsSaved` excludes tabs that had a failure). Nor need a tab with nothing under way and no failure show
what its data has: two tabs have the symbol at (0, 0), one drags it to (p, q), the other, which has not
seen that, straight down to (0, r); the first gets (0, r), whose x is what it rendered last, and keeps
showing (p, r). The same may happen to a tab whose two rapid drags are served in the other order, if the first left a
coordinate as it was. A drag carries the cached size and undoes a resize the tab
has not seen; a resize carries the place of the node and undoes another tab's drag. The panel calls the API without invalidating the query, so a symbol that is selected again
shows its former properties, and saving them deletes the newer ones; the badge stays after a later edit or
a save that fails. Two rows with one key fail at the constraint. All values are sent as strings, so a numeric
or boolean property loses its type. Two saves at once, at READ COMMITTED, merge different keys or fail on
`uq_symbol_property_key`, where `symbol_repository.py:80` says "Replace-set semantics". The
end of a node's drag bubbles to the stage, which takes it for its own. The poll of the status
stops at a terminal one and does not see a reprocess, the symbols are not refetched when processing
ends, and the dashboard, for which `frontend/README.md:18` promises live status, does not poll.

### Bounds

One document shows every race on a row, since the only thing documents share is a worker's
batch; `TwoDocuments` adds that (a batch of two rows with one lease, a crash that loses
both). Two workers are enough for a holder and a zombie, and for a reclaim while the
other is at work. Two attempts are needed for a retry; one suffices where retries are not
the point. One crash, one expired lease, one cancellation and one reprocess are each
enough to make the case happen; the theorems hold for any number of them. `MaxOverruns` counts
rows, not sweeps: one sweep may take several rows from one worker, and each of them is a
chance of its own to run a stage twice. `MaxOverruns = 0` in
`TwoDocuments` and `Settles` is the assumption that leases outlive the work they
cover, and they need it: see the queue among the disagreements above. A second concurrent reprocess
resets the attempts of a task under its holder, which is why `RetryBudget` and the
properties about chains speak of documents that were not reprocessed.

In `Artifacts` two rebuilds and a third give every pair of handlers that overlap and one
that comes after; two items on one page are the least that has an edge, and one of them has
a role, so that inferred and user edges differ. One page suffices: pages are inserted
and deleted together. `PageOf` and `Roles` are arbitrary in the theorems.

In `PageAnalysis` two of the boxes overlap a third by exactly the threshold and are apart from each other,
so that the order of the loop matters; four candidates meet a limit of three symbols. Tokens lie
at equal distances from two symbols, at the confidence that is just enough, and below it.

In `Uploads` three attempts are two that race and one that comes after, for any assignment of
owners and files. In `Session` two calls are one that starts the refresh and one that joins
it or comes late, or a login and a call of the session it replaces; three pairs of tokens allow a session, another one
over it or after it, and a refresh of either. `CallsSettle` speaks
of behaviours in which no refresh token expires.

In `Gateway` three requests are a registration, a sign-in and a search with its tokens, or two
registrations that race and one that follows. A bucket of one token and a minute of two ticks have a
request that is refused half a token short; access tokens live less than a tick and refresh tokens one, so both expire within the
clock. Two documents of two owners with two rebuilds are what a search must tell apart, and one
answer (`TopK`) or one scanned row (`Ef`) is where a LIMIT bites. The default limiter is the same
module with another rate.

In `Canvas` two tabs and two changes are every pair of edits or saves of one tab or of two; the refetches
between them are not bounded. Two axes with two coordinates each are a drop that brings back
neither, one or both, and two sizes a resize that a drag takes back. `MaxTroubled = 1` lets one tab
have any number of failures: the properties say nothing of what a tab that had one shows, and what it does to the other
tab is included. Two keys tell sets that merge from sets that collide.

In `Editing` two edits and a handler give every pair that races on one row; version 3 is
reached by two edits in a row, which a handler that started before them overwrites. The
theorems hold for any number of sessions and any bound on versions.

### Fairness

`Settles` assumes weak fairness only. A handler returns or raises, and its transaction
ends: each worker's own steps. `run_forever` polls for ever, a retry delay is at most
300 s and rows are claimed in the order of `run_after`, so a row that stays claimable is
claimed; it sweeps expired leases after every busy tick and every thirtieth idle one, so
a row that stays leased to nobody is reclaimed. Nothing is assumed of crashes (they are
bounded), uploads or users. `Session` and `RefreshRefused` assume that a request in flight is
answered in the end or that the browser gives up on it.

## Proofs

`Pipeline_proofs` proves, for every set of documents, workers and clients and every value
of the bounds:

* `TypeCorrect`: `Spec => []TypeOK`. `TypeOK` is inductive: its last conjunct says that a
  worker at work has its claim in its batch, which gives every handler a document.
* `StatusIsBacked`: `Spec => [](TerminalIsAudited /\ StatusIsEarned)`. Neither is inductive,
  because a commit writes a status from memory. `HistoryInv` says of every copy of a
  status, in the database, in a worker and in a request, that it is backed: the row of the
  stage that earns it exists and, if it is terminal, its audit entry does. No step removes
  a row or an entry, so a copy stays backed however late it is written (`BackedStays`);
  what each action adds is its own new status (`HandlerHistory`, `BuryHistory`,
  `ApiHistory`).

* `RetriesAreBounded`: `Spec => []RetryBudget`, with leases that expire under their holders. A
  late holder may commit its stage and enqueue the next one anew, so nothing about a
  single row is inductive: its attempts go back to zero while others still hold claims of
  it. `RetryInv` bounds the parties instead. A document has one chance to be worked on plus one for
  every row that overran (`Chances`: rows that are queued or leased, and claims that have lost
  their row); a commit consumes the chance it makes. A task's attempts, made and to come,
  exceed the limit by no more than the crashes and overruns (`Paid`: to its attempts are added
  the claims that would still retry it, and one while it can be claimed). When a row starts afresh,
  the chances of its document pay for it (`PaidAfresh`).

With leases that outlive the work (`MaxOverruns = 0`), the regime the queue is designed
for, and with any crashes, failures and retries:

* `SerialPipelineIsSafe`: `OneStageAtATime`, `ClaimsAreExclusive`, `JobTracksQueue` and
  `NoStrandedDocument` hold for ever, whatever is cancelled. The inductive invariant,
  `SerialInv`, describes one document that was not reprocessed (`SerialDoc`): at most one
  live row (`OneLive`), whose stage is the one the document's status waits for (`InStep`)
  or after a cancellation; every claim is the lease of its row, attempt for attempt
  (`Leased`); a worker that has read the document has missed nothing but a cancellation
  (`Aware`); a dead letter ends the chain (`DeadIsLast`). None of the
  four properties is inductive without it: that a handler's commit does not fork the chain,
  for instance, needs that the claim is a lease, that no other row is live, and that the
  status it read still stands. Most steps concern one document, and `Frame` says that the
  others keep their invariant; `Alone` says that whoever has a document's task at hand is
  alone with it, which is what makes the commits (`ChainsSerial`, `EndsSerial`) safe.
* `PipelineImplementsLifecycle`: without cancellation, and as long as no two requests for one document are in
  flight at once (`RequestsApart`), the pipeline implements `DocumentLifecycle`, for any number of
  reprocess requests. The mapping is the identity on `status` and `audit`; a step of the pipeline is one
  action of the lifecycle or a stutter (`LifecycleStep`). It needs that whoever writes a
  status has read the one that stands: `LifeInv` says so of every worker and request (`WorkersKnow`,
  `RequestsKnow`), and that a document has one chain until it is COMPLETED (`OneChain`). After
  that its chain may fork, and whoever has read COMPLETED writes COMPLETED back. Each hypothesis is
  needed: `LostCancel` shows what a cancellation does, and two overlapping requests take a document out of
  COMPLETED (see the disagreements above). `OneClientImplementsLifecycle` states it as
  `Spec => FollowsLifecycle` for one client, whose requests never overlap.
* `QuietCancelIsFinal`: the condition under which `CancelledIsFinal`, which `LostCancel` refutes, holds:
  a cancellation commits when no handler or failure transaction has the document at hand and no
  reprocess request for it is in flight (`QuietCancel`). Nothing is asked of leases, crashes or other
  requests. The invariant, `CancelStands`, says that whoever is at work on a cancelled document has
  seen that it is; it is kept because every transaction that starts work reads the status first
  (`ReadersKnow`) and one that has read CANCELLED does not change it (`CancelKept`).

`SymbolEditing_proofs`, for any sessions, values and bound:

* `EditingTypeCorrect`: `TypeOK` holds, with the row lock in it.
* `HistoryIsSound`: `HistoryIsContiguous`, `EditLeavesEditable` and `OnlyHandlersRollBack`.
  A commit writes a version that was read earlier, so the invariant, `VersionInv`, says of
  every version in some session's memory what `HistoryIsContiguous` says of the row's: all
  versions below it are recorded. From it follows `CommitEditVersion`: an edit whose version
  is not recorded yet has the newest one there is.
* `EditsAreOptimistic`: without handlers `SnapshotsPriorState` holds and every symbol stays
  editable, by an invariant (`AloneInv`) that says a request remembers the current row or a
  version that is over. A handler that commits between the read and the commit of an
  edit breaks it, which is why the assumption is needed.

`Artifacts_proofs`, for any items, pages, roles, workers, users and bounds:

* `ArtifactsTypeCorrect`: `TypeOK` holds; in it, what a worker has deleted is still there.
* `TablesAreSound`: `NothingDangles` and `PagesOfOneRun`. The invariant, `TablesInv`, adds
  what makes a commit safe: no row is deleted by two transactions (`DeletesAreExclusive`), and
  whoever has deleted a symbol has deleted every edge of it, and nobody can add one until he
  commits (`CascadeInv`).
* `SerialRebuildsAreClean`: `RebuildsAreClean` and `CompleteIsSearchable`. The invariant,
  `CleanInv`, follows a lone worker (`Alone`) through its statements: what it has deleted so far is all there
  was (`Current`), so that its inserts start from a clean slate, and symbols without a
  vector have their embed task ahead of them (`EmbedIsDue`).

`PageAnalysis_proofs`, for any pages, thresholds and limits:

* `PageTypeCorrect`: `TypeOK` holds.
* `LargestDetectionsWin`: `SuppressionIsSound`. `CoverInv` says what the loop has covered so far,
  and that what it keeps is no smaller than what is to come.
* `ClosestPairingsWin`: `AssociationIsStable`. `StableInv` says that every pair considered is satisfied
  and that every pair left is at least as far apart as those associated.
* `InferredEdgesAreSound`: `EdgesAreSound`, which is `RolesHaveEdges` and `NoTriangles`. That there is a nearest symbol in every
  order is `NearestExists`; three edges in a circle would be equally long, and each would
  have to be the first of the list for the next (`NearestIsUnique` is the same argument for two).

* `HopsNest`: `NeighboursNest`, for any graph and depth. The traversal is a recursive function
  of the hops; that there is one, and that two agree where both are defined, follows from the least
  depth that would have none (`WithinExists`, `WithinAgree`), and so `ReachableGrows`: one more
  hop adds what is an edge away.

`Uploads_proofs`, for any owners, contents and number of uploads:

* `UploadsAreSafe`: the invariants of the run, `TypeOK`, and that no client is told of a blob without a
  document (`OrphansAreUnknown`). `UploadsInv` says of every row and object which
  upload it comes from and how far that upload must be (`Provenance`), and of every upload
  what its next step relies on (`Prepared`).
* `UploadsImplementStore`: `Spec => ImplementsStore`. The commit of an upload is `Create`, its
  answer, or the lookup that finds a document, is `Tell`; every other step is a stutter. It
  needs `OneDocument` and `AnswersAreTrue`, and that the id of an upload that commits is no
  document's yet.

`Gateway_proofs`, for any rate, clock, keys, requests, emails, documents and lifetimes of tokens:

* `LimiterTypeCorrect`, `AllowanceIsKept`, `RefusalsAreDeserved`: `TypeOK`, `WithinAllowance` and
  `RefusalIsDeserved` of `RateLimiter`. The invariant, `LimiterInv`, is an account: since any time, what a
  bucket has and what was served add up to no more than a full bucket and what was refilled (`Accounted`),
  and since the last time it was full to just as much (`Earned`). The first gives the upper bound, the second the
  lower one.
* `GatewayImplementsLimiter`: `GatewaySpec => Spec`. Every step of a request uses its bucket as
  `RateLimiter` says or leaves it, so `GatewayLimits` carries both bounds over.
* `GatewayTypeCorrect`, `AccountsAreUnique`, `RegistrationsStand`, `SearchesAreScoped`: `GatewayTypeOK`,
  `OneAccountPerEmail`, `RegistrationsAreTrue`, `HitsAreAllowed`. `GatewayInv` says of every request that an
  account it has stored stands with its password (`RegisterOK`), that its tokens are of the account that
  signed in at their root and of that account's role (`TokenOK`), that tokens it carries were issued
  (`CarriesOK`), and that what it has found its tokens own (`HitsOK`). Accounts, finished requests and tokens
  are never taken back (`Grew`), so one step disturbs the conjuncts of one request (`OthersKeep`).
* `SearchFindsItself`: `SelfIsFound`. `SelfInv` says that there are finitely many rows, and that a search that is
  ready may see the document of its symbol (`ReadyOK`), so that the filters let the symbol through; among
  finitely many rows the nearest have the vector if any has (`NearestHasEqual`).

`ApiSession_proofs`, for any calls, users and numbers of tokens and reloads:

* `SessionTypeCorrect`, `RefreshIsShared`, `RetriesAreFresh`, `SessionFollowsUser`: `TypeOK`,
  `SingleFlight`, `RetryIsFresh`, `SessionIsCurrent`. `SessionInv` says that whoever waits waits for the
  refresh under way and was sent once (`CallOK`), that the request in flight is that refresh
  (`PostOK`), that tokens on their way were issued and go to a refresh or a login (`ReplyOK`), and what holds
  while no session has begun or ended with other calls in flight: the tokens in the store, in calls and in the refresh are
  the user's (`SessionOK`), those a call was sent with no newer than the session's, and those a refresh
  brings newer. An answer may be long on its way and another overtake it, so that the last follows needs that
  no other login has arrived meanwhile, which is what `crossed` says.

`CanvasPage_proofs`, for any tabs, keys, axes, lengths and number of changes:

* `CanvasTypes`, `QuietTabShowsSaved`, `BadgeIsTrue`, `DragKeepsFreshSize`: `TypeOK`, `ShownIsSaved`, `SavedIsTrue`,
  `OnlyStaleDragsResize`, by one invariant, `CanvasInv`. Versions order what a tab has: an answer under way is no
  older than the cache (`DataInv`). A tab's own committed edit is in its cache or is coming (`EditInv`,
  `Brought`): the acknowledgement restarts the fetch, so an answer from before the edit never
  counts as the last. A coordinate of a node that is not the
  data's is that of the tab's last drop (`NodeInv`, axis by axis): data that comes either changes the prop and moves the node, or leaves
  it. No drop was committed since the one that has put the symbol where it is (`MoveInv`), and data from after its commit
  has its place (`Known`), so a tab whose last drop it is shows it on both axes. Saves that do not
  overlap are committed in the order they are made, and each deletes all the rows of the one before (`SaveInv`).

The proofs assume the named assumptions of the modules and the hypotheses the theorems state, nothing
else. Every invariant, action property and refinement that a run checks is stated by a theorem. Only model-checked is
liveness (`EverythingSettles`, `CallsSettle`), which is out of the prover's reach; `CancelledIsFinal`
and `RefusalClears` are false as they stand.

## Plan

Done: `Pipeline`, `SymbolEditing`, `Artifacts`, `PageAnalysis`, `Uploads`, `Gateway` with
`RateLimiter`, `ApiSession` and `CanvasPage`, each with its proofs. Left, in this order:

1. Row locks (`runner.py:96`), as steps of `Pipeline`.
2. The polling of the status and the pages beside the canvas.

## Not modelled

Image processing, OCR and embeddings, the PDF parser, hashing and signatures: libraries, or numeric
code whose results are the inputs of a module. Headers, metrics, serialisation and the routes
that only read. The dashboard, the graph page and the theme. Migrations and deployment, but for
the constraints and the index a module reads from them. They keep no state that interacts
with the rest.
