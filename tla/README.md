# RecallForge in TLA+

RecallForge is a knowledge base service: it parses and chunks uploaded documents,
keeps their versions in PostgreSQL, embeds the chunks, and answers questions from
them with references. These modules model the parts where several requests,
transactions and external providers meet, check them with TLC on small instances,
and prove the central properties with TLAPS for instances of any size.

Paths below are relative to `src/` of the repository (`recallforge/...`, `docs/...`).

## 1. The system

| Component | State it keeps | Operations | What is hard about it | What makes it correct |
|---|---|---|---|---|
| Ingestion service (`ingest/ingest_service.py`) | the ingest job, an advisory lock per tenant and source | `ingest_document`: create job, mark running, parse, one transaction that deduplicates, supersedes, numbers, inserts, marks success | four transactions per call, any of which can fail; cancellation; the acknowledgement of a commit can be lost | content is stored once, jobs tell the truth, a served source stays served |
| Document versions (`storage/repository.py`, `models.py`) | documents, parent and child chunks with a status and a version | supersede, restore, delete, number, lock | uploads take the advisory lock, restores and deletions do not; READ COMMITTED re-evaluates rows after a wait | one active version, versions without gaps, chunks follow their document |
| Embedding backfill (`embeddings/backfill.py`, `storage/pgvector_store.py`) | vector columns, counters of a run | read a batch, embed, lock, check, write, commit | chunks are read without a lock and written after a slow provider call; rows are locked in no order | only active chunks get vectors, counters are honest, a full run misses nothing |
| Knowledge-base governance (`api/governance_service.py`, `governance/`) | knowledge bases, members, audit events | create, update, archive, delete, delete a document, upload through a base | checks and changes in different transactions; names that only an index keeps apart; swaps that deadlock | names unique, changes and events together, denials recorded |
| Knowledge service (`api/knowledge_service.py`, `api/answering.py`) | none of its own | ingest with its backfill, retrieve, context, answer | the answer is generated between two transactions | a response agrees with the query log |
| Retrieval (`retrieval/`) | the query log | filter, search, read chunks, rank, refuse, expand to parents, assemble, log | every statement sees another snapshot; a handler that writes a second log after a failure; request ids that repeat; a block that is counted in one form and sent in another | nothing retired or out of scope is cited, references are sound, the context is accounted for, the log is a record |
| Embedding and reranker providers (`embeddings/alibaba_bailian.py`, `retrieval/reranker.py`) | time of the last request, last retry count | embed and rerank with retries and throttle | failures in the middle of a question or of a run | retries bounded, a failure is told apart |
| Parsers (`chunking/parsers/`, `mineru_parser.py`, `pdf_parser.py`) | a task at the MinerU service | try parsers until one yields blocks; create, upload, poll, download | a service that is slow or gives broken archives, a caller that gives up while the thread runs on | what was tried is recorded, every parse ends |
| Document passes and template chunkers (`chunking/core/`, `chunking/chunkers/`, `chunking/postprocess/media_context.py`) | none between calls | drop layout noise, build the section tree, guess the kind of document, group blocks into parents and children, attach media context | walks with several things open at once (a group, a child, steps, an article) that must all be closed in reading order | no text lost or repeated, sections and pages agree, the package is what postprocessing takes for granted |
| Postprocessing (`chunking/postprocess/`) | none between calls | repair, merge, split, map to rows | passes that rewrite the list they walk over | no text lost, repeated or reordered; both sides of parent and child agree; limits kept |
| API, schemas, authentication (`api/`) | none | routes | a request id may come from a header or a token | each request has its tenant, user and id |
| Console, configuration, migrations, logging | none | - | - | - |

How they interact. An upload goes `GovernanceService.upload_document` (role, audit)
-> `KnowledgeService.ingest_document` (base resolved in a transaction of its own) ->
`IngestService.ingest_document` (job, parse, persisting transaction) ->
`EmbeddingBackfillService.backfill` (batches) -> audit event, each step in transactions
of its own and none undoing an earlier one. A question goes `KnowledgeService` (scope)
-> `RetrievalService.retrieve` (one transaction around provider calls) -> answer
provider -> a second transaction on the query log. What they share is the database:
documents that one request retires are being embedded, listed or cited by others.

## 2. Modules

| Module | What it is |
|---|---|
| `DocumentVersions` | abstract specification: the version history of each source, every operation atomic |
| `Ingest` | uploads, restores and deletions as interleaved statements of PostgreSQL transactions |
| `IngestProperties` | its properties, and the refinement mapping to `DocumentVersions` |
| `IngestInvariant` | `Consistent`, the inductive invariant |
| `IngestProofs` | proofs of the invariants, of the action properties and of the refinement |
| `Lists`, `ListProofs` | selections and folds that can be reasoned about, and the facts about lists that the proofs share |
| `Backfill`, `BackfillProperties`, `BackfillInvariant`, `BackfillProofs` | the embedding runs, their promises, the inductive invariant `Sound`, the proofs |
| `KnowledgeBases`, `KnowledgeBasesProperties`, `KnowledgeBasesInvariant`, `KnowledgeBasesProofs` | the governed requests on knowledge bases, their promises, the inductive invariant `Governed`, the proofs |
| `Scope` | filters of a client, and those made of who asks: departments, access levels, bases |
| `Evidence` | from ranked chunks to the context within its budget, the references, and the citations of an answer |
| `Retrieval`, `RetrievalProperties`, `RetrievalInvariant`, `RetrievalProofs` | questions, with `Scope` and `Evidence`, and the query log; their promises; the inductive invariants `Kept` and `Found`; the proofs |
| `Blocks` | the blocks of a parsed document, and what the regular expressions tell apart in them |
| `Parsers` | how the adapters turn what a parser reports into blocks |
| `Sections` | layout noise, the section tree, the kind of document |
| `MediaContext` | the captions and neighbours of a table or figure |
| `Chunkers` | the nine template chunkers |
| `Chunking`, `ChunkingProperties`, `ChunkingInvariant` | the call of the pipeline up to the chunker: fallback chain, MinerU task, passes, and the caller that waits |
| `ParsingProofs`, `ChunkingProofs` | the proofs about parsers and documents; then about what the template chunkers make of them |
| `Texts` | texts as sequences of tokens, and how an overlong one is cut |
| `ChunkPackage`, `ChunkPackageProperties`, `ChunkPackageInvariant` | the passes over the chunks of a document, up to the mapping to rows; their promises; the inductive invariant `Passing` |
| `ChunkPackageProofs` | what one edit does to any text, list of chunks and list of parents; then the proofs about the passes |
| `MCIngest`, `MCBackfill`, `MCKnowledgeBases`, `MCRetrieval`, `MCChunking`, `MCChunkPackage` | instances for TLC |

Operators whose comment starts with "Mutation" or "Mutant" are wrong variants of the
definition that follows. They are in no specification; substituting one shows that a
property notices that bug.

### Correspondence with the code

**PostgreSQL.** Transactions run at READ COMMITTED. A statement that changes rows is
modelled in two steps: its snapshot picks rows; when no other transaction holds them
any more, the WHERE clause is evaluated again on what they have become. Row locks,
the transaction-level advisory lock and the entries of unique indexes are held until
commit or rollback. An insert with a key that another open transaction wrote waits
for that transaction. A row read FOR UPDATE is read afresh: SQLAlchemy's identity map
holds rows weakly and no object is kept across those statements. PostgreSQL itself is
external to the repository and is modelled from how the code uses it.

**Ingest.** A call of `ingest_document` is named by its job and so is the row it
inserts. `CreateJob`, `MarkRunning`, `ParseReturns`/`ParseRaises`, `AcquireLock`,
`FindDuplicate`/`FindNoDuplicate`, `LockScan`/`LockRows`, `SupersedeScan`/
`SupersedeRows`, `NextVersion`, `InsertRow`, `CommitIngest`, `CommitSkipped` follow
the statements; `PersistRaises`, `MarkFailed`, `MarkFailedIsLost`, `MarkRunningRaises`
and `Abandon` are the error paths (`except Exception` does not catch a cancellation).
A restore numbers before it supersedes and holds no advisory lock; a deletion locks
one row. `status` and `chunks` are what is committed.

**Backfill.** `StartRun` is a call with any limit and force, `StartUploadRun` the one
after an upload (`KnowledgeService._maybe_backfill`). `ReadBatch` reads without locks
and in any order, `EmbedReturns` is the provider, `LockRow` locks one row at a time,
`CheckBatch`/`Conflict` is the second look at the status, `CommitBatch` commits and
counts. `BatchFails` and `BatchRaises` separate the failures that are counted from
those that leave the loop. `RetireBegins`/`RetireCommits` are the supersede and delete
transactions of `Ingest`, reduced to the chunk rows they lock. A document that is
published may have vectors already, because a restore copies them.

**KnowledgeBases.** Each request is a sequence of steps at the granularity of its
transactions and of the statements that can wait. `Forbid`/`RaiseDenied` write the
denied event and roll it back with the error. `MarkBase` ... `CommitDelete` is
`delete_knowledge_base`, with its list of at most `DeleteLimit` documents. `Resolve*`
and `CreateDefault` choose the base of an upload, `StoreDocument` stands for the
whole of `Ingest`, `AuditUpload` comes after it in its own transaction. `CommitArchive`
makes a deleted base archived, as the code does; the default base created by an upload
has no event; a user who is no member of the default base cannot upload without naming
one (`DefaultConflicts`). `EditDocument`, `EditNone` and `CommitEdit` are `update_document`:
which metadata it writes is left out, but each document remembers the call that changed
it last (`by`), so that `AuditIsTrue` can ask for that call's event. `Reindex` writes its
event and nothing else, whatever the request says.

**Retrieval.** A call picks who asks, the keys of its filters and its bases;
`RejectFilters` refuses keys that are the server's alone before anything is logged,
`RejectQuestion` a question that query understanding refuses. `Search` and `ReadChunks` are
two statements with the documents published, retired (`Ingest`) and relabelled
(`update_document`, `Relabel`) between them. The search matches department, access level
and base (`Scope`); the later reads look at the status again, but not at labels, so a document
that moves to another department during a question is still cited. Ranking is any
order of at most `FinalTopK` hits, because reranker and vector scores are outside; `Retry`
is another request to a provider that is overloaded, `EmbeddingFails` the end of
them. `Expand` keeps the best chunk of each parent, `ReadParents` reads the parents that
are still active, `AssembleContext` fills the budget: a block that does not fit is counted in
its compact form and the context marked as truncated, while the text of the context is
always made of full blocks. `WriteLog`/`CommitLog`/`LogConflicts` are the insert into
`rag_query_logs` under the unique `request_id`; `Break` is every failure that aborts the
transaction and with it the handler's own log. `Generated` is what the answer generator
can give: citations that were invented or are missing are repaired once or
turned into a refusal. `UpdateAnswer` is the second transaction. A retired
document that is restored during a question is left out, and so is the resolution of
the bases of a request, which `KnowledgeBases` has.

**Parsers.** An item is one thing a parser reports of the file. `DoclingBlocks`,
`StructuredBlocks`, `MinerUBlocks`, `MarkdownBlocks`, `PyPdfBlocks`, `TextBlocks`, `RowBlocks` are walks over
the items (`Scanned`) with one step each (`DoclingRead`, ...), which carry the path of headings, as the adapters do. A line is a class, with
what the expressions of all templates can tell apart (`Blocks`), and a text is
a sequence of the pieces that could get lost: the label, the rest of the line, further lines.
An item has one line or several (`more`), and the readers differ in what they make of the further
ones: a title in Markdown with text on the next line is none, a line that `text_file` reads as a
heading takes the lines below it along, pypdf joins the lines of a paragraph (`Unwrapped`). The last
line may end like page junk, a reference number or the name of an edition ("mark").

**Chunking.** `stage` runs through `parse_to_chunk_package` up to the chunker. `PassOver`,
`ParserReads`, `Refuse` are an iteration of `_parse_with_fallback`; when MinerU is next the
iteration is a task at its service: `TaskCreated`, `Uploaded`, `Pending` until `PollLimit`,
`Finished`, `DownloadBreaks` up to three times before `curl`, `ArchiveRead`. `Unreadable` is
the content list with a figure that has neither words nor caption: its text is None, and
`.strip()` of it throws the whole document of MinerU away. `CallerGivesUp` is
`asyncio.wait_for` of the ingest service: the thread runs on, and its package is for nobody.
`CleanNoise` takes page furniture out, `BuildSections` places every block (`PlacedBlocks`), makes
the tree (`TreeOf`: the code does both in one loop, neither of which looks at the other's result),
warns and guesses the kind; `ChunkDocument` is a template of `Chunkers`, each of which is a walk
with an open group over the blocks of the document and another with an open child over
those of a group. In `contract_terms` a marker without text of its own ("Article 3")
goes to the best text beside it; `PageJunk` is dropped: a page number, and a text of at most `JunkTokens`
(120 characters in the code) that ends like page junk; and a child of nothing but headings of
one line (`BareHeading`) is given up when it is closed (`Substantive`), while a heading with lines below
its first one keeps its child. `Context` is `attach_media_context`. Identical blocks, several
sheets, font sizes and bounding boxes beyond the band of the page, and the serialisation of tables are left out.

**ChunkPackage.** `pass` runs through the passes in the order of `parse_to_chunk_package`;
each action is one iteration of the loop of a pass, with what it does to the list it
walks over: `LeavePair`, `MovePunct`, `JoinPair`, `LeaveParent` are `repair_boundaries`,
`LeaveAcross`, `JoinAcross` the repair across parents, `MergeSmall`, `Split` the other two,
and `Store` is `build_chunks_for_ingest`, which raises on links that do not agree. A text is a
sequence of tokens that remember their block and place. What the regular expressions
tell apart is a class of how a text `starts` and `ends`; that a list item, soft
punctuation or a box at the foot of the page is continued by anything is the one class
`soft`. Bodies are CJK text, where a character is a token; the 1.3 tokens of a Latin
word and the hyphen between two lines are left out. A child comes with one block and one
page, siblings next to each other in the order of their ids, as the chunkers emit them
(`PackageReadable` of `ChunkingProperties`); a parent may have no children, as the
chapter of a contract whose markers all went elsewhere. `LinksAgree` shows that siblings stay so,
which lets `Of` read them off the package. `PackageWarnings` is what `validate_chunk_package` reports.
A chunk with a table or figure has one of three kinds, by what its type is to the passes: "media" is protected
by all of them, "rows" (a row group) by the last one, "inline" by none: `manual_troubleshooting_table`
and `qa_pair` are in no `PROTECTED_TYPES`. The validator warns of "rows" and "inline". `WordBatch` is `_FALLBACK_WORD_BATCH`, scaled down.

## 3. Runs

| Run | Instance | Question |
|---|---|---|
| `ingest` | 2 uploads, 1 restore, 1 deletion, 1 source, 2 hashes, all faults | type, versions in order, content stored once, chunks follow, jobs match, no collisions, nothing comes back, served until deleted, refinement of `DocumentVersions`, every call ends |
| `ingest_raised` | 2 uploads | violated: `ingest_document` can raise with its job pending or running (`docs/M2-design.md:462`) |
| `ingest_skipped` | 2 uploads, 1 deletion | violated: an upload is skipped for a document that is deleted when the job commits (`docs/M2-design.md:657`) |
| `backfill` | 2 runs, 1 retirement, 1 document of 2 chunks, batch of 2, limit 3 | vectors to active chunks only, honest counts, full runs leave nothing, every call ends |
| `backfill_single_pass` | 1 run, 1 document of 3 chunks, batch of 2 | violated: the run after an upload stops after one batch, without a failure |
| `kb` | any 2 requests and a renaming, 2 users, 2 bases at first, 2 names, 2 documents at first, a list of 1 | names unique, leftovers explained, changes and audit events agree, every call ends |
| `kb_denied` | 2 retrievals | violated: a denied retrieval leaves no audit event (`docs/M6-design.md:824`) |
| `kb_deleted` | any 2 requests, a list of 3 | violated: a document is stored in a base that was deleted meanwhile (`docs/M6-design.md:881`) |
| `retrieval` | 2 questions, 2 request ids, 2 documents in 2 bases, 3 chunks in 2 parents, at most 2 ranked, a budget of 6 tokens, 1 retry, citations repaired | responses agree with the log, references sound and in scope, the context accounted for, the log is final, every call ends |
| `chunking` | for each template all documents of up to 3 of its items on 1 or 2 pages, longer ones, all contracts of up to 3 of 8 headings (of one line, of several, short, long), texts and tables, contracts with texts that end like page junk, titles of several lines in three readers, and 4 documents in every state of the parsers; children of at most 4 tokens, junk of at most 3, 2 polls, a caller that gives up after 1 | fallback recorded, document valid, text placed, package readable, overlong for a reason, media alone with their context, every parse ends |
| `pypdf_three_pages` | a PDF of three pages | violated: every line at the edge of a page counts as a header or footer (`pdf_parser.py:139`) |
| `chunk_package` | all packages of up to 3 children of 15 shapes over parents and pages, with or without a parent that has none, at most 5 and at least 4 tokens, word slices of 8 | no text lost, repeated or reordered, both sides of parent and child agree, sources named, protected chunks untouched, leftovers of every pass explained, every loop ends |

The violated runs are disagreements between code and documents and are listed under
`findings` of `PROJECT.json` with the lines of both.

**Bounds, and why they are enough.** There is no counter in the models that needs a
bound of its own: versions are bounded by the calls that store one, counters of a run
by its limit, and each call runs once. *Ingest*: the hazards need two uploads
of one source (which the advisory lock orders) and a restore and a deletion (which it
does not), each coming between or after the others; sources do not interact except
through disjoint locks, so one suffices, and two hashes tell equal from different
content. *Backfill*: two chunks with batches of two and a limit of three give a full batch, one
cut by the limit and an empty one, for two runs that overlap; `backfill_single_pass` has the third chunk. *KnowledgeBases*: two requests
of any kind reach each pairwise race; the renaming comes between them, and with another
renaming swaps two names; a list of one leaves a document over. *Retrieval*: two questions share an id or do not; two chunks of one
parent and one of another tell grouping from ranking; two documents are retired,
published and relabelled at different moments; the budget of six tokens holds one full block
and another one in full, in part or not at all; an answer cites one number too many.
*Chunking*: a walk looks at a block, the one before and what is open, and three items
open, interrupt and close each thing a template keeps open; the longer documents are
contracts without chapters, texts between two markers and words that return on pages. Headings of contracts
come with and without lines below the first, followed by a heading, a text that fits or does not,
a table or nothing, so that a child of headings is given up or kept in each way; texts that end like
page junk are just as long as junk may be, or longer. *ChunkPackage*: every step looks at two neighbours, and a
third is what comes next when one of them goes; the shapes have each kind, tables of all three among them, each class of start and
end, texts below the minimum and above the maximum, of one word and of several, with
a heading shorter and longer than the maximum, a running header, and nothing but
punctuation; 8 is halved twice before a slice fits. The proofs have none of these bounds.

**Deadlock checking** is on for `Ingest`, `Backfill`, `Chunking` and `ChunkPackage`: they stutter
explicitly (`AllOver`, `Over`, `Stop`) when every call is over or has not begun, so any other stop is
an error. `ChunkPackage` needs no fairness: `LoopsEnd` says that each iteration leaves less
to do, so with no deadlock the passes come to `Store`. In
`KnowledgeBases` and `Retrieval` a finite set of requests really ends, and `EveryCallEnds`
says that none stops half-way.

**Fairness.** Weak fairness of the steps of each call that has begun: the event loop
schedules it, parses and provider calls have timeouts (`ingest_parse_timeout_seconds`, the HTTP clients'
timeouts), and PostgreSQL wakes who waits for a lock. Faults are never fair: a wait
that only a fault could end counts as a deadlock. Where row locks can form a cycle
(`Backfill`, and two renamings in `KnowledgeBases`) PostgreSQL's deadlock detection is a
step of its own (`BreakDeadlock`, `AbortDeadlock`), and it is fair because
`deadlock_timeout` is. Beginning a call is never fair. In `Retrieval` fairness covers the wait before a
provider is asked again. In `Chunking` the thread is fair (`Attempt`, and `PassEnds` for the
passes, which is enabled whenever one of them is); a MinerU task that stays pending
ends because polls are counted.

## 4. Proofs

TLAPS checks every proof for any sets of calls, sources, hashes, documents and chunks
under the assumptions named in the modules: kinds of calls are disjoint, `None` is no
value, every chunk has a document and every document a chunk, sizes are positive, a
question searches finitely many chunks (`ChunksAreFinite`: they are rows of a table), and a
body of a chunk starts like a text and not like what the page puts around it
(`ShapesAreChildren`: those are leads of their own), and what a parser calls a heading, or reads as
one, has a title (`JobsAreFiles`: a title is what stands on such a line, and
a page number or another class that is of a whole text has no line below it).

*Ingest* (`IngestProofs`). `Consistent` is the inductive invariant.
The properties are not inductive by themselves: that versions stay in order after
`CommitIngest` depends on what the transaction learned earlier. So `Consistent` adds
what each location of a call knows: the lock it holds (`LockHeld`), that rows it locked
are still as it found them (`RowsHeld`, `RowsPicked`), that all numbers below its own
are taken (`NumbersTaken`), that it alone has an inserted row and holds what is active
(`InsertedAlone`), that no duplicate has appeared since its check (`NoDuplicateYet`,
`UploadsKnow`), and what the job row says meanwhile (`JobFollowsCall`). From it follow
`TypeOK`, `OneActive` (proved only, since `ImplementsHistory` would fail with it), `VersionsInOrder`, `ContentStoredOnce`, `ChunksFollowDocument`,
`JobMatchesDocument`, `UploadsDoNotCollide`; with it as an assumption on the state a step
starts from, `NothingComesBack` and `ServedUntilDeleted`; and `ImplementsHistory`: `Init`
maps to the abstract `Init`, and every step to a publication, an erasure or a stutter.

*Backfill* (`BackfillProofs`). `Sound` says that a transaction in its locking phase has
locked or has still to lock just the rows it named (`LocksHeld`), that a batch that was
checked stays active because whoever retires it needs its rows (`CheckedIsActive`), what
the counters are at each location (`Accounted`), that a batch shorter than asked for has
all that was left (`NothingMissed`), and that what a run has seen never becomes active
again (`SeenIsStored`). From it follow `TypeOK`, `CountsAreHonest`, `FullRunLeavesNothing`
and `VectorsGoToActiveChunks`.

*Retrieval* (`RetrievalProofs`). `ResponsesAgreeWithLog` compares what a caller was told
with a row that other calls may race for, and is not inductive. `Kept` adds that a row is
complete and names a call (`RowsAreComplete`), that a call has an id and a result where it
needs one (`CallsGoOn`), that of the calls with one request id only one is about to commit
its row, and finds none there (`KeyIsHeld`: the insert waits for the unique key), and that
from the commit to the answer the row is the call's own, as it was written (`RowIsOwn`).
`ResponsesAgreeWithLog` and the action property `LogIsFinal` follow. `Found` is about the
search, and inductive where `Kept` holds. It adds to `TypeOK` that hits are ranked once and no
more of them than were asked for (`RankedOnce`), that what is ranked was in scope when the call
searched and not retired when it read the chunks (`RankedIsVisible`), and that a result still is
what the ranking gives (`Assembled`): the rows of other calls may have changed meanwhile. What
remains is a statement about two folds, for any list of ranked chunks. `Expand` is shown to
keep the places of the ranking, `AssembleContext` those of the candidates, and after each
candidate the count is within the budget and at most what will be sent, is less only if the context
is marked as truncated, and whoever was left out did not fit. From these follow
`ReferencesAreSound` and `ContextIsAccounted`.

*Knowledge bases* (`KnowledgeBasesProofs`). `Governed` is the inductive invariant: a row
has one holder (`RowsHeld`), the ids given out to a call are free until it uses them
(`IdsAreFree`), what a call is doing at each location, and that the base and the documents it
is about exist (`BaseKnown`, `WorkKnown`), that a deletion has everything it found in its list
unless that is full (`ListKnown`), that who is about to write a name is alone with it and no
active base has it (`KeysHeld`: this is what waiting for `uq_rag_kb_tenant_active_name`
gives), and that events are of calls that are over (`EventsCommitted`). Most steps write no
table, and one lemma (`ReadingStep`) says what is left to show of them; for those that do
there is a lemma on the rows of others (`OthersStillKnow`), on names (`NamesWritten`) and on
events (`AuditKept`). From it follow `TypeOK`, `ActiveNamesUnique`, `LeftoversAreExplained`
and `AuditIsTrue`, for any number of calls; it needs that the initial bases have different
names and that sequences give new ids (`FirstBases`, `IdsAreNew`).

*Parsing* (`ParsingProofs`). `ChunkingInv` is the inductive invariant. `Chain` says that what was
tried and what is still to be tried make up the priority list, that every parser tried so far was
warned of, that MinerU is the parser whose turn it is as long as its task runs, and what is
accepted; `FallbackRecorded` follows. `Serving` bounds the polls and downloads of a task. `Passes`
says that what a parser made of a file is `Orderly`, and that the document is from then on what
the passes so far make of it. The work is in the facts about those:

- For each adapter a lemma (`DoclingOrderly`, ..., `PyPdfOrderly`) shows that its walk over any
  items makes blocks that are sound, with ids that grow, none of whose text is of a later
  item; for the markdown of MinerU the last block grows while later items are read (`GrownOrderly`).
- `PlacedAll`: removing noise and placing keep that, and every block gets a path of titles that are
  not empty, whatever headings repeat, jump levels or are missing (`PathWith`, `CleanPath`).
- `TreeWhole`: the tree of the first n blocks lists just the prefixes of their paths, spans their
  pages and holds the blocks whose path it is; by recursion on n, each step being `EnsureNext`.

`TypeOK` and `DocumentValid` follow, for any files.

*Chunking* (`ChunkingProofs`, on `ParsingProofs`). The package is a function of the document
and its kind, so what is to be shown of it is about walks again, for each of the nine ways that
templates group blocks and the nine ways that they make children:

- `Making` is the invariant of a walk that makes children: what is finished, what is open and the
  steps of a procedure, put together, are blocks of the group in their order (`Laid`, `Upto`), each
  finished child is as `OverlongForAReason` and `MediaStandAlone` want it (`Goods`), and what is
  open may become one (`Snugs`, `Articles`, ...). One lemma for each template says that a step keeps it
  (`GenericMakes`, ..., `ContractMakes`); `ChildrenWhole` is the result.
- `Grouping` is that of a walk that makes groups: each has blocks in their order, and each key
  names one group; where a template starts with a group that it renames (`Settling`), only if no title
  of the document is that of this group (`Clash` is the case that `PackageReadable` excepts).
  `GroupsFiled` is the result.
- `ReadingSorted`: inserting each block at its place sorts the document; `RepairedEntries`:
  joining the markers of a contract to their text keeps the places.
- `Covered` is what a walk leaves out: the blocks of a group that are in none of its children are of
  the kinds that its template spares (`Spared`: headings that only open a group of answers; in a
  contract page junk, and headings in clauses of nothing but headings of one line). `GroupsFiled` also says that every block is in some group (`Somewhere`), and `Parted` in only
  one, so that the children have each block that is not spared, and once.
- A walk over a contract does not say of a heading that is missing what it stood next to. Its twin does
  (`KeepStep`): the same walk which keeps every child that is closed, and so leaves out page junk alone.
  `TwinsStep` shows that both have the same open and the same children but for hollow ones, whose blocks
  are all `BareHeading`; a block that is in the child of the twin only is thus in a clause of nothing but
  headings (`HeadsNothing`), which is what `LeftOut` asks of a heading. `ContractChildren` is the result.
- `RepairedText` says where the text of a marker goes: its first line and its second to one block each,
  so that the texts of different blocks stay apart (`RepairedOwned`) and only further lines of a
  marker, or one that another marker of the same text outbids, are missing (`RepairedHolds`). This
  needs one more fact about the adapters: a block with a place on its page is one item, and what
  follows its second piece is more lines of it, and the first line of an article does not end like page
  junk (`Lined`), so that a joined text is never dropped.
- `PackageDone` puts these together. The chunks of a parent are found in the package by the
  parent they name, which is one row of it if keys are (`OwnRow`), and context is found around the
  first block of a chunk, which has the id of just one block of the document (`ContextAround`).
  That each piece of text is in one child (`TextPlaced`) follows by flattening what is disjoint,
  first the blocks of the children, then their texts (`FlattenOnce`, `AllBlocks`, `TextsOnce`).

*Postprocessing* (`ChunkPackageProofs`, on `ListProofs`). `Passing` is the
inductive invariant. None of the properties is inductive: that `validate_chunk_package` has nothing to
warn of depends on what every pass left behind. `Passing` says that the loop variables stay
in their lists (`Types`), that each chunk is well formed, which for its words means that they
belong to blocks and pages the chunk names (`Formed`), that chunks are in reading order
(`InOrder`: the order of ids, which is why no two share one and why siblings are next to
each other), that parents list their children in that order and have their blocks (`Linked`),
that the text and the protected chunks are as the chunker emitted them (`TextPreserved`), and what is
done: parents and chunks behind the loop variables are settled, those before them are not yet
cut (`Progress`). `InOrder` is the part the others rest on. The passes find neighbours in two
ways, among the children of a parent and in the package; a merge is right in both only
because these are the same neighbours, and a part of a chunk follows its predecessor only
because the ids of parts extend the id of the chunk.

The argument has three layers. `ListProofs`: a selection of a list put together is the
selections put together, a fold keeps what its steps keep, a list in the order of a key is
what lies below, at and above a value. The first part of `ChunkPackageProofs`: a list of chunks is what comes before a
place, the one or two chunks there, and the rest (`Glued`), and what a step does is replace the
middle; one lemma (`Edited`) carries order, text and media from the middle to the whole, one
for each kind of edit (`RetouchPair`, `TakePair`, `SplitChunk`) shows what the parents learn.
`SplitTextParts` is the one about texts: for any text and limit the parts are not empty, give
the text when put together, and are above the limit only as one word or a slice of one,
through paragraphs, sentences, words and the halving of slices. The second part: one lemma for
each action. From `Passing` follow `TypeOK`, `TextPreserved`, `LinksAgree`, `SourcesAreNamed`,
`LeftoversExplained`, and, with it as an assumption on the state a step starts from, the action
property `LoopsEnd`.

Two things the models do for the sake of these proofs. The induction theorems of
the library take an operator as parameter, which the provers cannot instantiate; the proofs
take the induction from `WFMin` instead, for a set of numbers that is stated as a set
(`ListProofs`). And a selection or a fold is written with `Lists`, where it is a set of
positions and a sequence of functions, instead of `SelectSeq` and `FoldLeft`, which take
operators as well.

TLC confirms the invariants, as `INVARIANT` of the same instances extended by the
`...Invariant` module; `ChunkingInv`, which makes the whole package again in every state, without
the short documents (`TemplateJobs`).

Only model-checked: the liveness properties (fairness and ENABLED are out of the
prover's reach); and the violated properties, which are counterexamples.

## 5. What is not modelled, and why

- Inside the providers: the throttle between requests to the embedding service and its
  shared time stamp, responses that are parsed, batches that are sent together. To the
  rest they answer, fail or ask for another try, which is modelled.
- The distance search, query rewriting, the reranker's parsing, prompts and answer texts:
  stateless functions of texts and vectors. Their outcomes are choices.
- In chunking: wording, titles and texts beyond the classes of `Blocks`, font sizes, boxes,
  the serialisation of tables, quality metrics, and the images that are written to disk.
- The text of parents in `ChunkPackage`: joining across parents moves a child's text and
  leaves the text of both parents as it was, so that a parent need not hold the text of
  its children (`boundary_repair.py:107`). `ParentHoldsText` states it; TLC refutes it, no
  document promises it, and no run checks it. Likewise a chunk that was only a running
  header becomes empty and is stored (`boundary_repair.py:171`).
- Tables that are not protected. A small `manual_troubleshooting_table` (`manual.py:121`) or a
  `qa_pair` with a table is joined, merged and split like text, because their types are in no `PROTECTED_TYPES`
  (`boundary_repair.py:15`, `small_chunk_merge.py:6`, `overlong_split.py:10`), although "media blocks must
  not be swallowed by text chunks" (`validators.py:150`). The model does this too. `TextPreserved` says
  that nothing is lost by it and that protected chunks stay as they are, `LinksAgree` that the validator warns of tables and
  figures only where a chunker put them into such a chunk; no run asks for more.
- Texts taken for page junk. `_is_page_junk` looks for a pattern anywhere in a text of at most 120 characters,
  so a short paragraph of a contract whose last line ends like a reference number is dropped whole,
  and so are paragraphs that the Markdown reader put together. `TextPlaced` excuses this (`LeftOut`).
  Not told apart: a last line that is the name of an edition below other lines, a block of several lines
  that are all page furniture, and 120 characters, which are counted in tokens.
- Running headers of pypdf are paragraphs of one line, or are taken out as a whole. A text file that is one
  paragraph is read line by line: its items are those lines.
- Which metadata an update writes, beyond the labels a search filters by, and
  statistics. `mark_deleted` of documents and `mark_failed` of the query log have no caller.
- Things the documents ask for and the code does not have, without a run: the
  failed answer whose log stays `retrieved` (`docs/M5-design.md:647`), the missing log after
  a database error (`docs/M4-design.md:797`), runs that overlap and embed a chunk twice
  (`docs/M3-design.md:697`), a context that exceeds its budget (`docs/M4-design.md:1110`). For the
  last `ContextIsAccounted` says what does hold: what is counted keeps the budget, and what is
  sent exceeds it only in a context that says it is truncated.
- `IngestResult`'s counters and the `skipped` counter of a backfill, which is always 0.
- Embedding columns and the preflight of the vector store, hashing, settings, logging, the
  console, evaluations, migrations and scripts: they keep no state that requests share, or run
  before the service does.

## 6. Plan

Done, in this order: `DocumentVersions` and `Ingest` (the core), `Backfill`,
`KnowledgeBases`, `Retrieval` with `Scope` and `Evidence`, `Texts` and `ChunkPackage`, the
parsers and chunkers up to `Chunking`, and the proofs for `Ingest`, `Backfill`, `Retrieval`,
`KnowledgeBases`, `ChunkPackage` and `Chunking` (the chain, the document, the package, the text).

Next: what `ChunkPackage` assumes of its input as a theorem about the chunkers; the preflight of
the vector store.
