# Verification of Manualito

Manualito answers questions about board games from the manuals its users
upload. A manual is photographed or sent as a PDF; workers read its pages with
an OCR engine and a model that corrects the text; the text is cut into chunks,
stored in Postgres and indexed in Chroma by the RAG service; questions retrieve
chunks and a language model writes the reply.

These TLA+ modules model the parts of the backend whose correctness depends on
what happens *between* the steps that a test exercises: messages lost or
repeated, workers that die, a lock that is tried and not waited for, files and
rows that must agree, an index and a cache that are derived from a database by
other processes. Sources are quoted relative to `src/backend`. `PROJECT.json`
holds the map from definitions to lines, the runs, the slips each property must
catch (mutants), the findings, the hazards and the list of theorems.

## 1. Inventory

| Component | State | Operations | Modules |
|---|---|---|---|
| Manual processing pipeline (`api/manuals`, `api/worker/tasks`, `api/locks.py`) | `Manual.status`, `deleted_at`, `ManualPage.ocr_status`, `text_quality`, chunks; an advisory lock per manual; the queue `manuals` | dispatch, claim, page result, finalize, reprocess, delete, recover stale pages, recover lost dispatches | `ManualLifecycle`, `ManualPipeline` |
| Search index of a manual (`rag/repository.py`, `rag/service.py`, `api/manuals/service.py`) | chunks in Postgres, chunk ids in Chroma, messages that carry stale ids | finalizer, page edit and its synchronisation, purges, hourly reconciliation, reindex | `ManualIndex` |
| Lexical cache (`rag/lexical_cache.py`) | `_indexes`, `_locks`, `_generations` | `get`, `invalidate`, `invalidate_all` | `LexicalCache` |
| Uploads and asset batches (`api/assets`, `create_manual`, account deletion) | directories, markers and files on disk; the rows of a batch | stage, promote, commit, adopt, abort, reconcile, unlink | `AssetStore`, `AssetBatches` |
| Conversations (`api/conversations`, `worker/tasks/conversations.py`) | the pending reply of each turn, the title, an advisory lock per conversation, the queue `gpu` | ask, generate, fail, refine the title, rename, delete | `ReplyLifecycle`, `Conversations` |
| Game explanations (`api/games/explanations.py`) | cached sections, a fingerprint of the manuals, a lock | request, generate, discard, fail, expire | `Explanations` |
| OCR and its correction (`api/ocr`, `common/ocr`, `llm/service.py`) | the lines of a page under way | postprocessing, rules, the vote of three answers | `OcrCorrection` |
| Text of a page and its reuse (`api/manuals`, `common/manual_text`) | the text, chunks and origin of each page | text layer, render, OCR, copy, edit, reprocess, delete | `Chunking`, `PageText` |
| Answer to a question (`rag`, `api/manuals/retrieval`) | the question under way | BM25, dense search, fusion, authorisation, deduplication | `LexicalRanking`, `HybridRetrieval`, `GameAnswer` |
| Games catalogue (`api/games`, `api/ratings`) | games, follows, ratings, locks per query | search, cache what BoardGameGeek says, follow, rate | `GameCatalogue` |
| LLM service (`llm`) | none | what each call can answer | in `Conversations` and `OcrCorrection` |
| Accounts and sessions, mail, migrations, frontend, deployment | | | not modelled, section 7 |

How they interact:

* The API commits a transaction and *then* sends a message (Redis, Celery). A
  message can be lost in between, and `acks_late` can repeat it.
* Tasks read and write Postgres in short transactions and call OCR, RAG and the
  LLM over HTTP between them; what was read before a call may be stale after it.
* `finalize_manual`, `reindex_manual` and `edit_page_text`, the replies of a
  conversation and the explanations of a game exclude one another with
  `pg_try_advisory_lock`: a task that finds it taken gives up or comes back.
  Reprocess requests, deletions, `sync_page_rag` and renames take no lock.
* RAG keeps Chroma and a cache in its process. It keeps working on a request
  whose caller has timed out.
* Files are written before their rows are committed, and the directory of a
  batch has a marker until they are.
* Beat runs the recoveries: stale pages, lost dispatches, pending batches, the
  reconciliation of the index.

What is hard, and what makes each part correct:

* *Pipeline*: exclusive claims under redelivery and reprocessing; a verdict
  computed before a call and published after it; a deletion that stops tasks it
  does not know of; a wake-up of the finalizer that must not be lost.
* *Index*: purges that name chunks by id and run late; a repair decided from an
  inventory that is already old; in the end Chroma holds what Postgres has.
* *Cache*: an invalidation during a build must not be hidden by it.
* *Uploads*: files and rows agree although the result of a commit may be unknown.
* *Conversations*: a completed reply stays answered, a pending one does not stay so; a
  title its owner chose is not lost to one the program made.
* *Explanations*: nothing is served that was written from a manual the user may
  not read, or from a text that has changed; no generation lasts for ever.
* *Text*: rules that move words between three parallel lists lose none; a copy of
  a page is whole; text of others comes from shared manuals.
* *Answers*: a ranking over the whole game, cut and authorised twice, never gives
  a user a private text of another, and finds what shares a word with a question.
* *Catalogue*: one question to BoardGameGeek for many equal searches; a game a user
  chose to leave is not followed again on the quiet.

## 2. Modules

```
ManualLifecycle                  abstract specification of the pipeline
  ^ ImplementsLifecycle          the refinement: a property of the runs, and proved
ManualPipeline                   detailed specification
  ^ MCManualPipeline             instance for TLC
  ^ ManualPipelineProofs         type, lock, claims, verdicts, deletion, refinement
ManualIndex                      Postgres against Chroma for one manual
  ^ MCManualIndex, ManualIndexProofs
LexicalCache                     the cache of RAG
  ^ MCLexicalCache, LexicalCacheProofs
AssetStore                       abstract: what the owner of the files can open
  ^ ImplementsStore              the refinement: a property of the run, and proved
AssetBatches                     files against rows
  ^ MCAssetBatches, AssetBatchesProofs
ReplyLifecycle                   abstract: what the owner sees of each reply
  ^ ImplementsReplies            the refinement: a property of the run, and proved
Conversations                    replies and title of one conversation
  ^ MCConversations, ConversationsProofs
Explanations                     the explanation of one game in one language
  ^ MCExplanations, ExplanationsProofs
OcrCorrection   Chunking         from lines read to a text, from a text to chunks
        \        /    \
        PageText      LexicalRanking --> HybridRetrieval
              \        /
              GameAnswer         the composition: manuals, index, question
                ^ MCGameAnswer, GameAnswerProofs
GameCatalogue                    searches, BoardGameGeek, follows and ratings
  ^ MCGameCatalogue, GameCatalogueProofs
```

Names are those of the code (`replace_page_result`, `KnownGames`,
`REPROCESSABLE_MANUAL_STATUSES`...) where it has one. A definition
`<Operator>_<Slip>` is not used by the specification: it is the form the operator
would have if the code contained a plausible mistake, and one property has to
fail with it.

### ManualPipeline

One manual, because manuals share only the queue and the workers. A transaction whose
only read is that of its `UPDATE` is one step; a call of OCR or RAG separates two, and so do
the statements of a finalizer, because Postgres runs in READ COMMITTED and a deletion, which
takes no lock, may commit between any two of them. Each worker slot is at a place (`at`) of the
task it runs:

| Place | Code |
|---|---|
| `check`, `work` | the page is claimed (`claim_page_for_processing`), the manual read again, the page being read |
| `notify` | `finally` of `process_manual_page_task`: a finalizer is sent |
| `load`, `count`, `resolve` | inside `manual_lock`: before the manual is read, before its unfinished pages are, before its verdict is computed |
| `reject` | no page has text: `mark_manual_failed` is next |
| `publish` | the verdict is computed; the chunks are read and RAG is called |
| `release` | the status is written, or there was nothing to do |
| `failing` | the soft limit cut a finalizer: the lock is left and `fail_manual` is next |

The result of OCR is any quality, or a failure. Messages are counted
(`processQ`, `pageQ`, `finalizeQ`), so a message can be duplicated or lost. The
faults are named: `dropped` (a message never sent or acknowledged by a worker that
dies), `killed`, `redelivered`, `page_error` (an exception no handler catches),
`page_timeout` and `finalize_timeout` (soft limits). `Faults` says which a run
allows and `MaxFaults` how many.

`RecoverStale` uses the cutoff of the code as what it is for: the task that
claimed the page is over (hard limit plus five minutes). The `created_at` cutoff of
`RecoverDispatch` is left out, so it may send while the first message is still
queued: `MaxDuplicates` bounds the copies. The edit of a page and `reindex_manual` are not
here, although an edit that checked before a reprocess request writes on an unfinished page and
both write the status of the manual: `PublishedVerdict` is therefore about the write of a
finalizer and not about every readable manual. What an edit does to a page under way is in
`PageText`, and what it and a reindex do to the index and the status is in `ManualIndex`.

### ManualLifecycle

The promise without tasks, locks or workers: pages settle, then a verdict that
follows from the pages is published, until the owner asks for a new pass or
deletes the manual. `ManualPipeline` implements it under the mapping `todo` = the
unfinished pages, `text` = the pages with chunks, `doubt` = the settled pages
that failed or have low confidence (`Lifecycle`).

### ManualIndex

The same manual seen from its chunks. The chunks of one stored text of a page are
one id `<<page, n>>`, with `n` counting its texts: ids are never used again,
as UUIDs are not. Page tasks are one step (their interleavings are in
`ManualPipeline`), the call of RAG is two (`Upsert`, `Prune`), and it can fail,
and time out with RAG completing it later (`LateIngest`). A message carries what it
carries in the code: the stale ids fixed when it was sent. `queue` is a set, so
equal messages coalesce; `Receive` and `Deliver` may leave a message in the queue,
which is the same as a duplicate. `cached` is the status of the object SQLAlchemy
loaded: a column is written only if it differs from that. The hourly
reconciliation reads the inventory (`ReadInventory`) and, later, what Postgres
expects and which manuals are alive (`PlanRepair`; two queries of one step); an
inventory that does not arrive repairs nothing (`InventoryLost`).

### LexicalCache

Coroutines of one event loop, so a step goes from an `await` to the next; only the
load of a corpus and the writes of Chroma run in threads. The corpus of a game is
its version. It is read in pages, so an index remembers the versions of the first
and the last page, and one that mixes two versions can be told. Writers are
`ingest_manual` (upsert, prune, and `invalidate` in its `finally`) and
`delete_manual`, which may fail to learn the game and then calls
`invalidate_all`. `settled` and `floor` are history: what had been invalidated, and
what had when the question began. `Get` always pauses before the lock, which
includes the fast path of `asyncio.Lock`.

### AssetBatches

A batch is a directory with a marker; it belongs to an upload or to a page that is
rendered for a manual (`Renders`, `ManualOf`). The steps of its writer are those
the file system and Postgres see: directory, marker, each file, the flush of the
rows, the commit, the removal of the marker (`Adopt`), or the removal of the
directory (`Abort`, `RemoveEntry`, one entry at a time and in any order, as
`shutil.rmtree` does). `CommitUnknown` is a connection lost while Postgres commits:
the rows are there or not, and the writer leaves the batch to the hourly task.
`Sweep` is that task (`reconcile_pending_asset_batches`), which lists the batches old
enough, asks which have rows and adopts or removes each. `row` is `flushed` between
flush and commit, which is what makes `uq_manuals_live_source_fingerprint` wait.
`InvalidFile` is a file the validation refuses, whatever the reason.

Deletions are read and committed in different steps, and uploads and renders commit in
between. `ReadManual` reads a manual and the assets that are live then; `DeleteManual` commits
the manual as deleted and, of the assets, only those (`soft_delete_user_manual`,
`delete_manual`). The account has four: the storage keys (`ReadKeys`), the `UPDATE` of the
manuals (`HideManuals`), that of the assets (`MarkAssets`), each with its own snapshot, and the
commit (`DeleteAccount`). Any of them can be abandoned. Files are unlinked after the commit, a
batch at a time. `hidden` are the manuals with `deleted_at`, apart from `row`, which is about the
asset of each batch: a render committed while its manual was deleted keeps a live row
under a hidden manual.

### AssetStore

What can be opened (`shown`) and what never will be again (`gone`), with no disk and no
transactions. A manual or a page image appears whole, once, and a manual never beside another
with the same `Source`; an image only after its manual. Deleting a manual takes every image of
it in the same step, and one that was under way never appears. The deletion of the account
takes what could be opened when it was asked for (`asked`); what appeared since may go or
stay, because that is what its statements do. `AssetBatches` maps `shown` to the files on disk that the
query of an image finds (`Openable`: the asset is live and its manual is not hidden), so that a
commit is the step in which files appear or go, whoever learns of it, and neither the flush,
the statements of a deletion, the marker nor the hourly task is visible.

### Conversations

One conversation. The repository selects a row, changes the object and commits: two
steps (`seen` is the row selected), and the commit writes only the columns whose
value differs from the one selected (`CompletedFrom`, `FailedFrom`). Sending a message
is two reads and a transaction (`CheckTurn`, `CheckSources`, `BeginAppend` and
`Append`) and then two messages. A reply task is at `load`, `generate`, `complete`,
`write`, `release` under the lock, or at `fail`, `write_failure` with it or without.
A title is its author. The LLM answers what `LlmAnswer` says of two attempts; the
limit is the same constant in both services, so the API never meets an answer
that is too long and the error code `answer_too_long` is never written.

### ReplyLifecycle

Each reply, the turn that is being generated and the turns somebody gave up on. One
reply is generated at a time and answered only meanwhile; an answer is final unless
the one who gave up (after every retry, or with a lost connection) fails it. In
`Conversations` the generation is the lock and its holder's message (`Generating`), and
who gave up is who fails a reply without the lock (`GivenUp`); queues, retries, selects
and commits are hidden.

### Explanations

The explanation of one game in one language, for two users who see different pools
of manuals. Texts are dates of change: a section remembers which manuals, with which
date, it was written from, so an outdated one can be told. The reading of the pool
and of the row in a request are two steps, and what it decides on is what it read. The
task reads, asks for four sections, checks the fingerprint again at every save,
and saves, discards or fails under the lock; a request that finds a generation
older than the limit (`Expire`) starts it again.

### OcrCorrection, Chunking, PageText

`OcrCorrection` is the sequence of rules over the lines read, literally: a word is a
sequence of fragments and may end in a hyphen, and fragments are what must not be
lost. The vote of the LLM (`Consensus`) is over edits of words. `OcrNext` corrects
line by line. The guard `OverlapsAny` of the code cannot fire: with three answers
two edits of a majority come from a common answer, which does not overlap itself.

`Chunking` cuts along lines, words and at last units, and glues the end of a chunk
before the next with no separator, as the code does. Paragraphs and sentences are two
more separators that work the same way and are left out.

`PageText` gives each manual one page: the places of its task, the text layer of a
PDF, the render, the copy of a page with the same image, edits, a new pass and
deletion. `chunks` carry the text they were cut from, `by` the page it was read on. An edit holds
the lock of the manual from its checks (`CheckEdit`) to its commit (`EditPageText`), but a reprocess
request takes no lock: the task of the page can then store its result among the statements of
the edit. `storing` and `editing` are what each transaction has done: read the row
(`LoadPage`) or deleted the chunks (`DeleteChunks`), each with what is committed by then. A
commit writes the columns that differ from the row that was read (`Column`, `LinesLeft`) and leaves the chunks its
`DELETE` did not see (`Unseen`); beside those, a result with chunks is refused by the unique index and
one without any is stored. Without an edit under way nothing comes between the statements
of a task, which is why it then takes one step.

### LexicalRanking, HybridRetrieval, GameAnswer

`LexicalRanking` is BM25 in fixed point over the texts of a game, each once whatever
the manuals that say it; stemming is the loss of a suffix; the logarithms of the
inverse frequencies are a table of positive integers up to `MaxTexts` texts, and a score is rounded up, so that
what is positive in the code's floats is positive here. `HybridRetrieval` is reciprocal rank fusion and
removal of repeated texts. `GameAnswer` composes them with `PageText`: the index
follows the pages late, a question reads which manuals it may consult, ranks, fuses,
reads the chosen chunks again in Postgres and builds its context, while pages are
edited, withdrawn and copied. The dense ranking is any order. The age of the corpus in
the cache is the matter of `LexicalCache`.

### GameCatalogue

Searches that miss wait for one another on a lock per query (`_bgg_cache_locks`, one
dictionary per process), look again, ask BoardGameGeek with a bounded number of
retries, and store what it says in one transaction: a refused row loses the whole
answer. Follows, ratings and uploads are requests whose automatic follow comes after
their own commit. Nothing in the program hides a game: `HideGame` is an
administrator.

## 3. Runs

| Run | Checks | Shows |
|---|---|---|
| `pipeline_safety` | `ExclusiveClaim`, `PublishedVerdict`, `QuietWhenClosed`, `ImplementsLifecycle` | two workers, two pages, two faults of any kind but `finalize_timeout`, two reprocess requests and a deletion: no page is worked on twice, the verdict a finalizer writes is the one the pages deserve then, nothing runs on a closed manual |
| `pipeline_liveness` | `TypeOK`, `LockOwnership`, `NoWorkAfterDelete`, `PagesSettle`, `SettledIsPublished` | one fault of any kind but a lost message, `finalize_timeout` included: pages settle, a finalizer that can run closes the manual, the lock is never left behind, and after a deletion only finalizers that had loaded the manual still write a status, once each |
| `lost_wakeup` | violates `IndexingEnds` | finding 1 |
| `index` | `TypeOK`, `PurgesAreSafe`, `IndexConverges`, `DeletedIsForgotten` | edits, a reprocess request, a deletion, finalizers and the reconciliation, with one failed, late or repeated call: no purge names text in use, Chroma ends up with what Postgres has and with nothing of a deleted manual |
| `edit_wipes_pages` | violates `EditKeepsOtherPages` | finding 2 |
| `reindex_hides_doubt` | violates `ActiveHidesNoDoubt` | finding 3 |
| `lexical_cache` | `TypeOK`, `SingleFlight`, `CacheIsFresh`, `NoStaleAnswer` | two questions against two writers over two games |
| `asset_batches` | `LiveFilesExist`, `ImplementsStore`, `PendingSettles` | two uploads of one manual and a page rendered for it, deletions whose statements they cross, a fault of a request or page task and one of the hourly task: what is committed keeps its files, every behaviour is one of `AssetStore`, and every batch with a marker is settled |
| `conversations` | `LockOwnership`, `OwnersTitleStays`, `ImplementsReplies`, `RepliesSettle` | two workers, two questions, a rename, a deletion and two faults: one task generates at a time, a title of the owner is only replaced by who had compared titles before, every behaviour is one of `ReplyLifecycle` (only who gave up on a turn takes its answer back), a reply that is queued or running settles |
| `explanations` | `OneJob`, `OneWriter`, `ShownIsReadable`, `ShownIsCurrent`, `GenerationSettles` | two users and two manuals, with a change or with two faults: one job and one writer per explanation, only readable and current texts are shown, no generation is for ever |
| `page_text` | `NoLetterLost`, `MajorityDecides`, `ChunksCoverPage`, `WholeCopies`, `OthersTextIsShared`, `NobodyReadsPrivateText`, `FusionRespectsRanks`, `SharedWordsAreFound` | from the lines read to the context of an answer, while pages are copied, edited (also among the statements of their task), processed again and deleted |
| `catalogue` | `CoalescedMisses`, `ExplicitChoiceWins`, `SearchesEnd` | three searches over two names of one game, and crossing requests to follow, leave, rate and upload |

`Explanations`, `GameCatalogue`, `GameAnswer` and `Conversations` state a type invariant
too, not listed by a run: all are proved.

**Bounds.** Two pages are the least in which one page settles while another does
not; two workers are the concurrency of `celery-worker-manuals` in `compose.yaml`
and the least in which two tasks or two finalizers overlap (`celery-worker-gpu` has
one, and a redelivery or a late task is a second). Two reprocess requests
let a task of one pass meet the next; two faults let a redelivery follow a
kill. `MaxDuplicates` = 1: the beat adds a copy only while there is none, and
further copies come from `redelivered` and `page_error`. One edit is enough for a
synchronisation to cross the reconciliation. In the cache two games tell
`invalidate_all` from `invalidate`, and two writes on one game let one invalidation
fall inside the build another one has made stale. In the batches two uploads with
the same fingerprint wait for one another, one of two files lets a crash fall
between them, a render is committed while its manual is deleted, and one fault of a request is apart
from one of the hourly task, so that the second can meet what the first left. Retries are bounded
by one, not two or sixty: one retry has the first attempt and the last. In the
catalogue the answers of BoardGameGeek include none, one game under two names, and
one whose row the table refuses. In `page_text` two users and five manuals have a
common image, private and shared, with and without a text layer; a chunk holds three
units, so that lines, words and cuts all occur; the OCR may read nothing, which is the
result that fits beside the chunks of an edit; the lines read are all sequences of
up to two out of seven that reach every rule, and of three that begin with a word cut
at its end, the only one that reaches into the lines that follow. The table of logarithms ends at
`MaxTexts` = 6, more texts than five manuals of that size say; beyond it the last entry
stands for the rest.

Where edits, requests and faults together would be millions of states, the MC module
starts the behaviours where part of that is already spent, from two or three
beginnings that together have every action (`MCInit` of `MCManualIndex`,
`MCConversations`, `MCExplanations`, `MCGameAnswer`, `MCGameCatalogue`). The theorems
of section 5 do not depend on any of these bounds.

Symmetry is used only in runs without liveness. Deadlock is not checked where a
system that has used up its bounds rightly stops (pipeline, batches, conversations,
explanations, pages, catalogue); in the index and the cache something is always
possible and TLC checks it.

**Fairness.** Workers run what they have started (weak fairness of the steps of a
task) and the beat keeps ticking. Redis lists are first in, first out, and a
worker that ends takes the next message, so no message is passed over for ever;
a message is not continuously *startable*, because the workers are busy now and
then, hence strong fairness for starting. In the batches writers and the hourly task
go on, and batches age; in the explanations time passes for a generation that has no
job left; in the catalogue a search that has begun is carried on by the event loop,
as BoardGameGeek answers or times out. Requests of users, operators and faults are
not fair: they need not happen. Liveness is stated once faults are used up or from
their absence, never on the assumption that they happen.

`pipeline_liveness` leaves `dropped` out: a lost message of a page that belongs to
a manual already begun is not sent again by anything. `RepliesSettle` is about
replies whose message is queued or running, for the same reason: no beat task looks
for the others.

## 4. Findings

1. **A manual can stay in `indexing` for ever without a fault** (`lost_wakeup`). A
   finalizer reads a page as unfinished and still holds the lock; that page ends and
   sends its own finalizer, which finds the lock taken and ends. Nothing sends
   another: `recover_stale` looks for pages in `processing` and `recover_pending` for
   manuals all of whose pages are `pending`. The design document says stale pages
   must not keep a manual in that state indefinitely, and that the lock only stops
   several tasks from checking at once.
2. **An edit takes the other pages out of the search** (`edit_wipes_pages`).
   `sync_page_rag` sends RAG the chunks of one page and `upsert_manual` deletes
   every other chunk of the manual; the hourly reconciliation puts them back. The
   technical documentation asks that the rest of the manual be kept.
3. **A repair publishes doubts as `active`** (`reindex_hides_doubt`).
   `reindex_manual` calls `mark_manual_indexed` with its default status, which is
   `active` also for a manual in `pending_review`.

What the models show besides, with no run of its own:

* A finalizer cut by its soft limit leaves the lock and then writes `failed`
  without it. Meanwhile another finalizer may have published and the owner may have
  asked for a new pass: `ExclusiveClaim`, `PublishedVerdict` and `QuietWhenClosed`
  do not hold with `finalize_timeout`.
* `finalize_manual` reads the manual once. A deletion committed after that read does not stop
  the call of RAG nor the verdict, which is written over `hidden`: `NoWorkAfterDelete` says that only
  the finalizers that had loaded the manual do so, and each once.
* `reindex_manual` of a manual in `pending_review` and a reprocess request, which
  takes no lock, can cross: `active` is written over `indexing`, and the pages of
  the new pass are then refused by `claim_page_for_processing`.
* `update_conversation_title` says it changes the title "si nadie lo cambió desde el
  fallback inicial", and the design document that the new title replaces the first
  one "solo si el usuario no lo ha cambiado mientras tanto". It compares the title
  when it selects the conversation and then commits an update by id, without a lock
  on the row: a title its owner commits between the two is lost (`SelectTitle`,
  `Rename`, `RefineTitle`), and a question does the same with its fallback. `OwnersTitleStays` is what
  holds: nobody passes the comparison afterwards, and who had passed it writes once.
* A copied page is read in two statements, each with its own snapshot: an edit in
  between leaves the lines of one text and the chunks of another.
* An edit whose checks came before a reprocess request and the task of that page can replace
  it at once: the second to commit leaves the chunks it did not see, if its own result has none, or the
  lines that equal those it had read. This too leaves the lines of one text and the chunks of
  another. The model names the pages that either of these happens to (`crossed`); `WholeCopies`
  and `ChunksCoverPage` hold for the others.
* A private page that its owner edits by hand keeps its fingerprint and can be copied
  into a shared manual of the same owner, whose text cannot be edited by hand.
  `OthersTextIsShared` is therefore about text of *other* users.
* One row the table refuses loses the whole answer of BoardGameGeek, and a game that
  was hidden is offered again when its name is cached again.
* RAG answers 404 when it finds nothing; no handler of the explanations catches that
  error, and the explanation waits to be taken for abandoned.
* A process that dies between the removal of a marker and that of the files, or
  between a directory and its marker, leaves files no task looks for; so does an
  `unlink` that fails. An upload that was authenticated before its account was deleted
  commits a live manual afterwards.
* `purge_user_account` says it is all or nothing, and its three statements see three moments: a
  manual committed between them stays live with a deleted asset, hidden with a live one, or with a
  file that is never unlinked. The image of a page rendered while its manual is deleted keeps a live
  row and its file, although nobody can open it.
* The error code `answer_too_long` and the guard `_overlaps_any` cannot be reached.

## 5. Proofs

TLAPS checks every theorem for all values of the constants, under the `ASSUME`s of
the modules (the placeholders `NoPage`, `NoOne`, `Absent`... are not pages, workers
or questions; bounds are natural numbers; there is a page).

**ManualPipelineProofs.** `TypeCorrect`, `LockIsOwned` and `DeletedIsFinal` hold under
every fault; the last says of each action what it does to the finalizers that have loaded the manual
(`DeletedStaysQuiet`). The other three, `ClaimsAreExclusive`, `VerdictsAreSound` and
`ClosedIsQuiet`, assume `"finalize_timeout" \notin Faults`, for the reason in
section 4. None of these three is inductive by itself, and they need one another:
a reprocess request hands pages out again, so claims stay exclusive only because a
closed manual is quiet; a manual is quiet when closed because a finalizer closes
it only with all pages settled, as it still finds them four statements later; and they stay settled during the call of RAG
because while the manual is `indexing` nothing resets a page and no page is left
to be claimed. The inductive invariant `IInv` is `TypeOK`, `LockOwnership` and
`Claims`, whose extra conjunct `PublishingSettled` is that last sentence, and
`NoStaleFailure` says that no worker is about to fail the manual without the lock. `VerdictsAreSound` then
is about one step, the write of a finalizer (`PublishOnly`): what it had computed is what the pages deserve
when it writes it.

`PipelineImplementsLifecycle`: under the same assumption the pipeline implements
`ManualLifecycle`. `Hidden` covers the steps the mapping hides, `Settles` the steps that end pages; a verdict is mapped to `Close`
because `IInv` makes the status computed before the call the one of the pages.

**ManualIndexProofs.** `TypeCorrect` and `PurgesNeverBite`. That no purge names a chunk
in use is not inductive: a purge is fixed when it is sent and delivered whenever.
`AllKnown` says that the index, tasks, late answers and inventories only have chunks
of texts Postgres has had (`KnownChunks`); `PurgesAreStale`, that messages which drop
chunks name those it will never have again (`StaleChunks`). Since the counter of
texts of a page only grows, what is known stays known and what is stale stays
stale, and the reconciliation can name a chunk only if the manual is deleted or has
none.

**LexicalCacheProofs.** `TypeCorrect`, `BuiltOnce`, `NothingStaleIsKept` and
`AnswersAreCurrent`, for any number of games, questions and writers and any bound.
`CacheIsFresh` is not inductive: storing an index keeps it true only if what was read
is still the corpus. The strengthening `BuildIsFresh` says so of every build whose
generation is still that of its game (`Valid`), unless a writer has yet to invalidate.
An expulsion makes a build invalid because `GenerationsGrow`; and
`invalidate_all` cannot miss one because `SingleFlight` gives every build a lock,
whose key is among those it goes over. `Order` is the chain of versions behind
`NoStaleAnswer`: what a question was promised, what is settled, what a build or the
cache has read, what Chroma has.

**AssetBatchesProofs.** `TypeCorrect` and `FilesOutliveFaults`: a live row has all its
files through any number of faults. `Shape` says what a batch has on disk and in
Postgres at each place of its writer: rows are flushed only once every file is
promoted, and nothing is aborted that has rows. `Settled` covers the others who
remove: the hourly task only looks at batches old enough for their writer to be done,
removes those it found without rows, and what a deletion unlinks belongs to deleted
rows. That last part needs `Deletions`: what a deletion read in an earlier statement was
committed then, and every asset whose key that of the account read, and is still live, is in its
`UPDATE`.

`StoreIsImplemented`: the batches implement `AssetStore`. `RowSteps` sorts the steps by
what they do to rows, to `hidden` and to `keys`, since by `Shape` what is shown depends on them
alone (`ShownFiles`). A commit appears in `AssetStore` as a publication, and its guards are two
more invariants: `Unique`, of two uploads of the same manual at most one is flushed or
there, which the wait and the refusal of the unique index keep; and `Rendered`, the manual
of a page that is rendered was committed. A commit of an image of a hidden manual, or of a manual's
image that a deletion did not read, is where the statements of a deletion matter: the first is no
step of `AssetStore`, and the second goes with its manual (`ManualDeletionMaps`), because the
query of an image asks for its manual too. `AccountDeletionMaps` shows that the account takes at least
what could be opened when its keys were read.

**ConversationsProofs.** `TypeCorrect`, `LockIsOwned`, `OwnersTitleIsKept` and
`AnswersAreKept`. `Announced` keeps tasks away from a reply that is not committed yet;
`FailsOpenReplies` says that whoever fails a
reply under the lock selected it open and nobody has completed it since, because only
the holder of the lock completes. `OwnersTitleIsKept` goes action by action over what each does to the title and to
the two sets of writers that have compared it.

`RepliesAreImplemented`: the conversation implements `ReplyLifecycle`. Besides the
invariant above it takes `Stored`: whoever waits for a reply, in the queue or in a worker,
waits for one that is committed. `GivenUpMoves` says how one worker's step changes who
gave up; `SameTurn`, `LockLeft` and `GivenUpSettled` are the three kinds of step of a
task: under the lock, leaving it, and without it.

**ExplanationsProofs.** `TypeCorrect`, `OneWriterAtATime`, `ReadersReadTheirs`,
`ReadersReadTheLatest` and `OneJobAtATime`, from three inductive invariants. Writers
(`WriterInv`): tasks inside the lock have different fingerprints (`OneLock`), and
`OneWriter` counts sections besides, which needs that a generation that goes on
still has sections to write (`Unfinished`). Readers (`SourceInv`): a section may
outlive the text it was written from in three places (rows, what a request found,
what a task has done), so `SectionsSourced` says of all of them that
each source is a manual of the fingerprint, in the text of today *or* with a date
that has moved, or will when RAG hears of its edits; `PoolIsAsked` ties what a task
writes from to the fingerprint of its row; `FingerprintsPast`, that no fingerprint
in use has a date from the future, is what makes a date that has moved different
from every earlier one. A reader gets the section of the fingerprint that is his pool
today, so it is his and current. Jobs (`JobInv`): while nothing fails a request that
decided to generate, a message and a running task of one fingerprint exclude each other
(`NoSecondJob`) and the row is awaited; the theorem is about any behaviour, and
what it promises stops with the first fault, as `OneJob` does.

**GameCatalogueProofs.** `TypeCorrect`, `TheUserDecides` and `MissesCoalesce`, for any
searches, users and answers of BoardGameGeek (sequences of games and names).
`LocksAgree` is the heart: the dictionary of locks is a `WeakValueDictionary`, from which a lock goes when
nobody uses it, so it says that every search that waits for a
lock or holds one uses that of the dictionary, and who is in the block holds it.
`AskedForNothingStored` is what the second look under the lock gives, and it stays
true because a game is only stored by who is leaving the block (`StoredBefore`).

**GameAnswerProofs.** `CopiesAreWhole`, `OnlySharedTextTravels` and
`PrivateTextStaysPrivate`, for any pages, images, readings, hand-written texts,
orders of the index and bounds. `CopiesAreWhole` excepts the pages in `crossed`, where the code
mixes two texts in either of the two ways of section 4, and says that there is no third. None is inductive. A task carries a text between
three transactions, and the page it was read from can change meanwhile: `Carried`
says, place by place, whose text a task may hold, that what was read first is whole
unless the version of the source has moved, and that what was read second is marked as torn
if it has. A page that others may copy holds its own text, never written by hand
where everybody sees it, and is not one of those that mix two (`OwnText`): this is
what refusing to copy a copy is for. `PrivateEdits` says that only private pages are edited, so that what
an edit and a task leave of each other in one page (`Stored`: all of the result alone, or beside an edit some of the lines
or chunks of the other) stays within what its owner may see. `ResultRewrites` shows that every result
stored is one of the two. `Held` separates the lines of a page (`MayShow`)
from its chunks (`MayIndex`): the chunks of a torn copy are read when the owner of the source may
have written over it, so they only promise an owner who shares a manual with that
image. The second reading in Postgres then makes the answer independent of the
index: the proof says nothing of `chroma`, which may hold anything.

`FusionKeepsRanks` is about the operators alone: reciprocal rank fusion of *any* two
rankings, for any `RrfK` and any cut. The scores are fractions compared by cross
products, a precedence in both rankings makes a score at least as high, the order
of the sort is total on the texts and transitive (`FusionIsAnOrder`), so every place is taken
by one text, and a text has fewer before it than any text it precedes.

`AnswersKeepRanks` and `SharedTextsAreFound` carry the ranking along the behaviours, with
no premise on the rankings. What they need of the operators is `WordsAreRanked`: the
ranking by words is a list, and has every text with a word of the
question in a manual the user may consult, unless it is cut. Its argument follows the
code. `GameIsIndexed`: each text of the corpus is one document, with the chunks that say
it. `ScoresAreFair`: with `LogarithmsAssumption`, the score of a document with a term of the
question is positive (`TermsScore`, `TotalBounds`; the average length is not zero because
that document has a token). `RankHasFound`: the documents with a positive score are
totally ordered by score and position, so each has a place. `TextsAreCited`: a document
with a chunk the user may consult is cited, by a chunk that says its text, whoever else
says it first.

Along the behaviours the corpus must be a finite list of sequences of characters, which
no property says of itself. `TextsHold` is that strengthening: `WordsHold` (every text on its way to a
page is made of words), `RowsHold` (the chunks of a page are the numbered pieces of one
list of texts, and what a task copies is such a list), `IndexHolds` (the index holds
finitely many chunks of such texts, whatever messages it lost) and `RanksHold` (a question fuses
nothing before RAG is asked).

`TypeCorrect` adds to `TextsHold` that the place of the correction is inside the page, that a
row comes from another page or from none, and `IdsHold`: a chunk in the index or in a
message bears the number of a result its page has already had, which needs that versions
only grow (`VersionsGrow`).

`LettersAreKept` and `MajoritiesDecide` are about the rules and the vote, for any lines,
vocabulary, answers and thresholds. Both follow from `OcrInv`, which has two parts.
`RulesHold`: the three lists of `merge_hyphenated_lines` are in step, each line has words,
and the bases hold the words of the lines that survived; a line differs from its base only
where the LLM was asked. The rules establish it at once, so the work is in
`MergeLineKeeps`: a line that stays, loses its first word or disappears leaves all its
words in the bases. `HeardHolds`: the line corrected last is the consensus of the
three answers to it, which leaves a statement about operators. `ApprovedAreAgreed`
removes the order in which edits are looked at: of three answers, two edits with two votes
each share an answer, in which edits never touch (`MajoritiesNeverOverlap`), so
`_overlaps_any` refuses nothing and what is approved is the set of agreed edits.
`EditsApplied` follows `apply_word_edits` from the last edit to the first: after the edits
that start at a word or later, the text is the words before them, untouched, and a rest with the
digits of the words it stands for and each of them that no edit replaces (`Continues`).

`PagesAreCovered` is about how a text is cut: the chunks of a page that mixes no two texts
hold its words in their order, and cut none that fits in one, for any text, `ChunkSize` and
`Overlap`. It follows from `ChunksCoverText`, which is about the operators alone and any
units. Cutting a text at a separator and putting its parts after each other is `PartsConcat`,
and the words of a text are those of its parts (`PartsHaveTheWords`). `Cuts(U, pieces, text)`
is what each way to cut promises: pieces of `1 .. ChunkSize` units, with no blank at either end,
and the `Same` words: the same units in the same order, and the very same words when each fits in a
chunk. `UnitsAreKept` shows it of a cut anywhere, `SplitByCuts` of a cut along a separator
whose pieces are cut well already, and so `WordsAreCut` and `LinesAreCut`. The invariant of
the fold is in `AddPartKeeps`: what is closed and what is being filled hold the words of the
parts seen so far. `_apply_overlap` puts the end of a chunk before the next and strips the
result, which could eat into the chunk itself; it never does because a chunk begins and ends
with something solid (`OwnPart`, `OverlapCovers`). `WordsHold` says that every text on its
way to a page is made of words and separators, and `WholeCopies` carries the rest to the pages.

The proofs about sequences begin with a small library: induction over `0 .. n` and over
sequences (`Induction`, `SequenceInduction`, stated with sets, from the well-foundedness of
the naturals), the existence of a function defined by recursion (`Recursion`), and what
`FlattenSeq` returns (`FlattenUnfolds`, `FlattenConcat`, `FlattenElements`).

The assumptions on constants are those of the modules: `Storable` are names,
`BggAnswers` are finite sequences of games that were not entered by hand and of
names, pages have owners, what the OCR reads, a text layer, a text written by hand and what the LLM
puts in the place of other words are sequences of words (in lines), a question is a sequence of
words (`AskedAssumption`), pages are finitely many, logarithms are positive, limits are natural
numbers. None restricts what users do.

**Changes made so that the proofs could be done.** Lists that the code filters by
position (`Deduplicate`, `LoadAuthorizedChunks`) are written with `HitsAt`, which numbers
the positions kept, and the sort of `FuseRrf` with the number of texts before each;
the chunks of a page are ordered by their index, unique in a manual
(`uq_manual_chunks_manual_chunk_index`). In `OcrCorrection` the loops over lines and over
edits are recursive functions, and what is filtered by value is `Within`, lists of one
element or none joined to one; the edits of an answer are taken by the word they start at,
where there is one at most. In `Chunking` the cut at a separator, the loop that
fills chunks and the join of lines are recursive functions (`Parts` over `AddUnit`, `SplitBy`,
`Join`), and empty chunks are dropped with `NonEmpty`. In `LexicalRanking` the sums of BM25 are
a recursive function (`Total`), the sort of `RankBm25` is the number of documents ahead of each, and
the chunks of a text are taken with `HitsAt`.

**Only model-checked.** Liveness: fairness and ENABLED are out of this prover's
reach (`PagesSettle`, `SettledIsPublished`, `IndexConverges`, `DeletedIsForgotten`,
`PendingSettles`, `RepliesSettle`, `GenerationSettles`, `SearchesEnd`). Every other property
of a passing run is stated by a theorem.

## 6. Properties that look weaker than they could be

* `WholeCopies` and `ChunksCoverPage` except the pages in `crossed`, and `OthersTextIsShared` the owner's own
  text, for the reasons in section 4.
* `PendingSettles` is about batches that still have their marker.
* `NoWorkAfterDelete` allows the finalizers that had loaded the manual to go on, and `OwnersTitleStays`
  the writers that had compared titles: the code stops neither. `PublishedVerdict` is about the write
  of a finalizer, because an edit and a reindex change pages and status later (finding 3).
* `AssetStore` lets the deletion of an account leave what appeared since it began.
* `ReplyLifecycle` (and `LockedKeepsAnswers`, which `AnswersAreKept` proves and no run
  repeats) allows the failure that is written without the lock, which is what the code
  does when its retries run out.
* `MajorityDecides` is about proposals with two of three votes; a proposal that changes the
  digits is never applied, which `KeepsDigits` models.

## 7. Not modelled, and why

* Accounts, sessions and single use tokens: authentication code, outside this
  project. The deletion of an account is in `AssetBatches` for its effect on files.
* Mail: a task that retries a call of an SMTP server; nothing depends on its result.
* Engines behind HTTP (PaddleOCR, Ollama, SMTP, BoardGameGeek), the distance of
  embeddings and the wording of prompts: nondeterministic outcomes of the steps that
  wait for them.
* Listings, pagination, the discovery of games and the detail pages: they only read.
  Changing the title of a manual or its anonymity, which nothing else reads.
* The inventory of the reconciliation is read in pages while Chroma changes; it is one
  step here. The code accepts a biased pass, and a spurious reindex only repeats what
  is stored.
* The cancellation of a request of RAG: it happens only at shutdown, when the cache
  ends with the process; drift in Chroma is what the reconciliation is for.
* Offsets of annotations, image preparation, formats of files: data no property tells
  apart. Migrations, frontend, landing page, documentation site, deployment.

## 8. Plan

Done, the most important behaviour first: pipeline, its abstract specification and its
proofs; index, lexical cache, batches, conversations, explanations, catalogue, and text,
ranking and answers, each with its proofs; the abstract specifications of batches and
replies. Next:

1. Composition: `ManualPipeline` as the page tasks of `ManualIndex`.
2. An abstract explanation (absent, in generation, ready for a pool) for `Explanations`.
