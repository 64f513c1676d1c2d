----------------------------- MODULE ManualIndex -----------------------------
(***************************************************************************)
(* The search index of one manual.  Postgres holds the text of its pages,  *)
(* cut in chunks; Chroma holds an index derived from them, which the       *)
(* finalizer, the edit of a page, the hourly reconciliation, the reprocess *)
(* request and the deletion all change by messages and calls of the RAG    *)
(* service.  (api/manuals/service.py, api/manuals/repository.py,           *)
(* rag/repository.py, api/worker/tasks/manuals.py and maintenance.py.)     *)
(*                                                                         *)
(* The chunks of one stored text of a page are one chunk id, <<page, n>>,  *)
(* with n counting the texts the page has had: new text, new ids.  Page    *)
(* tasks are one step here; ManualPipeline has their interleavings.        *)
(* <Operator>_<Slip> is a slip the code could contain, as in               *)
(* ManualPipeline.                                                         *)
(***************************************************************************)
EXTENDS Naturals, FiniteSets

CONSTANTS
    Pages,          \* rows of manual_pages
    Workers,        \* worker slots that run the tasks
    Owner,          \* the owner's edit request, as a holder of the lock
    NoOne,          \* the lock is free
    None,           \* no page, no job, no inventory
    MaxEdits,       \* bound: page edits in a behaviour
    MaxReprocess,   \* bound: reprocess requests in a behaviour
    MaxFaults       \* bound: failed calls of RAG and repeated messages

ASSUME ActorsAssumption ==
    Owner \notin Workers /\ NoOne \notin Workers \cup {Owner}
ASSUME NoneAssumption == None \notin Pages
ASSUME BoundsAssumption ==
    MaxEdits \in Nat /\ MaxReprocess \in Nat /\ MaxFaults \in Nat

Statuses == {"indexing", "active", "pending_review", "failed", "hidden"}
ChunkIds == Pages \X Nat

(* A task that calls RAG: the chunks it sends, the status of the Manual it *)
(* loaded and, for a finalizer, the one it computed.                       *)
Jobs == [kind : {"finalize", "reindex", "sync"}, step : {"upsert", "prune", "write"},
         chunks : SUBSET ChunkIds, cached : Statuses, final : Statuses]
ASSUME JobsAssumption == None \notin Jobs

VARIABLES
    status,         \* Manual.status
    deleted,        \* Manual.deleted_at IS NOT NULL
    page,           \* where each page is: "pending" and "sent" are unfinished,
                    \* "doubtful" is failed or read with low confidence
    texts,          \* texts each page has had
    stored,         \* pages whose last text has chunks in Postgres
    index,          \* chunk ids in Chroma
    lock,           \* who holds pg_try_advisory_lock("manual:<id>")
    editing,        \* page the owner's edit has checked and not yet replaced
    queue,          \* queued messages; equal ones count once
    job,            \* what each worker is doing
    late,           \* ingests RAG still runs though the caller gave up
    inventory,      \* the inventory the reconciliation has read
    edits, reprocessed, faults

manualVars == <<status, deleted>>
pageVars   == <<page, texts, stored>>
boundVars  == <<edits, reprocessed, faults>>
vars == <<status, deleted, page, texts, stored, index, lock, editing, queue,
          job, late, inventory, edits, reprocessed, faults>>

REPROCESSABLE_MANUAL_STATUSES == {"active", "pending_review", "failed"}
INDEXED_MANUAL_STATUSES == {"active", "pending_review", "hidden"}

Chunk(p) == <<p, texts[p]>>
ChunksOf(S) == {Chunk(p) : p \in S \cap stored}
Chunks == ChunksOf(Pages)

Live == status = "indexing" /\ ~deleted
Unfinished == {p \in Pages : page[p] \in {"pending", "sent"}}

Doubtful == {p \in Pages : page[p] = "doubtful"}

(* resolve_manual_processed_status. Its query has no order: with           *)
(* unfinished and doubtful pages the first row seen decides.               *)
ResolvedStatuses ==
    IF Chunks = {} THEN {"failed"}
    ELSE IF Unfinished # {}
    THEN {"indexing"} \cup {"pending_review" : p \in Doubtful}
    ELSE IF Doubtful # {} THEN {"pending_review"} ELSE {"active"}

Message(kind, p, chunks) == [kind |-> kind, page |-> p, chunks |-> chunks]
ProcessMsg(chunks) == Message("process", None, chunks)
SyncMsg(p, chunks) == Message("sync", p, chunks)
PurgeMsg(chunks)   == Message("purge", None, chunks)
FinalizeMsg        == Message("finalize", None, {})
ReindexMsg         == Message("reindex", None, {})

Job(kind, step, chunks, final) ==
    [kind |-> kind, step |-> step, chunks |-> chunks, cached |-> status,
     final |-> final]
Idle(w) == job[w] = None
At(w, step) == job[w] # None /\ job[w].step = step
Begin(w, j) == job' = [job EXCEPT ![w] = j]
GoTo(w, step) == job' = [job EXCEPT ![w].step = step]
Stop(w) == job' = [job EXCEPT ![w] = None]
Unlock(w) == lock' = IF lock = w THEN NoOne ELSE lock

Fault == faults < MaxFaults /\ faults' = faults + 1

(* A message may be delivered again: a retry, or acks_late. *)
Receive(m) ==
    /\ m \in queue
    /\ \/ queue' = queue \ {m} /\ UNCHANGED faults
       \/ Fault /\ UNCHANGED queue

(* delete_chunks_from_rag, first of all for a message with stale chunks;   *)
(* a failure of the call is only logged.  The task then sends more.        *)
Deliver(m, more) ==
    /\ m \in queue
    /\ \/ /\ queue' = (queue \ {m}) \cup more
          /\ index' = index \ m.chunks
          /\ UNCHANGED faults
       \/ /\ Fault
          /\ \/ queue' = queue \cup more /\ index' = index \ m.chunks
             \/ queue' = (queue \ {m}) \cup more /\ UNCHANGED index

-----------------------------------------------------------------------------
(* A manual that has just been processed and published. *)
Init ==
    /\ page \in [Pages -> {"good", "doubtful"}]
    /\ stored \in SUBSET Pages \ {{}}
    /\ texts = [p \in Pages |-> 1]
    /\ deleted = FALSE
    /\ status \in ResolvedStatuses
    /\ index = Chunks
    /\ lock = NoOne
    /\ editing = None
    /\ queue = {}
    /\ job = [w \in Workers |-> None]
    /\ late = {}
    /\ inventory = None
    /\ edits = 0 /\ reprocessed = 0 /\ faults = 0

-----------------------------------------------------------------------------
(* Requests of the owner.                                                  *)

(* begin_manual_reprocessing and the dispatch of reprocess_manual_task     *)
(* with the ids that will be stale.  It takes no lock.                     *)
Reprocess(S) ==
    /\ reprocessed < MaxReprocess
    /\ ~deleted
    /\ status \in REPROCESSABLE_MANUAL_STATUSES
    /\ status' = "indexing"
    /\ page' = [p \in Pages |-> IF p \in S THEN "pending" ELSE page[p]]
    /\ queue' = queue \cup {ProcessMsg(ChunksOf(S))}
    /\ reprocessed' = reprocessed + 1
    /\ UNCHANGED <<deleted, texts, stored, index, lock, editing, job, late,
                   inventory, edits, faults>>

(* get_page_for_edit finds the page of a manual that still exists, and one *)
(* that is being processed is busy.                                        *)
Editable == ~deleted /\ status # "indexing"

(* edit_page_text: under the lock, the status is checked ...               *)
EditCheck(p) ==
    /\ edits < MaxEdits
    /\ lock = NoOne
    /\ Editable
    /\ lock' = Owner
    /\ editing' = p
    /\ edits' = edits + 1
    /\ UNCHANGED <<manualVars, pageVars, index, queue, job, late, inventory,
                   reprocessed, faults>>

(* ... and the text replaced, whatever happened to the manual in between;  *)
(* then the lock is left and sync_page_rag_task sent.  A text that is not  *)
(* blank, the only kind the API takes, always has chunks.                  *)
EditCommit ==
    /\ editing # None
    /\ texts' = [texts EXCEPT ![editing] = @ + 1]
    /\ stored' = stored \cup {editing}
    /\ page' = [page EXCEPT ![editing] = "good"]
    /\ queue' = queue \cup {SyncMsg(editing, ChunksOf({editing}))}
    /\ lock' = NoOne
    /\ editing' = None
    /\ UNCHANGED <<manualVars, index, job, late, inventory, boundVars>>

(* soft_delete_user_manual and the dispatch of the clean-up. *)
Delete ==
    /\ ~deleted
    /\ deleted' = TRUE
    /\ status' = "hidden"
    /\ queue' = queue \cup {PurgeMsg(Chunks)}
    /\ UNCHANGED <<pageVars, index, lock, editing, job, late, inventory,
                   boundVars>>

-----------------------------------------------------------------------------
(* Tasks.                                                                  *)

(* process_manual_page_task from its claim to the finalizer it sends: a    *)
(* new text, good or doubtful, no text, or a failure that keeps the old    *)
(* one.                                                                    *)
PageTask(p) ==
    /\ Live
    /\ page[p] = "sent"
    /\ \/ /\ texts' = [texts EXCEPT ![p] = @ + 1]
          /\ stored' = stored \cup {p}
          /\ \E state \in {"good", "doubtful"} :
                 page' = [page EXCEPT ![p] = state]
       \/ /\ stored' = stored \ {p}
          /\ page' = [page EXCEPT ![p] = "good"]
          /\ UNCHANGED texts
       \/ /\ page' = [page EXCEPT ![p] = "doubtful"]
          /\ UNCHANGED <<texts, stored>>
    /\ queue' = queue \cup {FinalizeMsg}
    /\ UNCHANGED <<manualVars, index, lock, editing, job, late, inventory,
                   boundVars>>

(* delete_chunks_from_rag_task: a failed call of RAG is only logged. *)
Purge(m) ==
    /\ m.kind = "purge"
    /\ Deliver(m, {})
    /\ UNCHANGED <<manualVars, pageVars, lock, editing, job, late, inventory,
                   edits, reprocessed>>

(* reprocess_manual_task: the stale chunks are dropped from the index and  *)
(* the pending pages sent, or the finalizer if there are none.             *)
Process(m) ==
    LET pending == {p \in Pages : Live /\ page[p] = "pending"}
    IN  /\ m.kind = "process"
        /\ Deliver(m, IF pending = {} THEN {FinalizeMsg} ELSE {})
        /\ page' = [p \in Pages |-> IF p \in pending THEN "sent" ELSE page[p]]
        /\ UNCHANGED <<manualVars, texts, stored, lock, editing, job, late,
                       inventory, edits, reprocessed>>

(* sync_page_rag takes no lock: it loads the manual and the chunks of the  *)
(* page, drops the stale ones from the index and goes on to ingest.        *)
StartSync(w, m) ==
    /\ Idle(w)
    /\ m.kind = "sync"
    /\ ~deleted
    /\ Deliver(m, {})
    /\ LET chunks == ChunksOf({m.page})
       IN  Begin(w, Job("sync", IF chunks = {} THEN "write" ELSE "upsert",
                        chunks, status))
    /\ UNCHANGED <<manualVars, pageVars, lock, editing, late, inventory, edits,
                   reprocessed>>

SkipSync(m) ==
    /\ m.kind = "sync"
    /\ deleted
    /\ Receive(m)
    /\ UNCHANGED <<manualVars, pageVars, index, lock, editing, job, late,
                   inventory, edits, reprocessed>>

(* finalize_manual up to the call of RAG.  A task that finds the lock      *)
(* taken ends, and so does one that finds nothing to do.                   *)
StartFinalize(w) ==
    /\ Idle(w) /\ Receive(FinalizeMsg)
    /\ IF lock # NoOne \/ ~Live \/ Unfinished # {}
       THEN UNCHANGED <<status, lock, job>>
       ELSE IF Chunks = {}
       THEN status' = "failed" /\ UNCHANGED <<lock, job>>
       ELSE /\ lock' = w
            /\ \E final \in ResolvedStatuses :
                 Begin(w, Job("finalize", "upsert", Chunks, final))
            /\ UNCHANGED status
    /\ UNCHANGED <<deleted, pageVars, index, editing, late, inventory, edits,
                   reprocessed>>

(* reindex_manual up to the call of RAG. *)
StartReindex(w) ==
    /\ Idle(w) /\ Receive(ReindexMsg)
    /\ IF lock # NoOne \/ deleted \/ status \notin INDEXED_MANUAL_STATUSES
            \/ Chunks = {}
       THEN UNCHANGED <<lock, job>>
       ELSE /\ lock' = w
            /\ Begin(w, Job("reindex", "upsert", Chunks, "active"))
    /\ UNCHANGED <<manualVars, pageVars, index, editing, late, inventory,
                   edits, reprocessed>>

(* RagRepository.upsert_manual: the chunks are written ...                 *)
Upsert(w) ==
    /\ At(w, "upsert")
    /\ index' = index \cup job[w].chunks
    /\ GoTo(w, "prune")
    /\ UNCHANGED <<manualVars, pageVars, lock, editing, queue, late, inventory,
                   boundVars>>

(* ... and every other chunk of the manual is deleted. *)
Prune(w) ==
    /\ At(w, "prune")
    /\ index' = index \cap job[w].chunks
    /\ GoTo(w, "write")
    /\ UNCHANGED <<manualVars, pageVars, lock, editing, queue, late, inventory,
                   boundVars>>

(* The call of RAG fails before or after writing, or times out and RAG     *)
(* completes it later.  Only a finalizer leaves a trace in the manual.     *)
IngestFails(w) ==
    /\ Fault
    /\ At(w, "upsert") \/ At(w, "prune")
    /\ late' \in {late, late \cup {job[w].chunks}}
    /\ status' = IF job[w].kind = "finalize" THEN "failed" ELSE status
    /\ Unlock(w)
    /\ Stop(w)
    /\ UNCHANGED <<deleted, pageVars, index, editing, queue, inventory, edits,
                   reprocessed>>

LateIngest(chunks) ==
    /\ chunks \in late
    /\ index' = chunks
    /\ late' = late \ {chunks}
    /\ UNCHANGED <<manualVars, pageVars, lock, editing, queue, job, inventory,
                   boundVars>>

(* The lock is kept when the task ends. *)
Write_KeepsLock(w) ==
    /\ At(w, "write")
    /\ \E final \in IF job[w].kind = "sync" THEN ResolvedStatuses
                    ELSE {job[w].final} :
         status' = IF final # job[w].cached THEN final ELSE status
    /\ Stop(w)
    /\ UNCHANGED <<deleted, pageVars, index, lock, editing, queue, late,
                   inventory, boundVars>>

(* mark_manual_indexed, for a finalizer or a reindex, and                  *)
(* mark_page_chunks_indexed, for a sync, which computes the status now.    *)
(* SQLAlchemy writes a column only if it differs from the loaded value.    *)
Write(w) ==
    /\ At(w, "write")
    /\ \E final \in IF job[w].kind = "sync" THEN ResolvedStatuses
                    ELSE {job[w].final} :
         status' = IF final # job[w].cached THEN final ELSE status
    /\ Unlock(w)
    /\ Stop(w)
    /\ UNCHANGED <<deleted, pageVars, index, editing, queue, late, inventory,
                   boundVars>>

-----------------------------------------------------------------------------
(* reconcile_rag_index, every hour: it reads the inventory of the index ...*)
ReadInventory ==
    /\ inventory = None
    /\ inventory' = index
    /\ UNCHANGED <<manualVars, pageVars, index, lock, editing, queue, job,
                   late, boundVars>>

(* list_alive_manual_ids, and list_expected_chunk_ids, which has a set of  *)
(* chunks, that may be empty, for each manual published.                   *)
Alive == ~deleted
Expected == ~deleted /\ status \in INDEXED_MANUAL_STATUSES

Orphans == IF inventory = {} THEN {} ELSE {PurgeMsg(inventory)}

(* Every manual that is not expected is an orphan. *)
Repairs_NotExpected ==
    IF ~Expected \/ Chunks = {} THEN Orphans
    ELSE IF inventory # Chunks THEN {ReindexMsg}
    ELSE {}

(* A manual with something in the index counts as indexed. *)
Repairs_OnlyEmpty ==
    IF ~Alive THEN Orphans
    ELSE IF ~Expected THEN {}
    ELSE IF Chunks = {} THEN Orphans
    ELSE IF inventory = {} THEN {ReindexMsg}
    ELSE {}

(* Orphans are looked for among the manuals that still exist. *)
Repairs_LeavesDeleted ==
    IF ~Expected THEN {}
    ELSE IF Chunks = {} THEN Orphans
    ELSE IF inventory # Chunks THEN {ReindexMsg}
    ELSE {}

(* ... then what Postgres expects, and sends what plan_rag_reconciliation  *)
(* decides.  A manual that is indexing or failed is neither expected nor   *)
(* an orphan.                                                              *)
Repairs ==
    IF ~Alive THEN Orphans
    ELSE IF ~Expected THEN {}
    ELSE IF Chunks = {} THEN Orphans
    ELSE IF inventory # Chunks THEN {ReindexMsg}
    ELSE {}

PlanRepair ==
    /\ inventory # None
    /\ queue' = queue \cup Repairs
    /\ inventory' = None
    /\ UNCHANGED <<manualVars, pageVars, index, lock, editing, job, late,
                   boundVars>>

(* An inventory that does not arrive, or makes no sense, repairs nothing:  *)
(* the next hour asks for it again.                                        *)
InventoryLost ==
    /\ Fault
    /\ inventory # None
    /\ inventory' = None
    /\ UNCHANGED <<manualVars, pageVars, index, lock, editing, queue, job,
                   late, edits, reprocessed>>

-----------------------------------------------------------------------------
Next ==
    \/ Reprocess(Pages)
    \/ \E p \in Pages : Reprocess({p}) \/ EditCheck(p) \/ PageTask(p)
    \/ EditCommit
    \/ Delete
    \/ \E m \in queue : Purge(m) \/ Process(m) \/ SkipSync(m)
    \/ \E w \in Workers :
         \/ \E m \in queue : StartSync(w, m)
         \/ StartFinalize(w)
         \/ StartReindex(w)
         \/ Upsert(w)
         \/ Prune(w)
         \/ IngestFails(w)
         \/ Write(w)
    \/ \E chunks \in late : LateIngest(chunks)
    \/ ReadInventory
    \/ PlanRepair
    \/ InventoryLost

Spec == Init /\ [][Next]_vars

(* Workers finish what they start, the queues are first in first out so    *)
(* that no kind of message waits for ever, and beat keeps ticking.         *)
Fairness ==
    /\ WF_vars(EditCommit)
    /\ WF_vars(ReadInventory) /\ WF_vars(PlanRepair)
    /\ WF_vars(\E chunks \in late : LateIngest(chunks))
    /\ \A w \in Workers :
         WF_vars(Upsert(w) \/ Prune(w) \/ Write(w))
    /\ SF_vars(\E w \in Workers : StartReindex(w))
    /\ SF_vars(\E m \in queue : Purge(m))
    /\ SF_vars(\E w \in Workers, m \in queue : StartSync(w, m))

FairSpec == Spec /\ Fairness

-----------------------------------------------------------------------------
(* Properties.                                                             *)

(* Every variable stays in its domain; the lock belongs to a finalizer or  *)
(* a reindex in progress, or to an edit. *)
TypeOK ==
    /\ status \in Statuses
    /\ deleted \in BOOLEAN
    /\ page \in [Pages -> {"pending", "sent", "good", "doubtful"}]
    /\ texts \in [Pages -> Nat]
    /\ stored \subseteq Pages
    /\ index \subseteq ChunkIds
    /\ lock \in Workers \cup {Owner, NoOne}
    /\ editing # None <=> lock = Owner
    /\ \A w \in Workers :
         lock = w <=> job[w] # None /\ job[w].kind \in {"finalize", "reindex"}

(* A message that asks RAG to drop the chunks of an edited page, or those  *)
(* the reconciliation found without a manual, never names a chunk that     *)
(* Postgres has for a manual in use: however late it runs, it cannot take  *)
(* text in use out of the search.                                          *)
PurgesAreSafe ==
    \A m \in queue :
        m.kind = "sync" \/ (m.kind = "purge" /\ ~deleted)
            => m.chunks \cap Chunks = {}

(* After the owner's last request and the last failure, the index holds    *)
(* exactly the chunks Postgres has, if the manual can be searched: edits,  *)
(* finalizers, repeated messages and answers RAG gives too late only       *)
(* delay it, because the reconciliation keeps comparing both.              *)
IndexConverges ==
    <>[](~deleted /\ status \in INDEXED_MANUAL_STATUSES => index = Chunks)

(* Likewise, the text of a deleted manual ends up out of the index, even   *)
(* if a finalizer was filling it as the manual was deleted.                *)
DeletedIsForgotten == <>[](deleted => index = {})

(* Editing a page leaves the rest of the manual in the index: no step of   *)
(* the task that synchronises the edited page drops a chunk in use.        *)
EditKeepsOtherPages ==
    [][\A w \in Workers :
         ~Idle(w) /\ job[w].kind = "sync" /\ job'[w] # job[w] =>
            index \cap Chunks \subseteq index']_vars

(* A manual with a failed or doubtful page is never published as "active". *)
ActiveHidesNoDoubt == status = "active" => Doubtful = {}
=============================================================================
