--------------------------- MODULE ManualPipeline ---------------------------
(***************************************************************************)
(* Background processing of one manual: the API that accepts, reprocesses  *)
(* and deletes it, the Celery tasks that split it into pages, read each    *)
(* page and finalize it, the per-manual advisory lock, and the periodic    *)
(* recovery tasks.  (api/manuals/service.py, api/manuals/repository.py,    *)
(* api/worker/tasks/manuals.py, api/worker/tasks/maintenance.py.)          *)
(*                                                                         *)
(* Postgres runs in READ COMMITTED: a transaction whose only read is that  *)
(* of its UPDATE is one step; the statements of a finalizer see four       *)
(* moments and are four steps; every await of another service (OCR, the    *)
(* RAG index) separates two steps.  Manuals share nothing but the queue    *)
(* and the workers, so one manual is enough.                               *)
(*                                                                         *)
(* A definition named <Operator>_<Slip> is a slip the code could contain;  *)
(* the specification does not use it.  PROJECT.json pairs each with the    *)
(* property that must catch it.                                            *)
(***************************************************************************)
EXTENDS Naturals, FiniteSets

CONSTANTS
    Pages,          \* rows of manual_pages
    Workers,        \* slots of celery-worker-manuals (--concurrency)
    NoPage,         \* not a page: no page task is running
    NoOne,          \* not a worker: the lock is free
    Faults,         \* kinds of fault that may happen
    MaxFaults,      \* bound: faults in a behaviour
    MaxReprocess,   \* bound: reprocess requests in a behaviour
    MaxDuplicates   \* bound: copies of a message at which the beat stops
                    \*        adding more

FaultKinds == {"dropped", "killed", "redelivered", "page_error",
               "page_timeout", "finalize_timeout"}

ASSUME PagesAssumption == Pages # {} /\ NoPage \notin Pages
ASSUME WorkersAssumption == NoOne \notin Workers
ASSUME FaultsAssumption == Faults \subseteq FaultKinds
ASSUME BoundsAssumption ==
    MaxFaults \in Nat /\ MaxReprocess \in Nat /\ MaxDuplicates \in Nat

VARIABLES
    status,         \* Manual.status
    deleted,        \* Manual.deleted_at IS NOT NULL
    ocr,            \* ManualPage.ocr_status
    quality,        \* ManualPage.text_quality ("none" for NULL)
    lock,           \* who holds pg_try_advisory_lock("manual:<id>")
    processQ,       \* queued process_manual_task or reprocess_manual_task
    pageQ,          \* queued process_manual_page_task, by page
    finalizeQ,      \* queued finalize_manual_task
    at,             \* where each worker is
    on,             \* the page of its page task
    verdict,        \* the final_status its finalizer computed
    faults,         \* faults so far
    reprocessed     \* reprocess requests so far

manualVars == <<status, deleted>>
pageVars   == <<ocr, quality>>
queueVars  == <<processQ, pageQ, finalizeQ>>
workerVars == <<at, on, verdict>>
boundVars  == <<faults, reprocessed>>
vars == <<status, deleted, ocr, quality, lock, processQ, pageQ, finalizeQ,
          at, on, verdict, faults, reprocessed>>

Statuses    == {"indexing", "active", "pending_review", "failed", "hidden"}
OcrStatuses == {"pending", "processing", "completed", "failed"}
Qualities   == {"none", "ok", "empty", "low_confidence"}

PageSteps   == {"check", "work", "notify"}
ClosingSteps == {"count", "resolve", "reject", "publish"}
LockedSteps == {"load", "release"} \cup ClosingSteps
Steps       == {"idle", "failing"} \cup PageSteps \cup LockedSteps

REPROCESSABLE_MANUAL_STATUSES_Busy ==
    {"active", "pending_review", "failed", "indexing"}

REPROCESSABLE_MANUAL_STATUSES == {"active", "pending_review", "failed"}

-----------------------------------------------------------------------------
(* Queries of the repository.                                              *)

(* A page has chunks exactly when its text quality says so: both are       *)
(* written together, and a page that fails keeps those it had.             *)
HasChunks(p) == quality[p] \in {"ok", "low_confidence"}

Unfinished_PendingOnly(p) == ocr[p] = "pending"

Unfinished(p) == ocr[p] \in {"pending", "processing"}

manual_has_unfinished_pages == \E p \in Pages : Unfinished(p)

Live == status = "indexing" /\ ~deleted

PendingPages == {p \in Pages : Live /\ ocr[p] = "pending"}

(* Settled pages that failed or were read with low confidence. *)
Doubtful ==
    {p \in Pages : /\ ~Unfinished(p)
                   /\ ocr[p] = "failed" \/ quality[p] = "low_confidence"}

ResolvedStatuses_NoDoubt ==
    IF \A p \in Pages : ~HasChunks(p) THEN {"failed"}
    ELSE IF manual_has_unfinished_pages THEN {"indexing"}
    ELSE IF \E p \in Pages : ocr[p] = "failed" THEN {"pending_review"}
    ELSE {"active"}

(* resolve_manual_processed_status: the status a manual deserves.  Its     *)
(* query has no order: with unfinished and doubtful pages the first row    *)
(* seen decides; with none unfinished there is one answer.                 *)
ResolvedStatuses ==
    IF \A p \in Pages : ~HasChunks(p) THEN {"failed"}
    ELSE IF manual_has_unfinished_pages
    THEN {"indexing"} \cup {"pending_review" : p \in Doubtful}
    ELSE IF Doubtful # {} THEN {"pending_review"} ELSE {"active"}

(* A processing page that no running task works on any more. *)
Abandoned(p) ==
    /\ ocr[p] = "processing"
    /\ \A w \in Workers : ~(at[w] \in {"check", "work"} /\ on[w] = p)

-----------------------------------------------------------------------------
(* A manual just created by create_manual: committed, its task sent.       *)
Init ==
    /\ status = "indexing"
    /\ deleted = FALSE
    /\ ocr = [p \in Pages |-> "pending"]
    /\ quality = [p \in Pages |-> "none"]
    /\ lock = NoOne
    /\ processQ = 1
    /\ pageQ = [p \in Pages |-> 0]
    /\ finalizeQ = 0
    /\ at = [w \in Workers |-> "idle"]
    /\ on = [w \in Workers |-> NoPage]
    /\ verdict = [w \in Workers |-> "indexing"]
    /\ faults = 0
    /\ reprocessed = 0

GoTo(w, step) == at' = [at EXCEPT ![w] = step]

Fault(kind) ==
    /\ kind \in Faults
    /\ faults < MaxFaults
    /\ faults' = faults + 1
    /\ UNCHANGED reprocessed

-----------------------------------------------------------------------------
(* The slice of page_ids starts one page late. *)
StartProcess_SkipsOne(w) ==
    /\ at[w] = "idle"
    /\ processQ > 0
    /\ processQ' = processQ - 1
    /\ IF PendingPages = {}
       THEN finalizeQ' = finalizeQ + 1 /\ UNCHANGED pageQ
       ELSE /\ \E first \in PendingPages :
                 pageQ' = [p \in Pages |->
                             IF p \in PendingPages \ {first}
                             THEN pageQ[p] + 1 ELSE pageQ[p]]
            /\ UNCHANGED finalizeQ
    /\ UNCHANGED <<manualVars, pageVars, lock, workerVars, boundVars>>

(* _enqueue_manual_pages: one page task per pending page, or the finalizer *)
(* when nothing is pending.                                                *)
EnqueuePages(S) ==
    /\ pageQ' = [p \in Pages |-> IF p \in S THEN pageQ[p] + 1 ELSE pageQ[p]]
    /\ finalizeQ' = IF S = {} THEN finalizeQ + 1 ELSE finalizeQ

(* process_manual_task, and reprocess_manual_task once it has asked the    *)
(* index to drop the stale chunks.                                         *)
StartProcess(w) ==
    /\ at[w] = "idle"
    /\ processQ > 0
    /\ processQ' = processQ - 1
    /\ EnqueuePages(PendingPages)
    /\ UNCHANGED <<manualVars, pageVars, lock, workerVars, boundVars>>

Claimable_Taken(p) == Live /\ Unfinished(p)

Claimable_AnyManual(p) == ocr[p] = "pending"

(* claim_page_for_processing: the condition of its UPDATE, so that of two  *)
(* tasks only one wins.                                                    *)
Claimable(p) == Live /\ ocr[p] = "pending"

(* process_manual_page_task: the claim and its commit.  A task whose page  *)
(* is not pending does nothing but wake the finalizer.                     *)
StartPage(w, p) ==
    /\ at[w] = "idle"
    /\ pageQ[p] > 0
    /\ pageQ' = [pageQ EXCEPT ![p] = @ - 1]
    /\ IF Claimable(p)
       THEN ocr' = [ocr EXCEPT ![p] = "processing"] /\ GoTo(w, "check")
       ELSE GoTo(w, "notify") /\ UNCHANGED ocr
    /\ on' = [on EXCEPT ![w] = p]
    /\ UNCHANGED <<manualVars, quality, lock, processQ, finalizeQ, verdict,
                   boundVars>>

(* After the claim the manual is read again; if it is no longer being      *)
(* processed the task returns and the page stays in "processing".          *)
CheckManual(w) ==
    /\ at[w] = "check"
    /\ GoTo(w, IF Live THEN "work" ELSE "notify")
    /\ UNCHANGED <<manualVars, pageVars, lock, queueVars, on, verdict,
                   boundVars>>

(* replace_page_result: the new text replaces the old chunks.  Neither the *)
(* manual nor the claim is looked at again.                                *)
replace_page_result(p, q) ==
    /\ ocr' = [ocr EXCEPT ![p] = "completed"]
    /\ quality' = [quality EXCEPT ![p] = q]

mark_page_failed(p) ==
    /\ ocr' = [ocr EXCEPT ![p] = "failed"]
    /\ UNCHANGED quality

(* _process_image_page / _process_pdf_page: the qualities of the text read.*)
ReadQualities == Qualities \ {"none"}

(* The final commit of process_manual_page: the text read, or a failure    *)
(* that the handler turns into a failed page.                              *)
SavePage(w) ==
    /\ at[w] = "work"
    /\ \/ \E q \in ReadQualities : replace_page_result(on[w], q)
       \/ mark_page_failed(on[w])
    /\ GoTo(w, "notify")
    /\ UNCHANGED <<manualVars, lock, queueVars, on, verdict, boundVars>>

(* The finally clause of process_manual_page_task. *)
Notify(w) ==
    /\ at[w] = "notify"
    /\ finalizeQ' = finalizeQ + 1
    /\ GoTo(w, "idle")
    /\ on' = [on EXCEPT ![w] = NoPage]
    /\ UNCHANGED <<manualVars, pageVars, lock, processQ, pageQ, verdict,
                   boundVars>>

(* An exception the handlers do not catch, a ConnectionError say: the page *)
(* stays claimed, and Celery may retry the task.                           *)
PageError(w) ==
    /\ Fault("page_error")
    /\ at[w] \in {"check", "work"}
    /\ \/ pageQ' = [pageQ EXCEPT ![on[w]] = @ + 1]
       \/ UNCHANGED pageQ
    /\ GoTo(w, "notify")
    /\ UNCHANGED <<manualVars, pageVars, lock, processQ, finalizeQ, on,
                   verdict>>

(* The finally clause does not run: nothing wakes the finalizer. *)
PageTimeout_NoFinally(w) ==
    /\ Fault("page_timeout")
    /\ at[w] \in {"check", "work"}
    /\ IF Live THEN mark_page_failed(on[w]) ELSE UNCHANGED pageVars
    /\ GoTo(w, "idle")
    /\ UNCHANGED <<manualVars, lock, queueVars, on, verdict>>

(* SoftTimeLimitExceeded in a page task: fail_manual_page. *)
PageTimeout(w) ==
    /\ Fault("page_timeout")
    /\ at[w] \in {"check", "work"}
    /\ IF Live THEN mark_page_failed(on[w]) ELSE UNCHANGED pageVars
    /\ GoTo(w, "notify")
    /\ UNCHANGED <<manualVars, lock, queueVars, on, verdict>>

-----------------------------------------------------------------------------
(* finalize_manual_task.  The lock is tried, not waited for: a task that   *)
(* finds it taken ends, and nothing sends it again.                        *)
StartFinalize(w) ==
    /\ at[w] = "idle"
    /\ finalizeQ > 0
    /\ finalizeQ' = finalizeQ - 1
    /\ IF lock = NoOne
       THEN lock' = w /\ GoTo(w, "load")
       ELSE UNCHANGED <<lock, at>>
    /\ UNCHANGED <<manualVars, pageVars, processQ, pageQ, on, verdict,
                   boundVars>>

(* finalize_manual: get_manual_for_processing.  From here on the manual is *)
(* not read again; a deletion may commit between any two of the steps.     *)
LoadManual(w) ==
    /\ at[w] = "load"
    /\ GoTo(w, IF Live THEN "count" ELSE "release")
    /\ UNCHANGED <<manualVars, pageVars, lock, queueVars, on, verdict,
                   boundVars>>

CountUnfinished(w) ==
    /\ at[w] = "count"
    /\ GoTo(w, IF manual_has_unfinished_pages THEN "release" ELSE "resolve")
    /\ UNCHANGED <<manualVars, pageVars, lock, queueVars, on, verdict,
                   boundVars>>

(* _finalize_manual_locked: the verdict is computed, to be written later.  *)
ResolveVerdict(w) ==
    /\ at[w] = "resolve"
    /\ \E final \in ResolvedStatuses :
         /\ verdict' = [verdict EXCEPT ![w] = final]
         /\ GoTo(w, IF final = "failed" THEN "reject" ELSE "publish")
    /\ UNCHANGED <<manualVars, pageVars, lock, queueVars, on, boundVars>>

(* mark_manual_failed: no page has text. *)
Reject(w) ==
    /\ at[w] = "reject"
    /\ status' = "failed"
    /\ verdict' = [verdict EXCEPT ![w] = "indexing"]
    /\ GoTo(w, "release")
    /\ UNCHANGED <<deleted, pageVars, lock, queueVars, on, boundVars>>

(* A failed call of the index leaves the manual as it was. *)
Publish_KeepsIndexing(w) ==
    /\ at[w] = "publish"
    /\ status' \in {verdict[w], status}
    /\ verdict' = [verdict EXCEPT ![w] = "indexing"]
    /\ GoTo(w, "release")
    /\ UNCHANGED <<deleted, pageVars, lock, queueVars, on, boundVars>>

(* The chunks were read and sent, and the index has answered:              *)
(* mark_manual_indexed with the status computed before the call, or        *)
(* mark_manual_failed.  Neither reads the manual again, and a verdict equal*)
(* to the status it had then is not written.                               *)
Publish(w) ==
    /\ at[w] = "publish"
    /\ status' \in {IF verdict[w] = "indexing" THEN status ELSE verdict[w], "failed"}
    /\ verdict' = [verdict EXCEPT ![w] = "indexing"]
    /\ GoTo(w, "release")
    /\ UNCHANGED <<deleted, pageVars, lock, queueVars, on, boundVars>>

(* Leaving manual_lock. *)
Release(w) ==
    /\ at[w] = "release"
    /\ lock' = NoOne
    /\ GoTo(w, "idle")
    /\ UNCHANGED <<manualVars, pageVars, queueVars, on, verdict, boundVars>>

(* The exception skips the unlock. *)
FinalizeTimeout_KeepsLock(w) ==
    /\ Fault("finalize_timeout")
    /\ at[w] \in ClosingSteps
    /\ verdict' = [verdict EXCEPT ![w] = "indexing"]
    /\ GoTo(w, "failing")
    /\ UNCHANGED <<manualVars, pageVars, queueVars, on, lock>>

(* SoftTimeLimitExceeded after the manual is loaded, while the index is    *)
(* called above all: the exception leaves manual_lock first, and           *)
(* fail_manual follows without it.                                         *)
FinalizeTimeout(w) ==
    /\ Fault("finalize_timeout")
    /\ at[w] \in ClosingSteps
    /\ lock' = NoOne
    /\ verdict' = [verdict EXCEPT ![w] = "indexing"]
    /\ GoTo(w, "failing")
    /\ UNCHANGED <<manualVars, pageVars, queueVars, on>>

FailManual(w) ==
    /\ at[w] = "failing"
    /\ status' = "failed"
    /\ GoTo(w, "idle")
    /\ UNCHANGED <<deleted, pageVars, lock, queueVars, on, verdict, boundVars>>

-----------------------------------------------------------------------------
(* Requests of the owner.                                                  *)

(* begin_manual_reprocessing, its commit and the dispatch of               *)
(* reprocess_manual_task, for one page or for all of them.                 *)
Reprocess(S) ==
    /\ reprocessed < MaxReprocess
    /\ ~deleted
    /\ status \in REPROCESSABLE_MANUAL_STATUSES
    /\ status' = "indexing"
    /\ ocr' = [p \in Pages |-> IF p \in S THEN "pending" ELSE ocr[p]]
    /\ processQ' = processQ + 1
    /\ reprocessed' = reprocessed + 1
    /\ UNCHANGED <<deleted, quality, lock, pageQ, finalizeQ, workerVars,
                   faults>>

(* soft_delete_user_manual takes no lock: tasks of the manual may be       *)
(* running.                                                                *)
Delete ==
    /\ ~deleted
    /\ deleted' = TRUE
    /\ status' = "hidden"
    /\ UNCHANGED <<pageVars, lock, queueVars, workerVars, boundVars>>

-----------------------------------------------------------------------------
(* Periodic recovery (Celery beat).                                        *)

(* recover_stale_manual_pages.  The cutoff is the hard time limit of a     *)
(* page task plus five minutes, so the task that claimed the page is over. *)
RecoverStale ==
    /\ Live
    /\ \E S \in SUBSET {p \in Pages : Abandoned(p)} :
         /\ S # {}
         /\ ocr' = [p \in Pages |-> IF p \in S THEN "failed" ELSE ocr[p]]
    /\ finalizeQ' = finalizeQ + 1
    /\ UNCHANGED <<manualVars, quality, lock, processQ, pageQ, workerVars,
                   boundVars>>

(* recover_manuals_pending_dispatch: only a manual none of whose pages was *)
(* ever claimed (or that is reprocessed as a whole) is sent again.         *)
RecoverDispatch ==
    /\ Live
    /\ \A p \in Pages : ocr[p] = "pending"
    /\ processQ < MaxDuplicates
    /\ \A p \in Pages : pageQ[p] < MaxDuplicates
    /\ processQ' = processQ + 1
    /\ UNCHANGED <<manualVars, pageVars, lock, pageQ, finalizeQ, workerVars,
                   boundVars>>

-----------------------------------------------------------------------------
(* Faults of the broker and of the workers.                                *)

(* A message that is never run: the process that committed dies, or Redis  *)
(* refuses, before the message is sent; or the worker dies as it starts,   *)
(* and Celery acknowledges it (no task_reject_on_worker_lost).             *)
DropMessage ==
    /\ Fault("dropped")
    /\ \/ /\ processQ > 0 /\ processQ' = processQ - 1
          /\ UNCHANGED <<pageQ, finalizeQ>>
       \/ /\ finalizeQ > 0 /\ finalizeQ' = finalizeQ - 1
          /\ UNCHANGED <<processQ, pageQ>>
       \/ /\ \E p \in Pages :
               pageQ[p] > 0 /\ pageQ' = [pageQ EXCEPT ![p] = @ - 1]
          /\ UNCHANGED <<processQ, finalizeQ>>
    /\ UNCHANGED <<manualVars, pageVars, lock, workerVars>>

(* The process of a task dies.  Postgres drops its connection and with it  *)
(* the lock.                                                               *)
Die(w) ==
    /\ at[w] # "idle"
    /\ lock' = IF lock = w THEN NoOne ELSE lock
    /\ GoTo(w, "idle")
    /\ on' = [on EXCEPT ![w] = NoPage]
    /\ verdict' = [verdict EXCEPT ![w] = "indexing"]

(* Hard time limit or a killed child: the message is acknowledged. *)
Kill(w) ==
    /\ Fault("killed")
    /\ Die(w)
    /\ UNCHANGED <<manualVars, pageVars, queueVars>>

(* The whole worker goes down: acks_late makes Redis deliver the message   *)
(* again after the visibility timeout.                                     *)
Redeliver(w) ==
    /\ Fault("redelivered")
    /\ Die(w)
    /\ IF at[w] \in PageSteps
       THEN /\ pageQ' = [pageQ EXCEPT ![on[w]] = @ + 1]
            /\ UNCHANGED finalizeQ
       ELSE /\ finalizeQ' = finalizeQ + 1
            /\ UNCHANGED pageQ
    /\ UNCHANGED <<manualVars, pageVars, processQ>>

-----------------------------------------------------------------------------
PageTask(w)     == CheckManual(w) \/ SavePage(w) \/ Notify(w)
FinalizeTask(w) ==
    \/ LoadManual(w) \/ CountUnfinished(w) \/ ResolveVerdict(w)
    \/ Reject(w) \/ Publish(w) \/ Release(w) \/ FailManual(w)

Next ==
    \/ \E w \in Workers :
         \/ StartProcess(w)
         \/ \E p \in Pages : StartPage(w, p)
         \/ StartFinalize(w)
         \/ CheckManual(w)
         \/ SavePage(w)
         \/ Notify(w)
         \/ PageError(w)
         \/ PageTimeout(w)
         \/ LoadManual(w)
         \/ CountUnfinished(w)
         \/ ResolveVerdict(w)
         \/ Reject(w)
         \/ Publish(w)
         \/ Release(w)
         \/ FinalizeTimeout(w)
         \/ FailManual(w)
         \/ Kill(w)
         \/ Redeliver(w)
    \/ Reprocess(Pages)
    \/ \E p \in Pages : Reprocess({p})
    \/ Delete
    \/ RecoverStale
    \/ RecoverDispatch
    \/ DropMessage

Spec == Init /\ [][Next]_vars

(* Workers run what they have started, the broker is first in first out so *)
(* no message waits behind others for ever, and beat keeps ticking.  The   *)
(* owner's requests and the faults need not happen.                        *)
Fairness ==
    /\ \A w \in Workers : WF_vars(PageTask(w)) /\ WF_vars(FinalizeTask(w))
    /\ SF_vars(\E w \in Workers : StartProcess(w))
    /\ \A p \in Pages : SF_vars(\E w \in Workers : StartPage(w, p))
    /\ SF_vars(\E w \in Workers : StartFinalize(w))
    /\ WF_vars(RecoverStale)
    /\ WF_vars(RecoverDispatch)

FairSpec == Spec /\ Fairness

-----------------------------------------------------------------------------
(* Properties.                                                             *)

(* Every variable stays in its domain. *)
TypeOK ==
    /\ status \in Statuses
    /\ deleted \in BOOLEAN
    /\ ocr \in [Pages -> OcrStatuses]
    /\ quality \in [Pages -> Qualities]
    /\ lock \in Workers \cup {NoOne}
    /\ processQ \in Nat
    /\ pageQ \in [Pages -> Nat]
    /\ finalizeQ \in Nat
    /\ at \in [Workers -> Steps]
    /\ on \in [Workers -> Pages \cup {NoPage}]
    /\ \A w \in Workers : at[w] \in PageSteps <=> on[w] \in Pages
    /\ verdict \in [Workers -> Statuses]
    /\ faults \in Nat
    /\ reprocessed \in Nat

(* manual_lock: a worker is inside a finalizer's critical section exactly  *)
(* while it holds the advisory lock, through timeouts, kills and           *)
(* redeliveries; so two finalizers never overlap and a dead one never      *)
(* keeps the manual locked.                                                *)
LockOwnership ==
    \A w \in Workers : at[w] \in LockedSteps <=> lock = w

(* The claim of a page is exclusive: while a task works on a page, the     *)
(* page is "processing" and no other task works on it, whatever is         *)
(* redelivered, reprocessed or recovered meanwhile.                        *)
ExclusiveClaim ==
    \A v \in Workers :
        at[v] \in {"check", "work"} =>
            /\ ocr[on[v]] = "processing"
            /\ \A w \in Workers \ {v} :
                 at[w] \in {"check", "work"} => on[w] # on[v]

(* finalize_manual publishes the verdict it computed before it called the  *)
(* index.  When it writes it, that verdict is still the one the pages      *)
(* deserve: none is unfinished, "active" hides no failed or doubtful page, *)
(* and there is text behind it.  (What an edit or reindex_manual write     *)
(* later is another matter, and not of this module.)                       *)
PublishedVerdict ==
    [][\A w \in Workers :
        at[w] = "publish" /\ at'[w] = "release" /\ status' # "failed" =>
            /\ ~manual_has_unfinished_pages
            /\ status' \in ResolvedStatuses]_vars

(* A closed manual is quiet: every page is completed or failed, no task    *)
(* works on one and no finalizer is about to write a verdict, so that a    *)
(* reprocess request never finds a page that a task still holds.           *)
QuietWhenClosed ==
    status \in REPROCESSABLE_MANUAL_STATUSES =>
        /\ ~manual_has_unfinished_pages
        /\ \A w \in Workers : at[w] \notin {"check", "work"} \cup ClosingSteps

(* The finalizers that loaded the manual and have still to write a status. *)
Closing == {w \in Workers : at[w] \in ClosingSteps \cup {"failing"}}

(* A deletion takes no lock, and a finalizer that loaded the manual before *)
(* it may still call the index and write its verdict over "hidden".  But   *)
(* nothing brings the manual back, no page is claimed, no other finalizer  *)
(* goes as far and each writes once: when they are over its status is      *)
(* final.                                                                  *)
NoWorkAfterDelete ==
    [][deleted =>
        /\ deleted'
        /\ \A p \in Pages : ocr'[p] = "processing" => ocr[p] = "processing"
        /\ Closing' \subseteq Closing
        /\ status' # status => Closing' # Closing]_vars

(* The pipeline keeps the promise of ManualLifecycle. *)
Lifecycle == INSTANCE ManualLifecycle WITH
    todo  <- {p \in Pages : Unfinished(p)},
    text  <- {p \in Pages : HasChunks(p)},
    doubt <- Doubtful

ImplementsLifecycle == Lifecycle!Spec

(* Pages do not stay in the middle: whatever is killed, redelivered or     *)
(* timed out, all the pages of a manual that is being processed end as     *)
(* completed or failed, unless the manual is deleted or closed as failed   *)
(* by a finalizer that ran out of time.                                    *)
PagesSettle ==
    (Live /\ manual_has_unfinished_pages)
        ~> (~manual_has_unfinished_pages \/ ~Live)

(* Once nothing else goes wrong, a finalizer that is queued when every     *)
(* page is settled and the lock is free closes the manual, although the    *)
(* finalizers that find the lock taken are lost.                           *)
SettledIsPublished ==
    (/\ Live /\ ~manual_has_unfinished_pages
     /\ finalizeQ > 0 /\ lock = NoOne
     /\ faults = MaxFaults) ~> ~Live

(* A manual does not stay in "indexing" for ever. *)
IndexingEnds == Live ~> ~Live
=============================================================================
