----------------------------- MODULE AssetBatches -----------------------------
(***************************************************************************)
(* The files of one account: batches on disk and the rows that refer to    *)
(* them.  An upload, or the worker that renders a page of a PDF, fills a    *)
(* pending batch, commits its rows and adopts the batch; manuals and the   *)
(* account are deleted; an hourly task settles the batches left pending.   *)
(* (api/assets/storage.py, api/manuals/service.py,                         *)
(* api/manuals/repository.py, api/account/.)                               *)
(*                                                                         *)
(* A definition named <Operator>_<Slip> is a slip the code could contain;  *)
(* the specification does not use it.                                      *)
(***************************************************************************)
EXTENDS Naturals

CONSTANTS
    Uploads,        \* batches of uploads, one manual each
    Renders,        \* batches of rendered pages
    ManualOf,       \* the upload whose manual a rendered page belongs to
    Source,         \* what each upload holds: its game and fingerprint
    Size,           \* how many files each upload has
    MaxFaults,      \* bound: faults of requests and page tasks
    MaxSweepFaults  \* bound: faults of the hourly task

Batches == Uploads \cup Renders

ASSUME BatchesAssumption ==
    /\ Uploads \cap Renders = {}
    /\ ManualOf \in [Renders -> Uploads]
    /\ DOMAIN Source = Uploads
    /\ Size \in [Uploads -> Nat \ {0}]
ASSUME BoundsAssumption == MaxFaults \in Nat /\ MaxSweepFaults \in Nat

VARIABLES
    account,        \* User.status
    step,           \* where the writer of each batch is
    dir,            \* the directory of the batch exists
    marker,         \* it holds ".pending"
    files,          \* the files promoted in it
    old,            \* the marker passed ASSET_PENDING_BATCH_TTL_SECONDS
    row,            \* its Asset rows
    hidden,         \* the manuals whose deleted_at is set
    deleting,       \* the manuals whose deletion read its assets
    seen,           \* the assets that each of these deletions read
    purge,          \* where the deletion of the account is
    keys,           \* the assets whose storage_key it read
    hiding,         \* the manuals it updated
    marking,        \* the assets it updated
    unlinks,        \* batches whose files a deletion still has to unlink
    sweep,          \* where reconcile_pending_asset_batches is
    listed,         \* the batches it listed
    current,        \* the batch it settles
    faults,         \* faults so far, of requests and page tasks
    sweepFaults     \* and of the hourly task

diskVars  == <<dir, marker, files, old>>
sweepVars == <<sweep, listed, current, sweepFaults>>
purgeVars == <<purge, keys, hiding, marking>>
deletionVars == <<hidden, deleting, seen, purgeVars>>
vars == <<account, step, diskVars, row, deletionVars, unlinks, sweepVars, faults>>

FilesOf(b) == IF b \in Uploads THEN 1 .. Size[b] ELSE {1}
Pages == UNION {FilesOf(b) : b \in Batches}

WriterSteps == {"new", "marking", "filling", "inserting", "committing",
                "adopting", "aborting", "removing", "done"}
RowStates == {"none", "flushed", "live", "deleted"}
PurgeSteps == {"idle", "read", "hid", "marked"}
SweepSteps == {"idle", "checking", "adopting", "removing"}

-----------------------------------------------------------------------------
Init ==
    /\ account = "active"
    /\ step = [b \in Batches |-> "new"]
    /\ dir = [b \in Batches |-> FALSE]
    /\ marker = [b \in Batches |-> FALSE]
    /\ files = [b \in Batches |-> {}]
    /\ old = [b \in Batches |-> FALSE]
    /\ row = [b \in Batches |-> "none"]
    /\ hidden = {}
    /\ deleting = {}
    /\ seen = [u \in Uploads |-> {}]
    /\ purge = "idle"
    /\ keys = {}
    /\ hiding = {}
    /\ marking = {}
    /\ unlinks = {}
    /\ sweep = "idle"
    /\ listed = {}
    /\ current = {}
    /\ faults = 0
    /\ sweepFaults = 0

(* A disk error, a lost commit or the death of a process. *)
Fault == faults < MaxFaults /\ faults' = faults + 1

GoTo(b, s) == step' = [step EXCEPT ![b] = s]
SetRow(b, r) == row' = [row EXCEPT ![b] = r]

-----------------------------------------------------------------------------
(* The writer of a batch: create_manual, _persist_pdf_page_image.          *)

(* _assert_batch_directory: a batch with its marker is still its writer's. *)
IsPending(b) == dir[b] /\ marker[b]

(* The manual that an asset belongs to, and whether it is there: it keeps  *)
(* its place in the unique index when only its assets were deleted.        *)
Owner(b) == IF b \in Uploads THEN b ELSE ManualOf[b]
Live(u) == row[u] \in {"live", "deleted"} /\ u \notin hidden

(* The request was authenticated; a page is rendered for a manual that is  *)
(* there and whose source can be read.  _create_pending_batch: its         *)
(* directory.                                                              *)
MakeDirectory(b) ==
    /\ step[b] = "new"
    /\ IF b \in Uploads THEN account = "active"
       ELSE Live(ManualOf[b]) /\ row[ManualOf[b]] = "live"
    /\ dir' = [dir EXCEPT ![b] = TRUE]
    /\ GoTo(b, "marking")
    /\ UNCHANGED <<account, marker, files, old, row, deletionVars, unlinks, sweepVars, faults>>

(* _create_pending_batch: its marker.  When it cannot be written, the      *)
(* directory is removed if possible.                                       *)
MakeMarker(b) ==
    /\ step[b] = "marking"
    /\ \/ /\ marker' = [marker EXCEPT ![b] = TRUE]
          /\ GoTo(b, "filling")
          /\ UNCHANGED <<dir, faults>>
       \/ /\ Fault
          /\ \E left \in BOOLEAN : dir' = [dir EXCEPT ![b] = left]
          /\ GoTo(b, "done")
          /\ UNCHANGED marker
    /\ UNCHANGED <<account, files, old, row, deletionVars, unlinks, sweepVars>>

(* stage and promote of the next file; the batch must still be pending.    *)
Promote(b) ==
    /\ step[b] = "filling"
    /\ IsPending(b)
    /\ \E f \in FilesOf(b) \ files[b] :
         /\ \A g \in FilesOf(b) \ files[b] : f <= g
         /\ files' = [files EXCEPT ![b] = @ \cup {f}]
         /\ GoTo(b, IF FilesOf(b) \subseteq files[b] \cup {f}
                    THEN "inserting" ELSE "filling")
    /\ UNCHANGED <<account, dir, marker, old, row, deletionVars, unlinks, sweepVars, faults>>

(* _manual_source_fingerprint: the uploads that are the same manual. *)
Duplicates(b) ==
    IF b \in Renders THEN {}
    ELSE {u \in Uploads \ {b} : Source[u] = Source[b]}

(* The fingerprints are compared with those committed, and there is no     *)
(* unique index.                                                           *)
Insert_NoIndex(b) ==
    /\ step[b] = "inserting"
    /\ IF \E u \in Duplicates(b) : Live(u)
       THEN GoTo(b, "aborting") /\ UNCHANGED row
       ELSE GoTo(b, "committing") /\ SetRow(b, "flushed")
    /\ UNCHANGED <<account, diskVars, deletionVars, unlinks, sweepVars, faults>>

(* The flush of create_manual_with_pending_pages, or of                    *)
(* attach_page_image_asset, whose page is never deleted from its table.    *)
(* uq_manuals_live_source_fingerprint waits for the other transaction that *)
(* inserts or deletes the same manual, and refuses the one that comes      *)
(* second.                                                                 *)
Insert(b) ==
    /\ step[b] = "inserting"
    /\ \A u \in Duplicates(b) : row[u] # "flushed" /\ u \notin hiding
    /\ IF \E u \in Duplicates(b) : Live(u)
       THEN GoTo(b, "aborting") /\ UNCHANGED row
       ELSE GoTo(b, "committing") /\ SetRow(b, "flushed")
    /\ UNCHANGED <<account, diskVars, deletionVars, unlinks, sweepVars, faults>>

(* validate_manual_image, validate_manual_pdf: a file that is not what it  *)
(* says, is too large or has too many pages or pixels; its temporary is    *)
(* removed, and the batch aborted.                                         *)
InvalidFile(b) ==
    /\ step[b] = "filling"
    /\ GoTo(b, "aborting")
    /\ UNCHANGED <<account, diskVars, row, deletionVars, unlinks, sweepVars, faults>>

(* Before the commit, a disk error or a request that is cancelled rolls    *)
(* back and aborts the batch too.                                          *)
StagingFails(b) ==
    /\ step[b] \in {"filling", "inserting"}
    /\ Fault
    /\ GoTo(b, "aborting")
    /\ UNCHANGED <<account, diskVars, row, deletionVars, unlinks, sweepVars>>

Commit(b) ==
    /\ step[b] = "committing"
    /\ SetRow(b, "live")
    /\ GoTo(b, "adopting")
    /\ UNCHANGED <<account, diskVars, deletionVars, unlinks, sweepVars, faults>>

(* The commit is refused: IntegrityError, nothing was written.  The code   *)
(* of an upload aborts its batch; the one of a page keeps it pending.      *)
CommitRefused(b) ==
    /\ step[b] = "committing"
    /\ Fault
    /\ SetRow(b, "none")
    /\ GoTo(b, IF b \in Uploads THEN "aborting" ELSE "done")
    /\ UNCHANGED <<account, diskVars, deletionVars, unlinks, sweepVars>>

(* Any error of the commit aborts the batch. *)
CommitUnknown_Aborts(b) ==
    /\ step[b] = "committing"
    /\ Fault
    /\ \E r \in {"live", "none"} : SetRow(b, r)
    /\ GoTo(b, "aborting")
    /\ UNCHANGED <<account, diskVars, deletionVars, unlinks, sweepVars>>

(* The connection is lost while Postgres commits: the rows are there or    *)
(* not, and the writer cannot know; the batch stays pending.               *)
CommitUnknown(b) ==
    /\ step[b] = "committing"
    /\ Fault
    /\ \E r \in {"live", "none"} : SetRow(b, r)
    /\ GoTo(b, "done")
    /\ UNCHANGED <<account, diskVars, deletionVars, unlinks, sweepVars>>

(* _adopt_committed_batch_safely: an error leaves the marker. *)
Adopt(b) ==
    /\ step[b] = "adopting"
    /\ \/ marker' = [marker EXCEPT ![b] = FALSE] /\ UNCHANGED faults
       \/ Fault /\ UNCHANGED marker
    /\ GoTo(b, "done")
    /\ UNCHANGED <<account, dir, files, old, row, deletionVars, unlinks, sweepVars>>

(* _abort_batch_safely: only a batch that is pending. *)
Abort(b) ==
    /\ step[b] = "aborting"
    /\ GoTo(b, IF IsPending(b) THEN "removing" ELSE "done")
    /\ UNCHANGED <<account, diskVars, row, deletionVars, unlinks, sweepVars, faults>>

(* shutil.rmtree: one entry at a time, the marker too, in any order; the   *)
(* directory last.                                                         *)
RemoveEntry(b) ==
    \/ /\ marker[b]
       /\ marker' = [marker EXCEPT ![b] = FALSE]
       /\ UNCHANGED <<dir, files>>
    \/ /\ \E f \in files[b] : files' = [files EXCEPT ![b] = @ \ {f}]
       /\ UNCHANGED <<dir, marker>>
    \/ /\ ~marker[b] /\ files[b] = {}
       /\ dir' = [dir EXCEPT ![b] = FALSE]
       /\ UNCHANGED <<marker, files>>

Remove(b) ==
    /\ step[b] = "removing"
    /\ RemoveEntry(b)
    /\ GoTo(b, IF dir'[b] THEN "removing" ELSE "done")
    /\ UNCHANGED <<account, old, row, deletionVars, unlinks, sweepVars, faults>>

(* Removing fails half way: what is left stays there. *)
RemoveFails(b) ==
    /\ step[b] = "removing"
    /\ Fault
    /\ GoTo(b, "done")
    /\ UNCHANGED <<account, diskVars, row, deletionVars, unlinks, sweepVars>>

(* The process of the writer dies; Postgres may have received the commit.  *)
Crash(b) ==
    /\ step[b] \notin {"new", "done"}
    /\ Fault
    /\ \/ row[b] = "flushed" /\ SetRow(b, "none")
       \/ row[b] = "flushed" /\ SetRow(b, "live")
       \/ row[b] # "flushed" /\ UNCHANGED row
    /\ GoTo(b, "done")
    /\ UNCHANGED <<account, diskVars, deletionVars, unlinks, sweepVars>>

-----------------------------------------------------------------------------
(* Deletions.  Each statement sees what is committed when it starts, so    *)
(* an upload or a page may be committed between two of them.  Rows first,  *)
(* in one transaction; the files of the rows that were read, afterwards.   *)
(* One deletion of each manual, and one of the account, at a time.         *)

Mark(bs) == row' = [b \in Batches |-> IF b \in bs THEN "deleted" ELSE row[b]]

(* soft_delete_user_manual: the manual, and its assets as they are now. *)
ReadManual(u) ==
    /\ account = "active"
    /\ Live(u) /\ u \notin deleting
    /\ deleting' = deleting \cup {u}
    /\ seen' = [seen EXCEPT ![u] = {b \in Batches : Owner(b) = u /\ row[b] = "live"}]
    /\ UNCHANGED <<account, step, diskVars, row, hidden, purgeVars, unlinks,
                   sweepVars, faults>>

EndDeletion(u) ==
    /\ u \in deleting
    /\ deleting' = deleting \ {u}
    /\ seen' = [seen EXCEPT ![u] = {}]

(* delete_manual: its flush, which waits for the rows that the deletion of *)
(* the account updated, and its commit; of the assets, only those it read. *)
DeleteManual(u) ==
    /\ EndDeletion(u)
    /\ u \notin hiding /\ seen[u] \cap marking = {}
    /\ hidden' = hidden \cup {u}
    /\ Mark(seen[u])
    /\ unlinks' = unlinks \cup seen[u]
    /\ UNCHANGED <<account, step, diskVars, purgeVars, sweepVars, faults>>

(* The request dies, is cancelled or is rolled back before its commit. *)
AbandonManual(u) ==
    /\ EndDeletion(u)
    /\ UNCHANGED <<account, step, diskVars, row, hidden, purgeVars, unlinks,
                   sweepVars, faults>>

(* purge_user_account: first the storage keys of the live assets. *)
ReadKeys ==
    /\ account = "active"
    /\ purge = "idle"
    /\ purge' = "read"
    /\ keys' = {b \in Batches : row[b] = "live"}
    /\ UNCHANGED <<account, step, diskVars, row, hidden, deleting, seen, hiding,
                   marking, unlinks, sweepVars, faults>>

(* The UPDATE of its manuals. *)
HideManuals ==
    /\ purge = "read"
    /\ purge' = "hid"
    /\ hiding' = {u \in Uploads : Live(u)}
    /\ UNCHANGED <<account, step, diskVars, row, hidden, deleting, seen, keys,
                   marking, unlinks, sweepVars, faults>>

(* The UPDATE of its assets, which may include some whose key was not read.*)
MarkAssets ==
    /\ purge = "hid"
    /\ purge' = "marked"
    /\ marking' = {b \in Batches : row[b] = "live"}
    /\ UNCHANGED <<account, step, diskVars, row, hidden, deleting, seen, keys,
                   hiding, unlinks, sweepVars, faults>>

EndPurge == purge' = "idle" /\ keys' = {} /\ hiding' = {} /\ marking' = {}

(* delete_account: the commit of everything. *)
DeleteAccount ==
    /\ purge = "marked"
    /\ EndPurge
    /\ account' = "deleted"
    /\ hidden' = hidden \cup hiding
    /\ Mark(marking)
    /\ unlinks' = unlinks \cup keys
    /\ UNCHANGED <<step, diskVars, deleting, seen, sweepVars, faults>>

AbandonAccount ==
    /\ purge # "idle"
    /\ EndPurge
    /\ UNCHANGED <<account, step, diskVars, row, hidden, deleting, seen, unlinks,
                   sweepVars, faults>>

(* delete_stored_file of each file of a batch, which is not tried again    *)
(* when it fails.  Nobody else opens or removes them, and the directory    *)
(* stays.                                                                  *)
Unlink(b) ==
    /\ b \in unlinks
    /\ unlinks' = unlinks \ {b}
    /\ \/ files' = [files EXCEPT ![b] = {}] /\ UNCHANGED faults
       \/ /\ Fault
          /\ \E left \in SUBSET files[b] : files' = [files EXCEPT ![b] = left]
    /\ UNCHANGED <<account, step, dir, marker, old, row, deletionVars, sweepVars>>

(* The process that deletes dies between the commit and its files. *)
CrashUnlinks ==
    /\ unlinks # {}
    /\ Fault
    /\ unlinks' = {}
    /\ UNCHANGED <<account, step, diskVars, row, deletionVars, sweepVars>>

-----------------------------------------------------------------------------
(* reconcile_pending_asset_batches, every hour.                            *)

(* A day passes.  A request and a page task end well before: the hard time *)
(* limit of a task is minutes, and an upload is written after it arrived.  *)
Age(b) ==
    /\ step[b] = "done"
    /\ marker[b] /\ ~old[b]
    /\ old' = [old EXCEPT ![b] = TRUE]
    /\ UNCHANGED <<account, step, dir, marker, files, row, deletionVars, unlinks, sweepVars,
                   faults>>

(* list_pending_batches. *)
Expired == {b \in Batches : IsPending(b) /\ old[b]}

List ==
    /\ sweep = "idle"
    /\ Expired # {}
    /\ sweep' = "checking"
    /\ listed' = Expired
    /\ UNCHANGED <<account, step, diskVars, row, deletionVars, unlinks, current,
                   faults, sweepFaults>>

(* asset_storage_prefix_is_referenced: rows deleted since count too. *)
Referenced(b) == row[b] \in {"live", "deleted"}

(* The next batch listed: whether rows refer to it.  Aborting one whose    *)
(* directory is gone does nothing; one that is not pending any more is an  *)
(* error that ends the task.                                               *)
Check(b) ==
    /\ sweep = "checking"
    /\ b \in listed
    /\ listed' = listed \ {b}
    /\ IF Referenced(b)
       THEN sweep' = "adopting" /\ current' = {b}
       ELSE IF IsPending(b)
       THEN sweep' = "removing" /\ current' = {b}
       ELSE /\ sweep' = IF dir[b] THEN "idle" ELSE "checking"
            /\ UNCHANGED current
    /\ UNCHANGED <<account, step, diskVars, row, deletionVars, unlinks, faults,
                   sweepFaults>>

EndSweep ==
    /\ sweep = "checking"
    /\ listed = {}
    /\ sweep' = "idle"
    /\ UNCHANGED <<account, step, diskVars, row, deletionVars, unlinks, listed,
                   current, faults, sweepFaults>>

NextListed ==
    sweep' = "checking" /\ current' = {} /\ UNCHANGED <<listed, sweepFaults>>

(* Nothing to do for a batch that is in use. *)
SweepAdopt_KeepsMarker(b) ==
    /\ sweep = "adopting"
    /\ b \in current
    /\ NextListed
    /\ UNCHANGED <<account, step, diskVars, row, deletionVars, unlinks, faults>>

(* reconcile_batch of a batch that rows refer to. *)
SweepAdopt(b) ==
    /\ sweep = "adopting"
    /\ b \in current
    /\ marker' = [marker EXCEPT ![b] = FALSE]
    /\ NextListed
    /\ UNCHANGED <<account, step, dir, files, old, row, deletionVars, unlinks, faults>>

(* reconcile_batch of one that no row refers to. *)
SweepRemove(b) ==
    /\ sweep = "removing"
    /\ b \in current
    /\ RemoveEntry(b)
    /\ IF dir'[b] THEN UNCHANGED sweepVars ELSE NextListed
    /\ UNCHANGED <<account, step, old, row, deletionVars, unlinks, faults>>

(* A disk error or the death of the worker ends the task where it is. *)
SweepFails ==
    /\ sweep # "idle"
    /\ sweepFaults < MaxSweepFaults
    /\ sweepFaults' = sweepFaults + 1
    /\ sweep' = "idle"
    /\ listed' = {}
    /\ current' = {}
    /\ UNCHANGED <<account, step, diskVars, row, deletionVars, unlinks, faults>>

-----------------------------------------------------------------------------
Writer(b) ==
    \/ MakeMarker(b) \/ Promote(b) \/ Insert(b) \/ Commit(b) \/ Adopt(b)
    \/ Abort(b) \/ Remove(b)

WriterFails(b) ==
    \/ InvalidFile(b) \/ StagingFails(b) \/ CommitRefused(b) \/ CommitUnknown(b)
    \/ RemoveFails(b) \/ Crash(b)

Sweep ==
    \/ List
    \/ \E b \in Batches : Check(b) \/ SweepAdopt(b) \/ SweepRemove(b)
    \/ EndSweep

Deletion ==
    \/ \E u \in Uploads : ReadManual(u) \/ DeleteManual(u) \/ AbandonManual(u)
    \/ ReadKeys \/ HideManuals \/ MarkAssets \/ DeleteAccount \/ AbandonAccount

Next ==
    \/ \E b \in Batches : MakeDirectory(b) \/ Writer(b) \/ WriterFails(b) \/ Age(b)
    \/ Deletion
    \/ \E b \in Batches : Unlink(b)
    \/ CrashUnlinks
    \/ Sweep \/ SweepFails

Spec == Init /\ [][Next]_vars

(* A writer that started goes on, time passes, and the beat keeps sending  *)
(* the hourly task.  Uploads, deletions and faults need not happen.        *)
Fairness ==
    /\ WF_vars(\E b \in Batches : Writer(b))
    /\ WF_vars(\E b \in Batches : Age(b))
    /\ WF_vars(Sweep)

FairSpec == Spec /\ Fairness

-----------------------------------------------------------------------------
(* Properties.                                                             *)

(* Every variable stays in its domain; what a batch holds is in its        *)
(* directory; rows are flushed only while their writer commits them; and   *)
(* the hourly task settles one batch at a time.                            *)
TypeOK ==
    /\ account \in {"active", "deleted"}
    /\ step \in [Batches -> WriterSteps]
    /\ dir \in [Batches -> BOOLEAN]
    /\ marker \in [Batches -> BOOLEAN]
    /\ files \in [Batches -> SUBSET Pages]
    /\ \A b \in Batches : marker[b] \/ files[b] # {} => dir[b]
    /\ old \in [Batches -> BOOLEAN]
    /\ row \in [Batches -> RowStates]
    /\ \A b \in Batches : row[b] = "flushed" <=> step[b] = "committing"
    /\ hidden \subseteq Uploads /\ deleting \subseteq Uploads
    /\ seen \in [Uploads -> SUBSET Batches]
    /\ purge \in PurgeSteps
    /\ keys \subseteq Batches /\ hiding \subseteq Uploads /\ marking \subseteq Batches
    /\ purge = "idle" => keys = {}
    /\ purge \in {"idle", "read"} => hiding = {}
    /\ purge # "marked" => marking = {}
    /\ unlinks \subseteq Batches
    /\ sweep \in SweepSteps
    /\ listed \subseteq Batches
    /\ IF sweep \in {"adopting", "removing"}
       THEN \E b \in Batches : current = {b}
       ELSE current = {}
    /\ faults \in Nat /\ sweepFaults \in Nat

(* A file that a live row names is on disk: neither a writer that gives up *)
(* nor the hourly task ever removes the batch of an upload that was        *)
(* committed, even when nobody learned that it was.                        *)
LiveFilesExist ==
    \A b \in Batches : row[b] = "live" => dir[b] /\ files[b] = FilesOf(b)

(* get_asset_for_processing, with no look at the manual. *)
Openable_AnyManual(b) == row[b] = "live"

(* get_readable_manual_page_image_asset: an asset that is not deleted, of  *)
(* a manual that is not deleted.                                           *)
Openable(b) == row[b] = "live" /\ Owner(b) \notin hidden

(* What can be opened of each batch, and what never will be again. *)
Shown == [b \in Batches |-> IF Openable(b) /\ dir[b] THEN files[b] ELSE {}]
Gone == {b \in Batches : row[b] = "deleted" \/ Owner(b) \in hidden}

(* Behind directories, transactions of several statements, crashes and the *)
(* hourly task, the owner sees what AssetStore promises: an upload appears *)
(* whole and once, never next to another of the same manual; its deletion  *)
(* takes every page image in the same step, also one committed after the   *)
(* deletion had read the assets; and the deletion of the account takes all *)
(* that could be opened when it started.                                   *)
Store == INSTANCE AssetStore WITH
    Manuals  <- Uploads,
    Images   <- Renders,
    Contents <- [b \in Batches |-> FilesOf(b)],
    shown    <- Shown,
    gone     <- Gone,
    asked    <- {b \in keys : Shown[b] # {}}

ImplementsStore == Store!Spec

(* Batches left pending, or in the hands of the hourly task. *)
Pending == {b \in Batches : step[b] = "done" /\ marker[b]} \cup current

(* As faults are few, no batch stays pending for ever: the hourly task     *)
(* adopts those that rows refer to, and removes all that the others hold.  *)
PendingSettles == []<>(Pending = {})

=============================================================================
