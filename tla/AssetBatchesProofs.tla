------------------------- MODULE AssetBatchesProofs -------------------------
(***************************************************************************)
(* The files of what is committed stay on disk: proofs, for any number of  *)
(* uploads, rendered pages, files and faults.                              *)
(***************************************************************************)
EXTENDS AssetBatches, TLAPS

(* What a batch holds, by where its writer is.                             *)
Shape(b) ==
    /\ files[b] \subseteq FilesOf(b)
    /\ step[b] = "new" => ~marker[b] /\ files[b] = {} /\ row[b] = "none"
    /\ step[b] = "marking" => dir[b] /\ ~marker[b] /\ files[b] = {} /\ row[b] = "none"
    /\ step[b] \in {"filling", "inserting"} => marker[b] /\ row[b] = "none"
    /\ step[b] \in {"aborting", "removing"} => row[b] = "none"
    /\ step[b] = "adopting" => row[b] \in {"live", "deleted"}
    /\ step[b] \in {"inserting", "committing"} => files[b] = FilesOf(b)
    /\ step[b] = "committing" => dir[b]
    /\ row[b] = "live" => dir[b] /\ files[b] = FilesOf(b)

(* What settles a batch, or unlinks its files, finds nothing to lose.      *)
Settled ==
    /\ \A b \in Batches : old[b] \/ b \in listed \cup current => step[b] = "done"
    /\ sweep = "removing" => \A b \in current : row[b] = "none"
    /\ \A b \in unlinks : row[b] = "deleted"

(* What the deletions read was committed before, and what the deletion of  *)
(* the account will unlink is deleted with it at the latest.               *)
Committed(bs) == \A b \in bs : row[b] \in {"live", "deleted"}

Deletions ==
    /\ Committed(hidden) /\ Committed(deleting) /\ Committed(hiding)
    /\ Committed(keys) /\ Committed(marking)
    /\ \A u \in Uploads : \A b \in seen[u] : Owner(b) = u /\ row[b] \in {"live", "deleted"}
    /\ purge = "marked" => \A b \in keys : row[b] = "live" => b \in marking

FileInv == TypeOK /\ (\A b \in Batches : Shape(b)) /\ Settled

IndInv == FileInv /\ Deletions

-----------------------------------------------------------------------------
LEMMA FilesAreTyped ==
    ASSUME NEW b \in Batches
    PROVE  FilesOf(b) \subseteq Pages /\ FilesOf(b) # {}
  <1>1. b \in Uploads => 1 \in 1 .. Size[b]
    BY BatchesAssumption
  <1> QED
    BY <1>1 DEF FilesOf, Pages

(* shutil.rmtree only takes away, and what it leaves has a directory.      *)
LEMMA RemoveEntryKeeps ==
    ASSUME TypeOK, NEW b \in Batches, RemoveEntry(b)
    PROVE  /\ dir' \in [Batches -> BOOLEAN] /\ marker' \in [Batches -> BOOLEAN]
           /\ files' \in [Batches -> SUBSET Pages]
           /\ files'[b] \subseteq files[b]
           /\ marker'[b] \/ files'[b] # {} => dir'[b]
           /\ \A c \in Batches \ {b} :
                dir'[c] = dir[c] /\ marker'[c] = marker[c] /\ files'[c] = files[c]
  <1> USE DEF TypeOK
  <1>1. CASE /\ marker[b] /\ marker' = [marker EXCEPT ![b] = FALSE]
             /\ UNCHANGED <<dir, files>>
    BY <1>1
  <1>2. CASE /\ \E f \in files[b] : files' = [files EXCEPT ![b] = @ \ {f}]
             /\ UNCHANGED <<dir, marker>>
    BY <1>2
  <1>3. CASE /\ ~marker[b] /\ files[b] = {}
             /\ dir' = [dir EXCEPT ![b] = FALSE]
             /\ UNCHANGED <<marker, files>>
    BY <1>3
  <1> QED
    BY <1>1, <1>2, <1>3 DEF RemoveEntry

LEMMA InitInv == Init => IndInv
  <1> SUFFICES ASSUME Init PROVE IndInv
    OBVIOUS
  <1>1. TypeOK
    BY DEF Init, TypeOK, WriterSteps, RowStates, PurgeSteps, SweepSteps
  <1>2. \A b \in Batches : Shape(b)
    BY DEF Init, Shape
  <1>3. Settled
    BY DEF Init, Settled
  <1>4. Deletions
    BY DEF Init, Deletions, Committed
  <1> QED
    BY <1>1, <1>2, <1>3, <1>4 DEF IndInv, FileInv

(* Only the deletions change rows that are committed.                      *)
LEMMA DeletionsKept ==
    ASSUME TypeOK, Deletions, UNCHANGED deletionVars,
           \A b \in Batches : row[b] \in {"live", "deleted"} => row'[b] = row[b]
    PROVE  Deletions'
  <1>1. /\ hidden' = hidden /\ deleting' = deleting /\ seen' = seen /\ purge' = purge
        /\ keys' = keys /\ hiding' = hiding /\ marking' = marking
    BY DEF deletionVars, purgeVars
  <1>2. /\ hidden \subseteq Batches /\ deleting \subseteq Batches /\ hiding \subseteq Batches
        /\ keys \subseteq Batches /\ marking \subseteq Batches
        /\ \A u \in Uploads : seen[u] \subseteq Batches
    BY DEF TypeOK, Batches
  <1>3. ASSUME NEW bs \in SUBSET Batches, Committed(bs)
        PROVE  \A b \in bs : row'[b] \in {"live", "deleted"}
    BY <1>3 DEF Committed
  <1> QED
    BY <1>1, <1>2, <1>3 DEF Deletions, Committed

-----------------------------------------------------------------------------
(* Writers.                                                                *)

LEMMA WriterKeepsFiles ==
    ASSUME FileInv, NEW b \in Batches, MakeDirectory(b) \/ Writer(b) \/ WriterFails(b)
    PROVE  FileInv'
  <1> USE FilesAreTyped
      DEF FileInv, TypeOK, Shape, Settled, diskVars, sweepVars, deletionVars, purgeVars,
          GoTo, SetRow, Fault, WriterSteps, RowStates, PurgeSteps, SweepSteps
  <1>1. CASE MakeDirectory(b)
    BY <1>1 DEF MakeDirectory
  <1>2. CASE MakeMarker(b)
    <2>1. /\ \/ marker' = [marker EXCEPT ![b] = TRUE] /\ dir' = dir
             \/ /\ marker' = marker
                /\ dir' = [dir EXCEPT ![b] = TRUE] \/ dir' = [dir EXCEPT ![b] = FALSE]
          /\ step' \in [Batches -> WriterSteps] /\ faults' \in Nat
      BY <1>2 DEF MakeMarker
    <2>2. marker' \in [Batches -> BOOLEAN] /\ dir' \in [Batches -> BOOLEAN]
      BY <2>1
    <2>3. TypeOK'
      BY <1>2, <2>1, <2>2 DEF MakeMarker
    <2>4. ASSUME NEW c \in Batches PROVE Shape(c)'
      BY <1>2 DEF MakeMarker
    <2>5. Settled'
      BY <1>2 DEF MakeMarker
    <2> QED
      BY <2>3, <2>4, <2>5
  <1>3. CASE Promote(b)
    BY <1>3 DEF Promote, IsPending
  <1>4. CASE Insert(b)
    BY <1>4 DEF Insert
  <1>5. CASE InvalidFile(b) \/ StagingFails(b)
    BY <1>5 DEF InvalidFile, StagingFails
  <1>6. CASE Commit(b)
    BY <1>6 DEF Commit
  <1>7. CASE CommitRefused(b)
    BY <1>7 DEF CommitRefused
  <1>8. CASE CommitUnknown(b)
    BY <1>8 DEF CommitUnknown
  <1>9. CASE Adopt(b)
    <2>1. /\ marker' = [marker EXCEPT ![b] = FALSE] \/ marker' = marker
          /\ faults' \in Nat
      BY <1>9 DEF Adopt
    <2>2. marker' \in [Batches -> BOOLEAN] /\ \A c \in Batches : marker'[c] => marker[c]
      BY <2>1, ZenonT(30)
    <2>3. TypeOK'
      BY <1>9, <2>1, <2>2, ZenonT(30) DEF Adopt
    <2>4. ASSUME NEW c \in Batches PROVE Shape(c)'
      BY <1>9 DEF Adopt
    <2>5. Settled'
      BY <1>9 DEF Adopt
    <2> QED
      BY <2>3, <2>4, <2>5
  <1>10. CASE Abort(b)
    BY <1>10 DEF Abort, IsPending
  <1>11. CASE Remove(b)
    <2>1. TypeOK'
      BY <1>11, RemoveEntryKeeps DEF Remove
    <2>2. ASSUME NEW c \in Batches PROVE Shape(c)'
      BY <1>11, RemoveEntryKeeps DEF Remove
    <2>3. Settled'
      BY <1>11 DEF Remove
    <2> QED
      BY <2>1, <2>2, <2>3
  <1>12. CASE RemoveFails(b)
    BY <1>12 DEF RemoveFails
  <1>13. CASE Crash(b)
    BY <1>13 DEF Crash
  <1> HIDE DEF FileInv
  <1> QED
    BY <1>1, <1>2, <1>3, <1>4, <1>5, <1>6, <1>7, <1>8, <1>9, <1>10, <1>11,
       <1>12, <1>13 DEF Writer, WriterFails

LEMMA WriterKeeps ==
    ASSUME IndInv, NEW b \in Batches, MakeDirectory(b) \/ Writer(b) \/ WriterFails(b)
    PROVE  IndInv'
  <1>1. FileInv'
    BY WriterKeepsFiles DEF IndInv
  <1>2. UNCHANGED deletionVars
    BY DEF Writer, WriterFails, MakeDirectory, MakeMarker, Promote, Insert, InvalidFile,
           StagingFails, Commit, CommitRefused, CommitUnknown, Adopt, Abort, Remove,
           RemoveFails, Crash
  <1>3. row' = row \/ (row[b] \in {"none", "flushed"} /\ row' = [row EXCEPT ![b] = row'[b]])
    <2>1. /\ step[b] = "inserting" => row[b] = "none"
          /\ step[b] = "committing" => row[b] = "flushed"
          /\ row \in [Batches -> RowStates]
      BY DEF IndInv, FileInv, TypeOK, Shape
    <2> QED
      BY <2>1 DEF Writer, WriterFails, MakeDirectory, MakeMarker, Promote, Insert, InvalidFile,
           StagingFails, Commit, CommitRefused, CommitUnknown, Adopt, Abort, Remove,
           RemoveFails, Crash, SetRow, RowStates
  <1>4. \A c \in Batches : row[c] \in {"live", "deleted"} => row'[c] = row[c]
    BY <1>3 DEF IndInv, FileInv, TypeOK
  <1> QED
    BY <1>1, <1>2, <1>4, DeletionsKept DEF IndInv, FileInv

-----------------------------------------------------------------------------
(* Deletions.                                                              *)

LEMMA DeletionKeeps ==
    ASSUME IndInv, Deletion
    PROVE  IndInv'
  <1> USE FilesAreTyped
      DEF IndInv, FileInv, TypeOK, Shape, Settled, Deletions, Committed, diskVars,
          sweepVars, purgeVars, WriterSteps, RowStates, PurgeSteps, SweepSteps
  <1>1. ASSUME NEW u \in Uploads, ReadManual(u) PROVE IndInv'
    BY <1>1 DEF ReadManual, Live
  <1>2. ASSUME NEW u \in Uploads, DeleteManual(u) PROVE IndInv'
    <2>1. /\ seen[u] \subseteq Batches /\ u \in Batches
          /\ \A b \in seen[u] : row[b] \in {"live", "deleted"}
      BY DEF Batches
    <2>2. row' = [b \in Batches |-> IF b \in seen[u] THEN "deleted" ELSE row[b]]
      BY <1>2 DEF DeleteManual, Mark
    <2>3. TypeOK'
      BY <1>2, <2>1, <2>2 DEF DeleteManual, EndDeletion
    <2>4. (\A b \in Batches : Shape(b)') /\ Settled'
      BY <1>2, <2>1, <2>2 DEF DeleteManual, EndDeletion
    <2>5. Deletions'
      BY <1>2, <2>1, <2>2 DEF DeleteManual, EndDeletion, Batches
    <2> QED
      BY <2>3, <2>4, <2>5
  <1>3. ASSUME NEW u \in Uploads, AbandonManual(u) PROVE IndInv'
    BY <1>3 DEF AbandonManual, EndDeletion
  <1>4. CASE ReadKeys
    BY <1>4 DEF ReadKeys
  <1>5. CASE HideManuals
    BY <1>5 DEF HideManuals, Live
  <1>6. CASE MarkAssets
    BY <1>6 DEF MarkAssets
  <1>7. CASE DeleteAccount
    <2>1. row' = [b \in Batches |-> IF b \in marking THEN "deleted" ELSE row[b]]
      BY <1>7 DEF DeleteAccount, Mark
    <2>2. TypeOK'
      BY <1>7, <2>1 DEF DeleteAccount, EndPurge
    <2>3. (\A b \in Batches : Shape(b)') /\ Settled'
      BY <1>7, <2>1 DEF DeleteAccount, EndPurge
    <2>4. Deletions'
      BY <1>7, <2>1 DEF DeleteAccount, EndPurge, Batches
    <2> QED
      BY <2>2, <2>3, <2>4
  <1>8. CASE AbandonAccount
    BY <1>8 DEF AbandonAccount, EndPurge
  <1> HIDE DEF IndInv
  <1> QED
    BY <1>1, <1>2, <1>3, <1>4, <1>5, <1>6, <1>7, <1>8 DEF Deletion

LEMMA UnlinkKeeps ==
    ASSUME IndInv, (\E b \in Batches : Unlink(b)) \/ CrashUnlinks
    PROVE  IndInv'
  <1>1. FileInv'
    <2> USE DEF IndInv, FileInv, TypeOK, Shape, Settled, diskVars, sweepVars, deletionVars,
                purgeVars, Fault, WriterSteps, RowStates, PurgeSteps, SweepSteps
    <2>1. ASSUME NEW b \in Batches, Unlink(b) PROVE FileInv'
      BY <2>1 DEF Unlink
    <2>2. CASE CrashUnlinks
      BY <2>2 DEF CrashUnlinks
    <2> HIDE DEF FileInv
    <2> QED
      BY <2>1, <2>2
  <1> QED
    BY <1>1, DeletionsKept DEF IndInv, FileInv, Unlink, CrashUnlinks

-----------------------------------------------------------------------------
(* The hourly task.                                                        *)

LEMMA SweepKeepsFiles ==
    ASSUME FileInv, Sweep \/ SweepFails
    PROVE  FileInv'
  <1> USE FilesAreTyped
      DEF FileInv, TypeOK, Shape, Settled, diskVars, sweepVars, deletionVars, purgeVars,
          NextListed, WriterSteps, RowStates, PurgeSteps, SweepSteps
  <1>1. CASE List
    BY <1>1 DEF List, Expired, IsPending
  <1>2. ASSUME NEW b \in Batches, Check(b) PROVE FileInv'
    BY <1>2 DEF Check, Referenced, IsPending
  <1>3. ASSUME NEW b \in Batches, SweepAdopt(b) PROVE FileInv'
    BY <1>3 DEF SweepAdopt
  <1>4. ASSUME NEW b \in Batches, SweepRemove(b) PROVE FileInv'
    <2>1. TypeOK'
      BY <1>4, RemoveEntryKeeps DEF SweepRemove
    <2>2. ASSUME NEW c \in Batches PROVE Shape(c)'
      BY <1>4, RemoveEntryKeeps DEF SweepRemove
    <2>3. Settled'
      BY <1>4 DEF SweepRemove
    <2> QED
      BY <2>1, <2>2, <2>3
  <1>5. CASE EndSweep
    BY <1>5 DEF EndSweep
  <1>6. CASE SweepFails
    BY <1>6 DEF SweepFails
  <1> HIDE DEF FileInv
  <1> QED
    BY <1>1, <1>2, <1>3, <1>4, <1>5, <1>6 DEF Sweep

LEMMA SweepKeeps ==
    ASSUME IndInv, Sweep \/ SweepFails
    PROVE  IndInv'
  <1>1. FileInv'
    BY SweepKeepsFiles DEF IndInv
  <1>2. UNCHANGED <<row, deletionVars>>
    BY DEF Sweep, List, Check, SweepAdopt, SweepRemove, EndSweep, SweepFails
  <1> QED
    BY <1>1, <1>2, DeletionsKept DEF IndInv, FileInv

-----------------------------------------------------------------------------
THEOREM Invariance == Spec => []IndInv
  <1>1. IndInv /\ [Next]_vars => IndInv'
    <2> SUFFICES ASSUME IndInv, [Next]_vars PROVE IndInv'
      OBVIOUS
    <2>1. ASSUME NEW b \in Batches, Age(b) PROVE IndInv'
      <3>1. FileInv'
        BY <2>1 DEF Age, IndInv, FileInv, TypeOK, Shape, Settled, sweepVars, deletionVars,
                    purgeVars
      <3> QED
        BY <2>1, <3>1, DeletionsKept DEF Age, IndInv, FileInv
    <2>2. CASE UNCHANGED vars
      BY <2>2 DEF vars, IndInv, FileInv, TypeOK, Shape, Settled, Deletions, Committed,
                  diskVars, sweepVars, deletionVars, purgeVars
    <2> QED
      BY <2>1, <2>2, WriterKeeps, DeletionKeeps, UnlinkKeeps, SweepKeeps DEF Next
  <1> QED
    BY InitInv, <1>1, PTL DEF Spec

(* Every variable keeps its domain, a batch has nothing outside its        *)
(* directory, and only the transaction of its writer has rows in the air.  *)
THEOREM TypeCorrect == Spec => []TypeOK
  <1>1. IndInv => TypeOK
    BY DEF IndInv, FileInv
  <1> QED
    BY <1>1, Invariance, PTL

(* The files of a committed upload, or of a committed page, are on disk    *)
(* until it is deleted: abort_batch, reconcile_batch and the deletions of  *)
(* other manuals never remove them, whichever process died and whatever    *)
(* the writer knew of its commit.                                          *)
THEOREM FilesOutliveFaults == Spec => []LiveFilesExist
  <1>1. IndInv => LiveFilesExist
    BY DEF IndInv, FileInv, Shape, LiveFilesExist
  <1> QED
    BY <1>1, Invariance, PTL

-----------------------------------------------------------------------------
(* The batches implement AssetStore.                                       *)

(* uq_manuals_live_source_fingerprint: rows that are flushed, or whose     *)
(* manual is there; a page is rendered for a manual that was committed.    *)
Indexed(u) == row[u] = "flushed" \/ Live(u)

Unique ==
    \A u, v \in Uploads :
        u # v /\ Source[u] = Source[v] /\ Indexed(u) => ~Indexed(v)

Rendered ==
    \A r \in Renders : step[r] # "new" => row[ManualOf[r]] \in {"live", "deleted"}

(* How a step changes what the deletions and the owner see.                *)
SeenVars == <<hidden, keys>>

RowStep ==
    \/ UNCHANGED <<row, SeenVars>>
    \/ \E b \in Batches :
         /\ UNCHANGED SeenVars
         /\ \/ row[b] = "none" /\ SetRow(b, "flushed") /\ Insert(b)
            \/ row[b] = "flushed" /\ SetRow(b, "none")
            \/ row[b] = "flushed" /\ SetRow(b, "live")
    \/ \E u \in Uploads : DeleteManual(u)
    \/ ReadKeys \/ DeleteAccount \/ AbandonAccount

LEMMA RowSteps ==
    ASSUME IndInv, [Next]_vars
    PROVE  RowStep
  <1> USE DEF RowStep, SeenVars, deletionVars, purgeVars
  <1>1. ASSUME NEW b \in Batches, Writer(b) \/ WriterFails(b) PROVE RowStep
    <2>1. CASE \/ MakeMarker(b) \/ Promote(b) \/ InvalidFile(b) \/ StagingFails(b)
               \/ Adopt(b) \/ Abort(b) \/ Remove(b) \/ RemoveFails(b)
      BY <2>1 DEF MakeMarker, Promote, InvalidFile, StagingFails, Adopt, Abort, Remove,
                  RemoveFails
    <2>2. CASE Insert(b)
      <3>1. row[b] = "none"
        BY <2>2 DEF Insert, IndInv, FileInv, Shape
      <3> QED
        BY <2>2, <3>1 DEF Insert
    <2>3. CASE Commit(b) \/ CommitRefused(b) \/ CommitUnknown(b)
      <3>1. row[b] = "flushed"
        BY <2>3 DEF Commit, CommitRefused, CommitUnknown, IndInv, FileInv, TypeOK
      <3>2. (SetRow(b, "live") \/ SetRow(b, "none")) /\ UNCHANGED SeenVars
        BY <2>3 DEF Commit, CommitRefused, CommitUnknown
      <3> QED
        BY <3>1, <3>2
    <2>4. CASE Crash(b)
      BY <2>4 DEF Crash
    <2> QED
      BY <1>1, <2>1, <2>2, <2>3, <2>4 DEF Writer, WriterFails
  <1>2. CASE Sweep \/ SweepFails
    BY <1>2 DEF Sweep, List, Check, SweepAdopt, SweepRemove, EndSweep, SweepFails
  <1>3. CASE UNCHANGED vars
    BY <1>3 DEF vars
  <1>4. CASE \/ \E b \in Batches : MakeDirectory(b) \/ Age(b) \/ Unlink(b)
             \/ CrashUnlinks
    BY <1>4 DEF MakeDirectory, Age, Unlink, CrashUnlinks
  <1>5. CASE \/ \E u \in Uploads : ReadManual(u) \/ AbandonManual(u)
             \/ HideManuals \/ MarkAssets
    BY <1>5 DEF ReadManual, AbandonManual, HideManuals, MarkAssets
  <1> HIDE DEF RowStep
  <1>6. CASE \/ \E u \in Uploads : DeleteManual(u)
             \/ ReadKeys \/ DeleteAccount \/ AbandonAccount
    BY <1>6 DEF RowStep
  <1> QED
    BY <1>1, <1>2, <1>3, <1>4, <1>5, <1>6 DEF Next, Deletion

(* Nothing but an insertion puts a manual in the index.                    *)
LEMMA UniqueKeeps ==
    ASSUME IndInv, Unique, [Next]_vars
    PROVE  Unique'
  <1> USE DEF IndInv, FileInv, TypeOK, Indexed, Live
  <1>1. ASSUME NEW b \in Batches, row[b] = "none", SetRow(b, "flushed"), Insert(b)
        PROVE  Unique'
    <2>1. step[b] = "inserting" /\ step'[b] # "aborting" /\ hidden' = hidden
      BY <1>1, BatchesAssumption DEF Insert, SetRow, GoTo, deletionVars
    <2>2. \A u \in Duplicates(b) : ~Indexed(u)
      BY <1>1, <2>1 DEF Insert, GoTo
    <2>3. ASSUME b \in Uploads, NEW u \in Uploads \ {b}, Source[u] = Source[b]
          PROVE  ~Indexed(u)
      BY <2>2, <2>3, BatchesAssumption DEF Duplicates
    <2> QED
      BY <1>1, <2>1, <2>3 DEF SetRow, Unique, Batches
  <1>2. ASSUME \A u \in Uploads : Indexed(u)' => Indexed(u) PROVE Unique'
    BY <1>2 DEF Unique
  <1>3. ASSUME NEW b \in Batches, UNCHANGED SeenVars,
               row[b] = "flushed", SetRow(b, "none") \/ SetRow(b, "live")
        PROVE  Unique'
    BY <1>2, <1>3 DEF SetRow, SeenVars, Batches
  <1>4. CASE \/ UNCHANGED <<row, SeenVars>> \/ ReadKeys \/ AbandonAccount
             \/ (\E u \in Uploads : DeleteManual(u)) \/ DeleteAccount
    <2>1. /\ hidden \subseteq hidden'
          /\ \A u \in Uploads : row'[u] = row[u] \/ (u \in DOMAIN row /\ row'[u] = "deleted")
      BY <1>4 DEF SeenVars, ReadKeys, AbandonAccount, DeleteManual, DeleteAccount, Mark, Batches
    <2>2. \A u \in Uploads : row[u] \notin {"live", "deleted"} => row'[u] = row[u]
      <3>1. ASSUME NEW bs \in SUBSET Batches, Committed(bs), Mark(bs)
            PROVE  \A u \in Uploads : row[u] \notin {"live", "deleted"} => row'[u] = row[u]
        BY <3>1 DEF Mark, Committed, Batches
      <3>2. Committed(marking) /\ \A u \in Uploads : Committed(seen[u])
        BY DEF Deletions, Committed
      <3> QED
        BY <1>4, <3>1, <3>2 DEF SeenVars, ReadKeys, AbandonAccount, DeleteManual, DeleteAccount
    <2> QED
      BY <1>2, <2>1, <2>2
  <1> HIDE DEF IndInv
  <1> QED
    BY <1>1, <1>3, <1>4, RowSteps DEF RowStep

LEMMA RenderedKeeps ==
    ASSUME IndInv, Rendered, [Next]_vars
    PROVE  Rendered'
  <1>1. ASSUME NEW r \in Renders, step[r] = "new", step'[r] # "new"
        PROVE  MakeDirectory(r)
    <2> USE DEF IndInv, FileInv, TypeOK, GoTo, Batches
    <2>1. CASE UNCHANGED step
      BY <1>1, <2>1
    <2>2. ASSUME NEW b \in Batches, MakeDirectory(b) PROVE b = r
      BY <1>1, <2>2 DEF MakeDirectory
    <2>3. ASSUME NEW b \in Batches, Writer(b) \/ WriterFails(b) PROVE FALSE
      <3>1. step[b] # "new" /\ step' = [step EXCEPT ![b] = step'[b]]
        BY <2>3 DEF Writer, WriterFails, MakeMarker, Promote, Insert, InvalidFile, StagingFails,
               Commit, CommitRefused, CommitUnknown, Adopt, Abort, Remove, RemoveFails, Crash
      <3> QED
        BY <1>1, <3>1
    <2>4. CASE \/ Sweep \/ SweepFails \/ Deletion \/ CrashUnlinks \/ UNCHANGED vars
               \/ \E b \in Batches : Age(b) \/ Unlink(b)
      BY <2>1, <2>4 DEF Sweep, List, Check, SweepAdopt, SweepRemove, EndSweep, SweepFails,
             Deletion, ReadManual, DeleteManual, AbandonManual, ReadKeys, HideManuals,
             MarkAssets, DeleteAccount, AbandonAccount, CrashUnlinks, vars, Age, Unlink
    <2> QED
      BY <2>2, <2>3, <2>4 DEF Next
  <1>2. ASSUME NEW u \in Uploads, row[u] \in {"live", "deleted"}
        PROVE  row'[u] \in {"live", "deleted"}
    BY <1>2, RowSteps
       DEF RowStep, SetRow, DeleteManual, DeleteAccount, ReadKeys, AbandonAccount, Mark,
           IndInv, FileInv, TypeOK, Batches
  <1>3. ASSUME NEW r \in Renders, step'[r] # "new"
        PROVE  row'[ManualOf[r]] \in {"live", "deleted"}
    <2>1. ManualOf[r] \in Uploads
      BY BatchesAssumption
    <2>2. CASE step[r] # "new"
      BY <1>2, <2>1, <2>2 DEF Rendered
    <2>3. CASE step[r] = "new"
      <3>1. MakeDirectory(r)
        BY <1>1, <1>3, <2>3
      <3> QED
        BY <2>1, <3>1, BatchesAssumption DEF MakeDirectory
    <2> QED
      BY <2>2, <2>3
  <1> QED
    BY <1>3 DEF Rendered

LEMMA StoreInvariance == Spec => [](IndInv /\ Unique /\ Rendered)
  <1>1. Init => Unique /\ Rendered
    BY DEF Init, Unique, Indexed, Live, Rendered, Batches
  <1>2. IndInv /\ Unique /\ Rendered /\ [Next]_vars => Unique' /\ Rendered'
    BY UniqueKeeps, RenderedKeeps
  <1> QED
    BY <1>1, <1>2, Invariance, PTL DEF Spec

-----------------------------------------------------------------------------
(* What can be opened depends on the rows alone.                           *)

OpenedFiles(b) == IF Openable(b) THEN FilesOf(b) ELSE {}

LEMMA ShownFiles ==
    ASSUME IndInv, NEW b \in Batches
    PROVE  /\ Shown[b] = OpenedFiles(b)
           /\ Shown[b] # {} <=> Openable(b)
           /\ b \in Gone <=> row[b] = "deleted" \/ Owner(b) \in hidden
           /\ Store!Published(b) <=> row[b] \in {"live", "deleted"} \/ Owner(b) \in hidden
  <1>1. Shown[b] = OpenedFiles(b)
    BY DEF IndInv, FileInv, Shape, Shown, Openable, OpenedFiles
  <1>2. Shown[b] # {} <=> Openable(b)
    BY <1>1, FilesAreTyped DEF OpenedFiles
  <1>3. b \in Gone <=> row[b] = "deleted" \/ Owner(b) \in hidden
    BY DEF Gone
  <1> QED
    BY <1>1, <1>2, <1>3 DEF Store!Published, Openable

LEMMA Owners ==
    /\ \A u \in Uploads : u \in Batches /\ Owner(u) = u
    /\ \A r \in Renders : r \in Batches /\ Owner(r) = ManualOf[r] /\ ManualOf[r] \in Uploads
  BY BatchesAssumption DEF Batches, Owner

Asked == {b \in keys : Shown[b] # {}}
Mapping == [Store!Next]_(Store!vars)

(* A step after which the same can be opened, and asked for, is a stutter. *)
LEMMA Unseen ==
    ASSUME IndInv, IndInv', UNCHANGED SeenVars,
           \A b \in Batches :
               \/ row'[b] = row[b]
               \/ {row[b], row'[b]} \subseteq {"none", "flushed"}
               \/ Owner(b) \in hidden
    PROVE  Mapping
  <1>1. hidden' = hidden /\ keys' = keys /\ keys \subseteq Batches
    BY DEF SeenVars, IndInv, FileInv, TypeOK
  <1>2. \A b \in Batches : Shown'[b] = Shown[b]
    <2> TAKE b \in Batches
    <2>1. Openable(b)' <=> Openable(b)
      BY <1>1 DEF Openable, Owner
    <2>2. Shown[b] = OpenedFiles(b)
      BY ShownFiles
    <2>3. Shown'[b] = OpenedFiles(b)'
      BY DEF IndInv, FileInv, Shape, Shown, Openable, OpenedFiles
    <2> QED
      BY <2>1, <2>2, <2>3 DEF OpenedFiles, FilesOf
  <1>3. Shown' = Shown
    BY <1>2 DEF Shown
  <1>4. Gone' = Gone
    BY <1>1 DEF Gone, Owner
  <1>5. Asked' = Asked
    BY <1>1, <1>3 DEF Asked
  <1> QED
    BY <1>3, <1>4, <1>5 DEF Mapping, Store!vars, Asked

(* What can be opened after a step.                                        *)
LEMMA ShownAfter ==
    ASSUME IndInv'
    PROVE  /\ Shown' = [b \in Batches |-> OpenedFiles(b)']
           /\ Gone' = {b \in Batches : row'[b] = "deleted" \/ Owner(b) \in hidden'}
  BY DEF IndInv, FileInv, Shape, Shown, Openable, OpenedFiles, Gone, Owner

(* The commit of a writer, whether or not it learns of it: an image of a   *)
(* deleted manual is committed and never seen.                             *)
LEMMA CommitMaps ==
    ASSUME IndInv, IndInv', Unique, Rendered, NEW b \in Batches, UNCHANGED SeenVars,
           row[b] = "flushed", SetRow(b, "live")
    PROVE  Mapping
  <1>1. /\ row' = [row EXCEPT ![b] = "live"] /\ row \in [Batches -> RowStates]
        /\ hidden' = hidden /\ keys' = keys /\ keys \subseteq Batches \ {b}
    BY DEF SetRow, SeenVars, IndInv, FileInv, TypeOK, Deletions, Committed
  <1>2. CASE Owner(b) \in hidden
    <2>1. \A c \in Batches : c # b => row'[c] = row[c]
      BY <1>1
    <2> QED
      BY <1>2, <2>1, Unseen
  <1>3. CASE Owner(b) \notin hidden
    <2>1. Gone' = Gone
      BY <1>1, ShownAfter DEF Gone
    <2>2. Shown' = [Shown EXCEPT ![b] = FilesOf(b)]
      <3>1. \A c \in Batches : OpenedFiles(c)' = IF c = b THEN FilesOf(c) ELSE OpenedFiles(c)
        BY <1>1, <1>3 DEF OpenedFiles, Openable, Owner, FilesOf
      <3>2. \A c \in Batches : Shown'[c] = IF c = b THEN FilesOf(c) ELSE Shown[c]
        BY <3>1, ShownFiles, ShownAfter
      <3> QED
        BY <3>2 DEF Shown
    <2>3. Asked' = Asked
      <3>1. \A c \in keys : Shown'[c] = Shown[c]
        BY <1>1, <2>2 DEF Shown
      <3> QED
        BY <1>1, <3>1 DEF Asked
    <2>4. Store!Appear(b)
      <3>1. ~Store!Published(b)
        BY <1>3, ShownFiles
      <3> QED
        BY <2>1, <2>2, <2>3, <3>1 DEF Store!Appear, Asked
    <2>5. CASE b \in Uploads
      <3>1. ASSUME NEW u \in Uploads, Source[u] = Source[b] PROVE Shown[u] = {}
        <4>1. ~Openable(u)
          BY <2>5, <3>1, Owners DEF Unique, Indexed, Live, Openable
        <4> QED
          BY <4>1, Owners, ShownFiles
      <3>2. Store!PublishManual(b)
        BY <2>4, <3>1 DEF Store!PublishManual
      <3> QED
        BY <2>5, <3>2 DEF Mapping, Store!Next
    <2>6. CASE b \in Renders
      <3>1. ManualOf[b] \in Batches /\ row[ManualOf[b]] \in {"live", "deleted"}
        <4>1. step[b] # "new"
          BY DEF IndInv, FileInv, TypeOK
        <4> QED
          BY <2>6, <4>1, Owners DEF Rendered
      <3>2. Store!PublishImage(b)
        BY <2>4, <3>1, ShownFiles DEF Store!PublishImage
      <3> QED
        BY <2>6, <3>2 DEF Mapping, Store!Next
    <2> QED
      BY <2>5, <2>6 DEF Batches
  <1> QED
    BY <1>2, <1>3

(* What a deletion that commits takes away.                                *)
LEMMA RemoveMaps ==
    ASSUME IndInv, IndInv', NEW bs \in SUBSET Batches, NEW hs \in SUBSET Uploads,
           Mark(bs), hidden' = hidden \cup hs,
           NEW as \in SUBSET Batches,
           as = bs \cup {b \in Batches : Owner(b) \in hs}
    PROVE  Store!Remove(as)
  <1>1. row' = [b \in Batches |-> IF b \in bs THEN "deleted" ELSE row[b]]
    BY DEF Mark
  <1>2. Gone' = Gone \cup as
    BY <1>1, ShownAfter DEF Gone
  <1>3. Shown' = [b \in Batches |-> IF b \in as THEN {} ELSE Shown[b]]
    <2>1. \A b \in Batches : OpenedFiles(b)' = IF b \in as THEN {} ELSE OpenedFiles(b)
      BY <1>1 DEF OpenedFiles, Openable, Owner, FilesOf
    <2> QED
      BY <2>1, ShownFiles, ShownAfter
  <1> QED
    BY <1>2, <1>3 DEF Store!Remove, Store!Assets, Batches

LEMMA ManualDeletionMaps ==
    ASSUME IndInv, IndInv', NEW u \in Uploads, DeleteManual(u)
    PROVE  Mapping
  <1> DEFINE as == {u} \cup {i \in Renders : ManualOf[i] = u}
  <1>1. as = seen[u] \cup {b \in Batches : Owner(b) \in {u}}
    <2>1. \A b \in seen[u] : b \in Batches /\ Owner(b) = u
      BY DEF IndInv, FileInv, TypeOK, Deletions
    <2>2. \A b \in Batches : Owner(b) = u <=> b \in as
      BY BatchesAssumption DEF Owner, Batches
    <2> QED
      BY <2>1, <2>2, Owners
  <1>2. as \in SUBSET Batches /\ seen[u] \in SUBSET Batches
    BY DEF IndInv, FileInv, TypeOK, Batches
  <1> HIDE DEF as
  <1>3. Store!Remove(as)
    BY <1>1, <1>2, RemoveMaps DEF DeleteManual
  <1>4. Store!Published(u)
    <2>1. row[u] \in {"live", "deleted"}
      BY DEF DeleteManual, EndDeletion, IndInv, Deletions, Committed
    <2> QED
      BY <2>1, Owners, ShownFiles
  <1>5. Asked' = {a \in Asked : Shown'[a] # {}}
    <2>1. keys' = keys /\ keys \subseteq Batches
      BY DEF DeleteManual, purgeVars, IndInv, FileInv, TypeOK
    <2>2. \A a \in Batches : Shown'[a] # {} => Shown[a] # {}
      BY <1>3 DEF Store!Remove, Store!Assets, Batches
    <2> QED
      BY <2>1, <2>2 DEF Asked
  <1>6. Store!DeleteManual(u)
    BY <1>3, <1>4, <1>5 DEF Store!DeleteManual, Asked, as
  <1> QED
    BY <1>6 DEF Mapping, Store!Next

LEMMA AccountDeletionMaps ==
    ASSUME IndInv, IndInv', ReadKeys \/ DeleteAccount \/ AbandonAccount
    PROVE  Mapping
  <1>1. ASSUME UNCHANGED <<row, hidden>> PROVE Shown' = Shown /\ Gone' = Gone
    <2>1. \A b \in Batches : OpenedFiles(b)' = OpenedFiles(b)
      BY <1>1 DEF OpenedFiles, Openable, Owner, FilesOf
    <2>2. Shown' = Shown
      BY <2>1, ShownFiles, ShownAfter DEF Shown
    <2> QED
      BY <1>1, <2>2, ShownAfter DEF Gone
  <1>2. CASE ReadKeys
    <2>1. Shown' = Shown /\ Gone' = Gone
      BY <1>1, <1>2 DEF ReadKeys
    <2>2. Asked' = {a \in Batches : Shown[a] # {}}
      BY <1>2, <2>1, ShownFiles DEF Asked, ReadKeys, Openable
    <2>3. Store!AskForAccount
      BY <2>1, <2>2 DEF Store!AskForAccount, Store!Assets, Batches, Asked
    <2> QED
      BY <2>3 DEF Mapping, Store!Next
  <1>3. CASE AbandonAccount
    <2>1. Shown' = Shown /\ Gone' = Gone
      BY <1>1, <1>3 DEF AbandonAccount
    <2>2. Store!Desist
      BY <1>3, <2>1 DEF Store!Desist, AbandonAccount, EndPurge
    <2> QED
      BY <2>2 DEF Mapping, Store!Next
  <1>4. CASE DeleteAccount
    <2> DEFINE as == marking \cup {b \in Batches : Owner(b) \in hiding}
    <2>1. as \in SUBSET Batches /\ marking \in SUBSET Batches /\ hiding \in SUBSET Uploads
      BY DEF IndInv, FileInv, TypeOK
    <2>2. Store!Remove(as)
      BY <1>4, <2>1, RemoveMaps DEF DeleteAccount
    <2>3. Asked \subseteq as
      <3>1. keys \subseteq Batches /\ \A b \in keys : row[b] = "live" => b \in marking
        BY <1>4 DEF DeleteAccount, IndInv, FileInv, TypeOK, Deletions
      <3> QED
        BY <3>1, ShownFiles DEF Asked, Openable
    <2>4. ASSUME NEW a \in as
          PROVE  Store!Published(a) \/ (a \in Renders /\ ManualOf[a] \in as)
      <3>1. CASE a \in marking \/ (a \in Uploads /\ Owner(a) \in hiding)
        <4>1. row[a] \in {"live", "deleted"}
          BY <3>1, Owners DEF IndInv, Deletions, Committed
        <4> QED
          BY <2>1, <4>1, ShownFiles
      <3>2. CASE a \in Renders /\ Owner(a) \in hiding
        BY <3>2, Owners
      <3> QED
        BY <2>1, <3>1, <3>2 DEF Batches
    <2>5. Asked' = {}
      BY <1>4 DEF DeleteAccount, EndPurge, Asked
    <2> HIDE DEF as
    <2>6. Store!DeleteAccount
      BY <2>1, <2>2, <2>3, <2>4, <2>5 DEF Store!DeleteAccount, Store!Assets, Batches, Asked
    <2> QED
      BY <2>6 DEF Mapping, Store!Next
  <1> QED
    BY <1>2, <1>3, <1>4

(* An upload appears whole and at most once beside its duplicates; the     *)
(* deletion of a manual takes every image of it, also one whose rows are   *)
(* committed after the deletion had read the assets; and the deletion of   *)
(* the account takes all that could be opened when it started, whatever    *)
(* commit was lost, whichever process died and whatever the hourly task    *)
(* found: AssetBatches implements AssetStore.                              *)
THEOREM StoreIsImplemented == Spec => ImplementsStore
  <1>1. Init => Store!Init
    BY DEF Init, Store!Init, Store!Assets, Shown, Gone, Openable, Owner, Batches
  <1>2. ASSUME IndInv, IndInv', Unique, Rendered, [Next]_vars PROVE Mapping
    <2>1. ASSUME NEW b \in Batches, UNCHANGED SeenVars,
                 \/ row[b] = "none" /\ SetRow(b, "flushed")
                 \/ row[b] = "flushed" /\ SetRow(b, "none")
          PROVE  Mapping
      <3>1. \A c \in Batches : \/ row'[c] = row[c]
                               \/ {row[c], row'[c]} \subseteq {"none", "flushed"}
        BY <1>2, <2>1 DEF SetRow, IndInv, FileInv, TypeOK
      <3> QED
        BY <1>2, <2>1, <3>1, Unseen
    <2>2. CASE UNCHANGED <<row, SeenVars>>
      BY <1>2, <2>2, Unseen
    <2> QED
      BY <1>2, <2>1, <2>2, RowSteps, CommitMaps, ManualDeletionMaps, AccountDeletionMaps
         DEF RowStep
  <1>3. IndInv /\ IndInv' /\ Unique /\ Rendered /\ [Next]_vars
            => [Store!Next]_(Store!vars)
    BY <1>2 DEF Mapping
  <1> QED
    BY <1>1, <1>3, StoreInvariance, PTL DEF Spec, ImplementsStore, Store!Spec
=============================================================================
