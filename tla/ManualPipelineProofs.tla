------------------------ MODULE ManualPipelineProofs ------------------------
(***************************************************************************)
(* Proofs about ManualPipeline, for every set of pages and of workers and  *)
(* every bound, and that it implements ManualLifecycle.                    *)
(***************************************************************************)
EXTENDS ManualPipeline, TLAPS

-----------------------------------------------------------------------------
(* What holds whatever goes wrong.                                         *)

LEMMA InitTypeOK == Init => TypeOK
  <1> SUFFICES ASSUME Init PROVE TypeOK
    OBVIOUS
  <1> USE PagesAssumption, WorkersAssumption DEF Init
  <1>1. /\ status \in Statuses /\ deleted \in BOOLEAN
        /\ processQ \in Nat /\ finalizeQ \in Nat
        /\ faults \in Nat /\ reprocessed \in Nat
        /\ lock \in Workers \cup {NoOne}
    BY DEF Statuses
  <1>2. /\ ocr \in [Pages -> OcrStatuses] /\ quality \in [Pages -> Qualities]
        /\ pageQ \in [Pages -> Nat]
    BY DEF OcrStatuses, Qualities
  <1>3. /\ at \in [Workers -> Steps] /\ verdict \in [Workers -> Statuses]
        /\ on \in [Workers -> Pages \cup {NoPage}]
    BY DEF Steps, Statuses
  <1>4. \A w \in Workers : at[w] \in PageSteps <=> on[w] \in Pages
    BY DEF PageSteps
  <1> QED
    BY <1>1, <1>2, <1>3, <1>4 DEF TypeOK

LEMMA NextTypeOK == TypeOK /\ [Next]_vars => TypeOK'
  <1> SUFFICES ASSUME TypeOK, [Next]_vars PROVE TypeOK'
    OBVIOUS
  <1> USE PagesAssumption, WorkersAssumption
      DEF TypeOK, Statuses, OcrStatuses, Qualities, Steps, PageSteps,
          LockedSteps, ClosingSteps, manualVars, pageVars, queueVars,
          workerVars, boundVars,
          GoTo
  <1>1. ASSUME NEW w \in Workers, StartProcess(w) PROVE TypeOK'
    BY <1>1 DEF StartProcess, EnqueuePages
  <1>2. ASSUME NEW w \in Workers, NEW p \in Pages, StartPage(w, p)
        PROVE TypeOK'
    BY <1>2 DEF StartPage
  <1>3. ASSUME NEW w \in Workers, CheckManual(w) PROVE TypeOK'
    BY <1>3 DEF CheckManual
  <1>4. ASSUME NEW w \in Workers, SavePage(w) PROVE TypeOK'
    BY <1>4 DEF SavePage, ReadQualities, replace_page_result, mark_page_failed
  <1>5. ASSUME NEW w \in Workers, Notify(w) PROVE TypeOK'
    BY <1>5 DEF Notify
  <1>6. ASSUME NEW w \in Workers, PageError(w) PROVE TypeOK'
    BY <1>6 DEF PageError, Fault
  <1>7. ASSUME NEW w \in Workers, PageTimeout(w) PROVE TypeOK'
    BY <1>7 DEF PageTimeout, Fault, mark_page_failed
  <1>8. ASSUME NEW w \in Workers, StartFinalize(w) PROVE TypeOK'
    BY <1>8 DEF StartFinalize
  <1>9. ASSUME NEW w \in Workers, LoadManual(w) PROVE TypeOK'
    BY <1>9 DEF LoadManual
  <1>10. ASSUME NEW w \in Workers, CountUnfinished(w) PROVE TypeOK'
    BY <1>10 DEF CountUnfinished
  <1>11. ASSUME NEW w \in Workers, ResolveVerdict(w) PROVE TypeOK'
    BY <1>11 DEF ResolveVerdict, ResolvedStatuses
  <1>12. ASSUME NEW w \in Workers, Reject(w) PROVE TypeOK'
    BY <1>12 DEF Reject
  <1>13. ASSUME NEW w \in Workers, Publish(w) PROVE TypeOK'
    BY <1>13 DEF Publish
  <1>14. ASSUME NEW w \in Workers, Release(w) PROVE TypeOK'
    BY <1>14 DEF Release
  <1>15. ASSUME NEW w \in Workers, FinalizeTimeout(w) PROVE TypeOK'
    BY <1>15 DEF FinalizeTimeout, Fault
  <1>16. ASSUME NEW w \in Workers, FailManual(w) PROVE TypeOK'
    BY <1>16 DEF FailManual
  <1>17. ASSUME NEW w \in Workers, Kill(w) PROVE TypeOK'
    BY <1>17 DEF Kill, Die, Fault
  <1>18. ASSUME NEW w \in Workers, Redeliver(w) PROVE TypeOK'
    BY <1>18 DEF Redeliver, Die, Fault
  <1>19. ASSUME NEW S \in SUBSET Pages, Reprocess(S) PROVE TypeOK'
    BY <1>19 DEF Reprocess
  <1>20. CASE Delete
    BY <1>20 DEF Delete
  <1>21. CASE RecoverStale
    BY <1>21 DEF RecoverStale
  <1>22. CASE RecoverDispatch
    BY <1>22 DEF RecoverDispatch
  <1>23. CASE DropMessage
    BY <1>23 DEF DropMessage, Fault
  <1>24. CASE UNCHANGED vars
    BY <1>24 DEF vars
  <1> QED
    BY <1>1, <1>2, <1>3, <1>4, <1>5, <1>6, <1>7, <1>8, <1>9, <1>10, <1>11, <1>12,
       <1>13, <1>14, <1>15, <1>16, <1>17, <1>18, <1>19, <1>20, <1>21, <1>22, <1>23, <1>24
       DEF Next

(* Every variable of the pipeline stays in its domain, and a worker has a  *)
(* page exactly while it runs a page task (process_manual_page_task).      *)
THEOREM TypeCorrect == Spec => []TypeOK
  BY InitTypeOK, NextTypeOK, PTL DEF Spec

LEMMA InitLockOwnership == Init => LockOwnership
  BY WorkersAssumption DEF Init, LockOwnership, LockedSteps, ClosingSteps

LEMMA NextLockOwnership ==
    TypeOK /\ LockOwnership /\ [Next]_vars => LockOwnership'
  <1> SUFFICES ASSUME TypeOK, LockOwnership, [Next]_vars PROVE LockOwnership'
    OBVIOUS
  <1> USE WorkersAssumption
      DEF TypeOK, LockOwnership, Steps, PageSteps, LockedSteps, ClosingSteps,
          manualVars,
          pageVars, queueVars, workerVars, boundVars, GoTo
  <1>1. ASSUME NEW w \in Workers, StartProcess(w) PROVE LockOwnership'
    BY <1>1 DEF StartProcess, EnqueuePages
  <1>2. ASSUME NEW w \in Workers, NEW p \in Pages, StartPage(w, p)
        PROVE LockOwnership'
    BY <1>2 DEF StartPage
  <1>3. ASSUME NEW w \in Workers, CheckManual(w) PROVE LockOwnership'
    BY <1>3 DEF CheckManual
  <1>4. ASSUME NEW w \in Workers, SavePage(w) PROVE LockOwnership'
    BY <1>4 DEF SavePage, ReadQualities, replace_page_result, mark_page_failed
  <1>5. ASSUME NEW w \in Workers, Notify(w) PROVE LockOwnership'
    BY <1>5 DEF Notify
  <1>6. ASSUME NEW w \in Workers, PageError(w) PROVE LockOwnership'
    BY <1>6 DEF PageError, Fault
  <1>7. ASSUME NEW w \in Workers, PageTimeout(w) PROVE LockOwnership'
    BY <1>7 DEF PageTimeout, Fault, mark_page_failed
  <1>8. ASSUME NEW w \in Workers, StartFinalize(w) PROVE LockOwnership'
    BY <1>8 DEF StartFinalize
  <1>9. ASSUME NEW w \in Workers, LoadManual(w) PROVE LockOwnership'
    BY <1>9 DEF LoadManual
  <1>10. ASSUME NEW w \in Workers, CountUnfinished(w) PROVE LockOwnership'
    BY <1>10 DEF CountUnfinished
  <1>11. ASSUME NEW w \in Workers, ResolveVerdict(w) PROVE LockOwnership'
    BY <1>11 DEF ResolveVerdict
  <1>12. ASSUME NEW w \in Workers, Reject(w) PROVE LockOwnership'
    BY <1>12 DEF Reject
  <1>13. ASSUME NEW w \in Workers, Publish(w) PROVE LockOwnership'
    BY <1>13 DEF Publish
  <1>14. ASSUME NEW w \in Workers, Release(w) PROVE LockOwnership'
    BY <1>14 DEF Release
  <1>15. ASSUME NEW w \in Workers, FinalizeTimeout(w) PROVE LockOwnership'
    BY <1>15 DEF FinalizeTimeout, Fault
  <1>16. ASSUME NEW w \in Workers, FailManual(w) PROVE LockOwnership'
    BY <1>16 DEF FailManual
  <1>17. ASSUME NEW w \in Workers, Kill(w) PROVE LockOwnership'
    BY <1>17 DEF Kill, Die, Fault
  <1>18. ASSUME NEW w \in Workers, Redeliver(w) PROVE LockOwnership'
    BY <1>18 DEF Redeliver, Die, Fault
  <1>19. ASSUME NEW S \in SUBSET Pages, Reprocess(S) PROVE LockOwnership'
    BY <1>19 DEF Reprocess
  <1>20. CASE Delete
    BY <1>20 DEF Delete
  <1>21. CASE RecoverStale
    BY <1>21 DEF RecoverStale
  <1>22. CASE RecoverDispatch
    BY <1>22 DEF RecoverDispatch
  <1>23. CASE DropMessage
    BY <1>23 DEF DropMessage, Fault
  <1>24. CASE UNCHANGED vars
    BY <1>24 DEF vars
  <1> QED
    BY <1>1, <1>2, <1>3, <1>4, <1>5, <1>6, <1>7, <1>8, <1>9, <1>10, <1>11, <1>12,
       <1>13, <1>14, <1>15, <1>16, <1>17, <1>18, <1>19, <1>20, <1>21, <1>22, <1>23, <1>24
       DEF Next

(* Whatever times out, dies or is delivered twice, a worker is inside the  *)
(* critical section of a finalizer exactly while it holds the advisory     *)
(* lock of the manual (manual_lock).                                       *)
THEOREM LockIsOwned == Spec => []LockOwnership
  BY InitTypeOK, NextTypeOK, InitLockOwnership, NextLockOwnership, PTL DEF Spec

(* What one step may do once the manual is deleted. *)
DeletedStaysQuiet ==
    deleted =>
        /\ deleted'
        /\ \A p \in Pages : ocr'[p] = "processing" => ocr[p] = "processing"
        /\ Closing' \subseteq Closing
        /\ status' # status => Closing' # Closing

LEMMA NextDeletedStaysQuiet == TypeOK /\ [Next]_vars => DeletedStaysQuiet
  <1> SUFFICES ASSUME TypeOK, deleted, [Next]_vars PROVE DeletedStaysQuiet
    BY DEF DeletedStaysQuiet
  <1> USE DEF TypeOK, DeletedStaysQuiet, Closing, Steps, PageSteps,
              LockedSteps, ClosingSteps, Live,
          manualVars, pageVars, queueVars, workerVars, boundVars, GoTo
  <1>1. ASSUME NEW w \in Workers, StartProcess(w) PROVE DeletedStaysQuiet
    BY <1>1 DEF StartProcess, EnqueuePages
  <1>2. ASSUME NEW w \in Workers, NEW p \in Pages, StartPage(w, p)
        PROVE DeletedStaysQuiet
    BY <1>2 DEF StartPage, Claimable
  <1>3. ASSUME NEW w \in Workers, CheckManual(w) PROVE DeletedStaysQuiet
    BY <1>3 DEF CheckManual
  <1>4. ASSUME NEW w \in Workers, SavePage(w) PROVE DeletedStaysQuiet
    BY <1>4 DEF SavePage, ReadQualities, replace_page_result, mark_page_failed
  <1>5. ASSUME NEW w \in Workers, Notify(w) PROVE DeletedStaysQuiet
    BY <1>5 DEF Notify
  <1>6. ASSUME NEW w \in Workers, PageError(w) PROVE DeletedStaysQuiet
    BY <1>6 DEF PageError, Fault
  <1>7. ASSUME NEW w \in Workers, PageTimeout(w) PROVE DeletedStaysQuiet
    BY <1>7 DEF PageTimeout, Fault, mark_page_failed
  <1>8. ASSUME NEW w \in Workers, StartFinalize(w) PROVE DeletedStaysQuiet
    BY <1>8 DEF StartFinalize
  <1>9. ASSUME NEW w \in Workers, LoadManual(w) PROVE DeletedStaysQuiet
    BY <1>9 DEF LoadManual
  <1>10. ASSUME NEW w \in Workers, CountUnfinished(w) PROVE DeletedStaysQuiet
    BY <1>10 DEF CountUnfinished
  <1>11. ASSUME NEW w \in Workers, ResolveVerdict(w) PROVE DeletedStaysQuiet
    BY <1>11 DEF ResolveVerdict
  <1>12. ASSUME NEW w \in Workers, Reject(w) PROVE DeletedStaysQuiet
    BY <1>12 DEF Reject
  <1>13. ASSUME NEW w \in Workers, Publish(w) PROVE DeletedStaysQuiet
    BY <1>13 DEF Publish
  <1>14. ASSUME NEW w \in Workers, Release(w) PROVE DeletedStaysQuiet
    BY <1>14 DEF Release
  <1>15. ASSUME NEW w \in Workers, FinalizeTimeout(w) PROVE DeletedStaysQuiet
    BY <1>15 DEF FinalizeTimeout, Fault
  <1>16. ASSUME NEW w \in Workers, FailManual(w) PROVE DeletedStaysQuiet
    BY <1>16 DEF FailManual
  <1>17. ASSUME NEW w \in Workers, Kill(w) PROVE DeletedStaysQuiet
    BY <1>17 DEF Kill, Die, Fault
  <1>18. ASSUME NEW w \in Workers, Redeliver(w) PROVE DeletedStaysQuiet
    BY <1>18 DEF Redeliver, Die, Fault
  <1>19. ASSUME NEW S \in SUBSET Pages, Reprocess(S) PROVE DeletedStaysQuiet
    BY <1>19 DEF Reprocess
  <1>20. CASE Delete
    BY <1>20 DEF Delete
  <1>21. CASE RecoverStale
    BY <1>21 DEF RecoverStale
  <1>22. CASE RecoverDispatch
    BY <1>22 DEF RecoverDispatch
  <1>23. CASE DropMessage
    BY <1>23 DEF DropMessage, Fault
  <1>24. CASE UNCHANGED vars
    BY <1>24 DEF vars
  <1> QED
    BY <1>1, <1>2, <1>3, <1>4, <1>5, <1>6, <1>7, <1>8, <1>9, <1>10, <1>11, <1>12,
       <1>13, <1>14, <1>15, <1>16, <1>17, <1>18, <1>19, <1>20, <1>21, <1>22, <1>23, <1>24
       DEF Next

(* A deletion takes no lock (soft_delete_user_manual).  After it no page is*)
(* claimed, nothing brings the manual back, and only the finalizers that   *)
(* had loaded it before, each once, write a status over "hidden"; no task  *)
(* that loads it later goes as far.                                        *)
THEOREM DeletedIsFinal == Spec => NoWorkAfterDelete
  <1>1. TypeOK /\ [Next]_vars => [DeletedStaysQuiet]_vars
    BY NextDeletedStaysQuiet
  <1> QED
    BY <1>1, TypeCorrect, PTL DEF Spec, NoWorkAfterDelete, DeletedStaysQuiet

-----------------------------------------------------------------------------
(* What holds while no call of the index times out inside a finalizer.     *)

NoStaleFailure == \A w \in Workers : at[w] # "failing"

(* Once a finalizer has counted the pages none is unfinished, and the      *)
(* verdict it then holds is the one they deserve.                          *)
PublishingSettled ==
    \A w \in Workers :
        /\ at[w] \in {"resolve", "reject", "publish"} => ~manual_has_unfinished_pages
        /\ at[w] \in {"reject", "publish"} => verdict[w] \in ResolvedStatuses
        /\ at[w] = "publish" => verdict[w] # "failed"

(* A reprocess request may hand out pages again only because a closed      *)
(* manual is quiet; it is quiet because a finalizer closes it only with    *)
(* every page settled; and the pages stay settled while the index is       *)
(* called because nobody can claim or reset one.                           *)
Claims ==
    /\ NoStaleFailure
    /\ PublishingSettled
    /\ ExclusiveClaim
    /\ QuietWhenClosed

(* The inductive invariant. *)
IInv == TypeOK /\ LockOwnership /\ Claims

LEMMA InitIInv == Init => IInv
  <1> SUFFICES ASSUME Init PROVE Claims
    BY InitTypeOK, InitLockOwnership DEF IInv
  <1> QED
    BY DEF Init, Claims, NoStaleFailure, PublishingSettled, ExclusiveClaim,
           QuietWhenClosed, REPROCESSABLE_MANUAL_STATUSES, ClosingSteps

(* A step that leaves the manual and its pages alone, and brings no worker *)
(* to a page or to a call of the index, keeps the claims.                  *)
LEMMA QuietStep ==
    ASSUME Claims, UNCHANGED <<status, ocr, quality>>,
           \A w \in Workers :
             /\ at'[w] # "failing"
             /\ at'[w] \in {"check", "work"} =>
                  at[w] \in {"check", "work"} /\ on'[w] = on[w]
             /\ at'[w] \in ClosingSteps =>
                  at'[w] = at[w] /\ verdict'[w] = verdict[w]
    PROVE  Claims'
  <1>1. /\ manual_has_unfinished_pages' = manual_has_unfinished_pages
        /\ ResolvedStatuses' = ResolvedStatuses
    BY DEF manual_has_unfinished_pages, Unfinished, HasChunks, Doubtful,
           ResolvedStatuses
  <1>2. NoStaleFailure' /\ ExclusiveClaim' /\ QuietWhenClosed'
    BY <1>1 DEF Claims, NoStaleFailure, ExclusiveClaim, QuietWhenClosed
  <1>3. PublishingSettled'
    BY <1>1 DEF Claims, PublishingSettled, ClosingSteps
  <1> QED
    BY <1>2, <1>3 DEF Claims

LEMMA NextClaims ==
    ASSUME "finalize_timeout" \notin Faults, IInv, [Next]_vars
    PROVE  Claims'
  <1> USE DEF IInv, TypeOK, LockOwnership, Claims, NoStaleFailure, manualVars,
          pageVars, queueVars, workerVars, boundVars, GoTo, PageSteps,
          LockedSteps, ClosingSteps, Steps
  <1>1. ASSUME NEW w \in Workers, StartProcess(w) PROVE Claims'
    BY <1>1, QuietStep DEF StartProcess, EnqueuePages
  <1>2. ASSUME NEW w \in Workers, NEW p \in Pages, StartPage(w, p)
        PROVE Claims'
    <2>1. ExclusiveClaim'
      BY <1>2 DEF StartPage, Claimable, Live, ExclusiveClaim
    <2>2. QuietWhenClosed'
      BY <1>2 DEF StartPage, Claimable, Live,
             QuietWhenClosed, REPROCESSABLE_MANUAL_STATUSES,
             manual_has_unfinished_pages, Unfinished
    <2>3. PublishingSettled'
      BY <1>2 DEF StartPage, Claimable, Live, PublishingSettled,
             manual_has_unfinished_pages, Unfinished, HasChunks, Doubtful,
             ResolvedStatuses
    <2>4. NoStaleFailure'
      BY <1>2 DEF StartPage, Claimable
    <2> QED
      BY <2>1, <2>2, <2>3, <2>4
  <1>3. ASSUME NEW w \in Workers, CheckManual(w) PROVE Claims'
    BY <1>3, QuietStep DEF CheckManual
  <1>4. ASSUME NEW w \in Workers, SavePage(w) PROVE Claims'
    <2>1. ExclusiveClaim'
      BY <1>4 DEF SavePage, ReadQualities, replace_page_result, mark_page_failed,
             ExclusiveClaim
    <2>2. QuietWhenClosed'
      BY <1>4 DEF SavePage, ReadQualities, replace_page_result, mark_page_failed,
             QuietWhenClosed, REPROCESSABLE_MANUAL_STATUSES,
             manual_has_unfinished_pages, Unfinished
    <2>3. PublishingSettled'
      BY <1>4 DEF SavePage, ReadQualities, replace_page_result, mark_page_failed,
             ExclusiveClaim, PublishingSettled,
             manual_has_unfinished_pages, Unfinished, HasChunks, Doubtful,
             ResolvedStatuses
    <2>4. NoStaleFailure'
      BY <1>4 DEF SavePage, ReadQualities, replace_page_result, mark_page_failed
    <2> QED
      BY <2>1, <2>2, <2>3, <2>4
  <1>5. ASSUME NEW w \in Workers, Notify(w) PROVE Claims'
    BY <1>5, QuietStep DEF Notify
  <1>6. ASSUME NEW w \in Workers, PageError(w) PROVE Claims'
    BY <1>6, QuietStep DEF PageError, Fault
  <1>7. ASSUME NEW w \in Workers, PageTimeout(w) PROVE Claims'
    <2>1. ExclusiveClaim'
      BY <1>7 DEF PageTimeout, Fault, mark_page_failed, Live,
             ExclusiveClaim
    <2>2. QuietWhenClosed'
      BY <1>7 DEF PageTimeout, Fault, mark_page_failed, Live,
             QuietWhenClosed, REPROCESSABLE_MANUAL_STATUSES,
             manual_has_unfinished_pages, Unfinished
    <2>3. PublishingSettled'
      BY <1>7 DEF PageTimeout, Fault, mark_page_failed, Live,
             ExclusiveClaim, PublishingSettled,
             manual_has_unfinished_pages, Unfinished, HasChunks, Doubtful,
             ResolvedStatuses
    <2>4. NoStaleFailure'
      BY <1>7 DEF PageTimeout, Fault, mark_page_failed
    <2> QED
      BY <2>1, <2>2, <2>3, <2>4
  <1>8. ASSUME NEW w \in Workers, StartFinalize(w) PROVE Claims'
    BY <1>8, QuietStep DEF StartFinalize
  <1>9. ASSUME NEW w \in Workers, LoadManual(w) PROVE Claims'
    <2>1. ExclusiveClaim' /\ NoStaleFailure'
      BY <1>9 DEF LoadManual, ExclusiveClaim
    <2>2. QuietWhenClosed'
      BY <1>9 DEF LoadManual, Live, QuietWhenClosed, REPROCESSABLE_MANUAL_STATUSES,
             manual_has_unfinished_pages, Unfinished
    <2>3. PublishingSettled'
      BY <1>9 DEF LoadManual, PublishingSettled, manual_has_unfinished_pages,
             Unfinished, HasChunks, Doubtful, ResolvedStatuses
    <2> QED
      BY <2>1, <2>2, <2>3
  <1>10. ASSUME NEW w \in Workers, CountUnfinished(w) PROVE Claims'
    <2>1. ExclusiveClaim' /\ NoStaleFailure'
      BY <1>10 DEF CountUnfinished, ExclusiveClaim
    <2>2. QuietWhenClosed'
      BY <1>10 DEF CountUnfinished, QuietWhenClosed, REPROCESSABLE_MANUAL_STATUSES,
             manual_has_unfinished_pages, Unfinished
    <2>3. PublishingSettled'
      BY <1>10 DEF CountUnfinished, PublishingSettled, manual_has_unfinished_pages,
             Unfinished, HasChunks, Doubtful, ResolvedStatuses
    <2> QED
      BY <2>1, <2>2, <2>3
  <1>11. ASSUME NEW w \in Workers, ResolveVerdict(w) PROVE Claims'
    <2>1. ExclusiveClaim' /\ NoStaleFailure'
      BY <1>11 DEF ResolveVerdict, ExclusiveClaim
    <2>2. QuietWhenClosed'
      BY <1>11 DEF ResolveVerdict, QuietWhenClosed, REPROCESSABLE_MANUAL_STATUSES,
             manual_has_unfinished_pages, Unfinished
    <2>3. PublishingSettled'
      BY <1>11 DEF ResolveVerdict, PublishingSettled, manual_has_unfinished_pages,
             Unfinished, HasChunks, Doubtful, ResolvedStatuses
    <2> QED
      BY <2>1, <2>2, <2>3
  <1>12. ASSUME NEW w \in Workers, Reject(w) PROVE Claims'
    <2>1. ExclusiveClaim' /\ NoStaleFailure'
      BY <1>12 DEF Reject, ExclusiveClaim
    <2>2. QuietWhenClosed'
      BY <1>12 DEF Reject, QuietWhenClosed, REPROCESSABLE_MANUAL_STATUSES,
             ExclusiveClaim, PublishingSettled, manual_has_unfinished_pages,
             Unfinished
    <2>3. PublishingSettled'
      BY <1>12 DEF Reject, PublishingSettled, manual_has_unfinished_pages,
             Unfinished, HasChunks, Doubtful, ResolvedStatuses
    <2> QED
      BY <2>1, <2>2, <2>3
  <1>13. ASSUME NEW w \in Workers, Publish(w) PROVE Claims'
    <2>1. ExclusiveClaim'
      BY <1>13 DEF Publish, ExclusiveClaim
    <2>2. QuietWhenClosed'
      BY <1>13 DEF Publish,
             QuietWhenClosed, REPROCESSABLE_MANUAL_STATUSES,
             ExclusiveClaim, PublishingSettled,
             manual_has_unfinished_pages, Unfinished
    <2>3. PublishingSettled'
      BY <1>13 DEF Publish, PublishingSettled,
             manual_has_unfinished_pages, Unfinished, HasChunks, Doubtful,
             ResolvedStatuses
    <2>4. NoStaleFailure'
      BY <1>13 DEF Publish
    <2> QED
      BY <2>1, <2>2, <2>3, <2>4
  <1>14. ASSUME NEW w \in Workers, Release(w) PROVE Claims'
    BY <1>14, QuietStep DEF Release
  <1>15. ASSUME NEW w \in Workers, FinalizeTimeout(w) PROVE Claims'
    BY <1>15 DEF FinalizeTimeout, Fault
  <1>16. ASSUME NEW w \in Workers, FailManual(w) PROVE Claims'
    BY <1>16 DEF FailManual
  <1>17. ASSUME NEW w \in Workers, Kill(w) PROVE Claims'
    BY <1>17, QuietStep DEF Kill, Die, Fault
  <1>18. ASSUME NEW w \in Workers, Redeliver(w) PROVE Claims'
    BY <1>18, QuietStep DEF Redeliver, Die, Fault
  <1>19. ASSUME NEW S \in SUBSET Pages, Reprocess(S) PROVE Claims'
    <2>1. ExclusiveClaim'
      BY <1>19 DEF Reprocess, ExclusiveClaim,
             QuietWhenClosed, REPROCESSABLE_MANUAL_STATUSES
    <2>2. QuietWhenClosed'
      BY <1>19 DEF Reprocess,
             QuietWhenClosed, REPROCESSABLE_MANUAL_STATUSES,
             manual_has_unfinished_pages, Unfinished
    <2>3. PublishingSettled'
      BY <1>19 DEF Reprocess,
             QuietWhenClosed, REPROCESSABLE_MANUAL_STATUSES, PublishingSettled,
             manual_has_unfinished_pages, Unfinished, HasChunks, Doubtful,
             ResolvedStatuses
    <2>4. NoStaleFailure'
      BY <1>19 DEF Reprocess
    <2> QED
      BY <2>1, <2>2, <2>3, <2>4
  <1>20. CASE Delete
    BY <1>20 DEF Delete, ExclusiveClaim, QuietWhenClosed, PublishingSettled,
           REPROCESSABLE_MANUAL_STATUSES,
           manual_has_unfinished_pages, Unfinished, HasChunks, Doubtful,
           ResolvedStatuses
  <1>21. CASE RecoverStale
    <2>1. ExclusiveClaim'
      BY <1>21 DEF RecoverStale, Abandoned, Live, ExclusiveClaim
    <2>2. QuietWhenClosed'
      BY <1>21 DEF RecoverStale, Abandoned, Live,
             QuietWhenClosed, REPROCESSABLE_MANUAL_STATUSES,
             manual_has_unfinished_pages, Unfinished
    <2>3. PublishingSettled'
      BY <1>21 DEF RecoverStale, Abandoned, Live, PublishingSettled,
             manual_has_unfinished_pages, Unfinished, HasChunks, Doubtful,
             ResolvedStatuses
    <2>4. NoStaleFailure'
      BY <1>21 DEF RecoverStale, Abandoned
    <2> QED
      BY <2>1, <2>2, <2>3, <2>4
  <1>22. CASE RecoverDispatch
    BY <1>22, QuietStep DEF RecoverDispatch
  <1>23. CASE DropMessage
    BY <1>23, QuietStep DEF DropMessage, Fault
  <1>24. CASE UNCHANGED vars
    BY <1>24, QuietStep DEF vars
  <1> QED
    BY <1>1, <1>2, <1>3, <1>4, <1>5, <1>6, <1>7, <1>8, <1>9, <1>10, <1>11, <1>12,
       <1>13, <1>14, <1>15, <1>16, <1>17, <1>18, <1>19, <1>20, <1>21, <1>22, <1>23, <1>24
       DEF Next

LEMMA InductiveInvariant ==
    ASSUME "finalize_timeout" \notin Faults
    PROVE  Spec => []IInv
  <1>1. IInv /\ [Next]_vars => IInv'
    BY NextTypeOK, NextLockOwnership, NextClaims DEF IInv
  <1> QED
    BY InitIInv, <1>1, PTL DEF Spec

(* While no call of the index times out inside a finalizer, no page is     *)
(* ever worked on by two tasks or taken from the task that claimed it      *)
(* (claim_page_for_processing), for every number of pages, workers, kills, *)
(* redeliveries, retries and reprocess requests.                           *)
THEOREM ClaimsAreExclusive ==
    ASSUME "finalize_timeout" \notin Faults
    PROVE  Spec => []ExclusiveClaim
  <1>1. IInv => ExclusiveClaim
    BY DEF IInv, Claims
  <1> QED
    BY <1>1, InductiveInvariant, PTL

(* Only the step that ends the call of the index leaves it for the unlock. *)
LEMMA PublishOnly ==
    ASSUME TypeOK, [Next]_vars, NEW w \in Workers,
           at[w] = "publish", at'[w] = "release"
    PROVE  Publish(w)
  <1> USE DEF TypeOK, GoTo, workerVars
  <1>1. ASSUME NEW v \in Workers,
               \/ StartProcess(v) \/ StartFinalize(v) \/ CheckManual(v) \/ SavePage(v)
               \/ Notify(v) \/ PageError(v) \/ PageTimeout(v) \/ LoadManual(v)
               \/ CountUnfinished(v) \/ ResolveVerdict(v) \/ Reject(v)
               \/ \E p \in Pages : StartPage(v, p)
        PROVE  FALSE
    BY <1>1
       DEF StartProcess, StartFinalize, CheckManual, SavePage, Notify, PageError,
           PageTimeout, LoadManual, CountUnfinished, ResolveVerdict, Reject,
           StartPage
  <1>2. ASSUME NEW v \in Workers,
               \/ Release(v) \/ FinalizeTimeout(v) \/ FailManual(v) \/ Kill(v)
               \/ Redeliver(v)
        PROVE  FALSE
    BY <1>2 DEF Release, FinalizeTimeout, FailManual, Kill, Redeliver, Die
  <1>3. CASE \/ Reprocess(Pages) \/ \E p \in Pages : Reprocess({p})
             \/ Delete \/ RecoverStale \/ RecoverDispatch \/ DropMessage
             \/ UNCHANGED vars
    BY <1>3 DEF Reprocess, Delete, RecoverStale, RecoverDispatch, DropMessage, vars
  <1>4. ASSUME NEW v \in Workers, Publish(v) PROVE Publish(w)
    BY <1>4 DEF Publish
  <1> QED
    BY <1>1, <1>2, <1>3, <1>4 DEF Next

(* Under the same assumption, when finalize_manual publishes a manual the  *)
(* status it writes is the one its pages deserve at that moment, although  *)
(* it computed it before the call of the index.                            *)
THEOREM VerdictsAreSound ==
    ASSUME "finalize_timeout" \notin Faults
    PROVE  Spec => PublishedVerdict
  <1> DEFINE Sound ==
        \A w \in Workers :
            at[w] = "publish" /\ at'[w] = "release" /\ status' # "failed" =>
                /\ ~manual_has_unfinished_pages
                /\ status' \in ResolvedStatuses
  <1>1. ASSUME IInv, [Next]_vars PROVE Sound
    <2> SUFFICES ASSUME NEW w \in Workers, at[w] = "publish", at'[w] = "release",
                        status' # "failed"
                 PROVE  /\ ~manual_has_unfinished_pages
                        /\ status' \in ResolvedStatuses
      OBVIOUS
    <2>1. ~manual_has_unfinished_pages /\ verdict[w] \in ResolvedStatuses
      BY <1>1 DEF IInv, Claims, PublishingSettled
    <2>2. verdict[w] # "indexing"
      BY <2>1 DEF ResolvedStatuses
    <2>3. Publish(w)
      BY <1>1, PublishOnly DEF IInv
    <2> QED
      BY <2>1, <2>2, <2>3 DEF Publish
  <1>2. IInv /\ [Next]_vars => [Sound]_vars
    BY <1>1
  <1> QED
    BY <1>2, InductiveInvariant, PTL DEF Spec, PublishedVerdict

(* Under the same assumption nothing runs on a closed manual, so a         *)
(* reprocess request starts from pages no task holds                       *)
(* (begin_manual_reprocessing).                                            *)
THEOREM ClosedIsQuiet ==
    ASSUME "finalize_timeout" \notin Faults
    PROVE  Spec => []QuietWhenClosed
  <1>1. IInv => QuietWhenClosed
    BY DEF IInv, Claims
  <1> QED
    BY <1>1, InductiveInvariant, PTL

-----------------------------------------------------------------------------
(* The refinement.  The tasks, the lock, the queues and what happens to     *)
(* them are invisible behind the mapping Lifecycle of ManualPipeline, and   *)
(* what remains is a settlement, a verdict, a reprocess request or a        *)
(* deletion of ManualLifecycle.                                             *)

todo  == {p \in Pages : Unfinished(p)}
text  == {p \in Pages : HasChunks(p)}
doubt == Doubtful

Mapped == <<status, deleted, todo, text, doubt>>

LEMMA MappedVars == Lifecycle!vars = Mapped
  BY DEF Lifecycle!vars, Mapped, todo, text, doubt

(* The verdict of the pages, once they are settled. *)
LEMMA SettledVerdict ==
    ~manual_has_unfinished_pages =>
        todo = {} /\ ResolvedStatuses = {Lifecycle!Verdict}
  BY DEF manual_has_unfinished_pages, ResolvedStatuses, Lifecycle!Verdict, todo

(* Steps that the mapping hides. *)
LEMMA Hidden ==
    ASSUME TypeOK, TypeOK', UNCHANGED <<status, deleted, quality>>,
           \A p \in Pages :
              ocr'[p] = ocr[p] \/ (Unfinished(p) /\ Unfinished(p)')
    PROVE  UNCHANGED Lifecycle!vars
  BY DEF Lifecycle!vars, Unfinished, HasChunks, Doubtful, TypeOK

(* Steps that end some pages. *)
LEMMA Settles ==
    ASSUME TypeOK, TypeOK', UNCHANGED <<status, deleted>>,
           status \in {"indexing", "hidden"},
           NEW S \in SUBSET Pages, S # {},
           \A p \in S : Unfinished(p) /\ ~Unfinished(p)',
           \A p \in Pages \ S : ocr'[p] = ocr[p] /\ quality'[p] = quality[p]
    PROVE  Lifecycle!Settle
  <1>1. todo' = todo \ S /\ S \subseteq todo
    BY DEF todo, Unfinished
  <1>2. doubt \subseteq doubt' /\ doubt' \subseteq doubt \cup S
    BY DEF doubt, Doubtful, Unfinished
  <1>3. text \ S \subseteq text' /\ text' \subseteq text \cup S
    BY DEF text, HasChunks
  <1> QED
    BY <1>1, <1>2, <1>3 DEF Lifecycle!Settle, todo, doubt, text

LEMMA InitMaps == Init => Lifecycle!Init
  BY DEF Init, Lifecycle!Init, Unfinished, HasChunks, Doubtful

LEMMA NextMaps ==
    ASSUME "finalize_timeout" \notin Faults, IInv, [Next]_vars
    PROVE  [Lifecycle!Next]_(Lifecycle!vars)
  <1> DEFINE Mapping == [Lifecycle!Next]_(Lifecycle!vars)
  <1> USE DEF IInv, Claims, GoTo, manualVars, pageVars
  <1>0. TypeOK /\ TypeOK'
    BY NextTypeOK
  <1>1. ASSUME NEW w \in Workers, StartProcess(w) PROVE Mapping
    BY <1>0, <1>1, Hidden DEF StartProcess, EnqueuePages
  <1>2. ASSUME NEW w \in Workers, NEW p \in Pages, StartPage(w, p)
        PROVE Mapping
    BY <1>0, <1>2, Hidden DEF StartPage, Claimable, Unfinished, TypeOK
  <1>3. ASSUME NEW w \in Workers, CheckManual(w) PROVE Mapping
    BY <1>0, <1>3, Hidden DEF CheckManual
  <1>4. ASSUME NEW w \in Workers, SavePage(w) PROVE Mapping
    <2>1. on[w] \in Pages /\ Unfinished(on[w])
      BY <1>0, <1>4 DEF SavePage, ReadQualities, TypeOK, PageSteps,
                        ExclusiveClaim, Unfinished
    <2>2. status \in {"indexing", "hidden"}
      BY <1>0, <1>4 DEF SavePage, ReadQualities, TypeOK, Statuses, QuietWhenClosed,
             REPROCESSABLE_MANUAL_STATUSES
    <2>3. Lifecycle!Settle
      <3>1. \A p \in {on[w]} : Unfinished(p) /\ ~Unfinished(p)'
        BY <1>0, <1>4, <2>1 DEF SavePage, ReadQualities, replace_page_result,
               mark_page_failed, Unfinished, TypeOK
      <3>2. \A p \in Pages \ {on[w]} :
                ocr'[p] = ocr[p] /\ quality'[p] = quality[p]
        BY <1>0, <1>4 DEF SavePage, ReadQualities, replace_page_result,
                          mark_page_failed,
               TypeOK
      <3>3. UNCHANGED <<status, deleted>>
        BY <1>4 DEF SavePage
      <3>4. {on[w]} \in SUBSET Pages /\ {on[w]} # {}
        BY <2>1
      <3> QED
        BY <1>0, <2>2, <3>1, <3>2, <3>3, <3>4, Settles
    <2> QED
      BY <2>3 DEF Lifecycle!Next
  <1>5. ASSUME NEW w \in Workers, Notify(w) PROVE Mapping
    BY <1>0, <1>5, Hidden DEF Notify
  <1>6. ASSUME NEW w \in Workers, PageError(w) PROVE Mapping
    BY <1>0, <1>6, Hidden DEF PageError, Fault
  <1>7. ASSUME NEW w \in Workers, PageTimeout(w) PROVE Mapping
    <2>1. CASE Live
      <3>1. on[w] \in Pages /\ Unfinished(on[w])
        BY <1>0, <1>7 DEF PageTimeout, TypeOK, PageSteps, ExclusiveClaim,
               Unfinished
      <3>2. \A p \in {on[w]} : Unfinished(p) /\ ~Unfinished(p)'
        BY <1>0, <1>7, <2>1, <3>1 DEF PageTimeout, mark_page_failed,
               Unfinished, TypeOK
      <3>3. \A p \in Pages \ {on[w]} :
                ocr'[p] = ocr[p] /\ quality'[p] = quality[p]
        BY <1>0, <1>7, <2>1 DEF PageTimeout, mark_page_failed, TypeOK
      <3>4. {on[w]} \in SUBSET Pages /\ {on[w]} # {}
        BY <3>1
      <3>5. UNCHANGED <<status, deleted>> /\ status \in {"indexing", "hidden"}
        BY <1>7, <2>1 DEF PageTimeout, Live
      <3>6. Lifecycle!Settle
        BY <1>0, <3>2, <3>3, <3>4, <3>5, Settles
      <3> QED
        BY <3>6 DEF Lifecycle!Next
    <2>2. CASE ~Live
      BY <1>0, <1>7, <2>2, Hidden DEF PageTimeout
    <2> QED
      BY <2>1, <2>2
  <1>8. ASSUME NEW w \in Workers, StartFinalize(w) PROVE Mapping
    BY <1>0, <1>8, Hidden DEF StartFinalize
  <1>9. ASSUME NEW w \in Workers, LoadManual(w) PROVE Mapping
    BY <1>0, <1>9, Hidden DEF LoadManual
  <1>10. ASSUME NEW w \in Workers, CountUnfinished(w) PROVE Mapping
    BY <1>0, <1>10, Hidden DEF CountUnfinished
  <1>11. ASSUME NEW w \in Workers, ResolveVerdict(w) PROVE Mapping
    BY <1>0, <1>11, Hidden DEF ResolveVerdict
  <1>12. ASSUME NEW w \in Workers, Reject(w) PROVE Mapping
    <2>1. ~manual_has_unfinished_pages /\ status \in {"indexing", "hidden"}
      BY <1>0, <1>12 DEF Reject, PublishingSettled, QuietWhenClosed, ClosingSteps,
             TypeOK, Statuses, REPROCESSABLE_MANUAL_STATUSES
    <2>2. UNCHANGED <<deleted, todo, text, doubt>>
      BY <1>12 DEF Reject, todo, text, doubt, Doubtful, Unfinished, HasChunks
    <2>3. Lifecycle!Close
      BY <1>12, <2>1, <2>2, SettledVerdict
         DEF Reject, Lifecycle!Close, todo, text, doubt
    <2> QED
      BY <2>3 DEF Lifecycle!Next
  <1>13. ASSUME NEW w \in Workers, Publish(w) PROVE Mapping
    <2>1. /\ ~manual_has_unfinished_pages
          /\ verdict[w] \in ResolvedStatuses
          /\ status \in {"indexing", "hidden"}
      BY <1>0, <1>13 DEF Publish, PublishingSettled, QuietWhenClosed, ClosingSteps,
             TypeOK, Statuses, REPROCESSABLE_MANUAL_STATUSES
    <2>2. UNCHANGED <<deleted, todo, text, doubt>>
      BY <1>13 DEF Publish, todo, text, doubt, Doubtful, Unfinished, HasChunks
    <2>3. verdict[w] = Lifecycle!Verdict /\ todo = {} /\ verdict[w] # "indexing"
      BY <2>1, SettledVerdict DEF ResolvedStatuses
    <2>4. Lifecycle!Close
      BY <1>13, <2>1, <2>2, <2>3
         DEF Publish, Lifecycle!Close, todo, text, doubt
    <2> QED
      BY <2>4 DEF Lifecycle!Next
  <1>14. ASSUME NEW w \in Workers, Release(w) PROVE Mapping
    BY <1>0, <1>14, Hidden DEF Release
  <1>15. ASSUME NEW w \in Workers, FinalizeTimeout(w) PROVE Mapping
    BY <1>15 DEF FinalizeTimeout, Fault
  <1>16. ASSUME NEW w \in Workers, FailManual(w) PROVE Mapping
    BY <1>16 DEF FailManual, NoStaleFailure
  <1>17. ASSUME NEW w \in Workers, Kill(w) PROVE Mapping
    BY <1>0, <1>17, Hidden DEF Kill, Die, Fault
  <1>18. ASSUME NEW w \in Workers, Redeliver(w) PROVE Mapping
    BY <1>0, <1>18, Hidden DEF Redeliver, Die, Fault
  <1>19. ASSUME NEW S \in SUBSET Pages, S # {}, Reprocess(S)
        PROVE Mapping
    <2>0. \A p \in Pages : ~Unfinished(p)
      BY <1>19 DEF Reprocess, QuietWhenClosed, manual_has_unfinished_pages
    <2>1. todo' = S
      BY <1>0, <1>19, <2>0 DEF Reprocess, todo, Unfinished, TypeOK
    <2>2. UNCHANGED text /\ doubt' = doubt \ S
      BY <1>0, <1>19, <2>0
         DEF Reprocess, text, doubt, Doubtful, HasChunks, Unfinished, TypeOK
    <2>3. Lifecycle!Reprocess
      BY <1>19, <2>1, <2>2 DEF Reprocess, Lifecycle!Reprocess,
             Lifecycle!Verdicts, REPROCESSABLE_MANUAL_STATUSES, todo, text,
             doubt
    <2> QED
      BY <2>3 DEF Lifecycle!Next
  <1>20. CASE Delete
    <2>1. UNCHANGED <<todo, text, doubt>>
      BY <1>20 DEF Delete, todo, text, doubt, Doubtful, Unfinished, HasChunks
    <2> QED
      BY <1>20, <2>1 DEF Delete, Lifecycle!Next, Lifecycle!Remove, todo, text,
             doubt
  <1>21. CASE RecoverStale
    <2>1. PICK S \in SUBSET {p \in Pages : Abandoned(p)} :
              /\ S # {}
              /\ ocr' = [p \in Pages |-> IF p \in S THEN "failed" ELSE ocr[p]]
      BY <1>21 DEF RecoverStale
    <2>2. \A p \in S : Unfinished(p) /\ ~Unfinished(p)'
      BY <2>1 DEF Abandoned, Unfinished
    <2>3. Lifecycle!Settle
      BY <1>0, <1>21, <2>1, <2>2, Settles DEF RecoverStale, Live
    <2> QED
      BY <2>3 DEF Lifecycle!Next
  <1>22. CASE RecoverDispatch
    BY <1>0, <1>22, Hidden DEF RecoverDispatch
  <1>23. CASE DropMessage
    BY <1>0, <1>23, Hidden DEF DropMessage, Fault
  <1>24. CASE UNCHANGED vars
    BY <1>0, <1>24, Hidden DEF vars
  <1> QED
    BY <1>1, <1>2, <1>3, <1>4, <1>5, <1>6, <1>7, <1>8, <1>9, <1>10, <1>11, <1>12,
       <1>13, <1>14, <1>15, <1>16, <1>17, <1>18, <1>19, <1>20, <1>21, <1>22, <1>23, <1>24,
       PagesAssumption DEF Next

(* While no call of the index times out inside a finalizer, the pipeline   *)
(* keeps the promise of ManualLifecycle: pages are settled before a        *)
(* verdict, and the verdict follows from them, for every interleaving of   *)
(* its tasks with requests, deletions, kills and redeliveries.             *)
THEOREM PipelineImplementsLifecycle ==
    ASSUME "finalize_timeout" \notin Faults
    PROVE  Spec => ImplementsLifecycle
  <1>1. IInv /\ [Next]_vars => [Lifecycle!Next]_(Lifecycle!vars)
    BY NextMaps
  <1> QED
    BY InitMaps, <1>1, InductiveInvariant, PTL
       DEF Spec, ImplementsLifecycle, Lifecycle!Spec
=============================================================================
