-------------------------- MODULE ManualIndexProofs --------------------------
(***************************************************************************)
(* No message that drops chunks from the index names a chunk in use:       *)
(* proofs, for any number of pages, workers, edits, reprocess requests and *)
(* failures of RAG.                                                        *)
(***************************************************************************)
EXTENDS ManualIndex, TLAPS

Messages ==
    [kind : {"process", "sync", "purge", "finalize", "reindex"},
     page : Pages \cup {None}, chunks : SUBSET ChunkIds]

(* Everything a task, a message or RAG may still write or drop are chunks. *)
Typed ==
    /\ TypeOK
    /\ editing \in Pages \cup {None}
    /\ queue \subseteq Messages
    /\ \A m \in queue : m.kind = "sync" => m.page \in Pages
    /\ job \in [Workers -> Jobs \cup {None}]
    /\ late \subseteq SUBSET ChunkIds
    /\ inventory # None => inventory \subseteq ChunkIds

(* The chunks of the texts Postgres has had: nothing else knows of a chunk *)
(* before.                                                                 *)
KnownChunks == {c \in ChunkIds : c[2] <= texts[c[1]]}

AllKnown ==
    /\ index \subseteq KnownChunks
    /\ \A w \in Workers : job[w] # None => job[w].chunks \subseteq KnownChunks
    /\ late \subseteq SUBSET KnownChunks
    /\ inventory # None => inventory \subseteq KnownChunks
    /\ \A m \in queue : m.chunks \subseteq KnownChunks

(* The chunks Postgres has had and will never have again.                  *)
StaleChunks == {c \in KnownChunks : c[2] = texts[c[1]] => c[1] \notin stored}

PurgesAreStale ==
    \A m \in queue :
        m.kind = "sync" \/ (m.kind = "purge" /\ ~deleted) =>
            m.chunks \subseteq StaleChunks

IndInv == Typed /\ AllKnown /\ PurgesAreStale

-----------------------------------------------------------------------------
(* Chunks.                                                                 *)

LEMMA ChunksAreKnown ==
    ASSUME Typed, NEW S \in SUBSET Pages
    PROVE  /\ ChunksOf(S) \subseteq ChunkIds
           /\ ChunksOf(S) \subseteq KnownChunks
  <1>1. texts \in [Pages -> Nat]
    BY DEF Typed, TypeOK
  <1> QED
    BY <1>1 DEF ChunksOf, Chunk, ChunkIds, KnownChunks

LEMMA StatusesAreTyped == ResolvedStatuses \subseteq Statuses
  BY DEF ResolvedStatuses, Statuses, Doubtful

(* What a page may do to its text: have a new one, lose its chunks, or     *)
(* nothing.                                                                *)
TextsMove ==
    \A p \in Pages :
        \/ texts'[p] = texts[p] + 1
        \/ texts'[p] = texts[p] /\ (p \in stored' => p \in stored)

LEMMA NextMovesTexts ==
    ASSUME Typed, [Next]_vars
    PROVE  TextsMove /\ (deleted => deleted')
  <1>1. texts \in [Pages -> Nat]
    BY DEF Typed, TypeOK
  <1> USE <1>1 DEF TextsMove, manualVars, pageVars, boundVars
  <1>2. ASSUME NEW p \in Pages, PageTask(p) PROVE TextsMove /\ (deleted => deleted')
    BY <1>2 DEF PageTask
  <1>3. ASSUME EditCommit PROVE TextsMove /\ (deleted => deleted')
    BY <1>3 DEF EditCommit, Typed
  <1>4. ASSUME NEW m \in queue, Purge(m) \/ Process(m) \/ SkipSync(m)
        PROVE  TextsMove /\ (deleted => deleted')
    BY <1>4 DEF Purge, Process, SkipSync
  <1>5. ASSUME NEW w \in Workers, NEW m \in queue, StartSync(w, m)
        PROVE  TextsMove /\ (deleted => deleted')
    BY <1>5 DEF StartSync
  <1>6. ASSUME NEW w \in Workers,
               StartFinalize(w) \/ StartReindex(w) \/ Upsert(w) \/ Prune(w)
                 \/ IngestFails(w) \/ Write(w)
        PROVE  TextsMove /\ (deleted => deleted')
    BY <1>6 DEF StartFinalize, StartReindex, Upsert, Prune, IngestFails, Write
  <1>7. ASSUME NEW S \in SUBSET Pages, Reprocess(S) PROVE TextsMove /\ (deleted => deleted')
    BY <1>7 DEF Reprocess
  <1>8. ASSUME NEW p \in Pages, EditCheck(p) PROVE TextsMove /\ (deleted => deleted')
    BY <1>8 DEF EditCheck
  <1>9. ASSUME NEW chunks \in late, LateIngest(chunks) PROVE TextsMove /\ (deleted => deleted')
    BY <1>9 DEF LateIngest
  <1>10. ASSUME Delete \/ ReadInventory \/ PlanRepair \/ InventoryLost
         PROVE  TextsMove /\ (deleted => deleted')
    BY <1>10 DEF Delete, ReadInventory, PlanRepair, InventoryLost
  <1>11. ASSUME UNCHANGED vars PROVE TextsMove /\ (deleted => deleted')
    BY <1>11 DEF vars
  <1> QED
    BY <1>2, <1>3, <1>4, <1>5, <1>6, <1>7, <1>8, <1>9, <1>10, <1>11 DEF Next

(* What was known stays known, and what was stale stays stale.             *)
LEMMA TextsOnlyGrow ==
    ASSUME Typed, [Next]_vars
    PROVE  KnownChunks \subseteq KnownChunks' /\ StaleChunks \subseteq StaleChunks'
  <1>1. texts \in [Pages -> Nat] /\ \A c \in ChunkIds : c[1] \in Pages /\ c[2] \in Nat
    BY DEF Typed, TypeOK, ChunkIds
  <1>2. TextsMove
    BY NextMovesTexts
  <1>3. ASSUME NEW c \in KnownChunks PROVE c \in KnownChunks'
    BY <1>1, <1>2 DEF TextsMove, KnownChunks
  <1>4. ASSUME NEW c \in StaleChunks PROVE c \in StaleChunks'
    BY <1>1, <1>2 DEF TextsMove, KnownChunks, StaleChunks
  <1> QED
    BY <1>3, <1>4

LEMMA StaleIsUnused ==
    ASSUME Typed
    PROVE  StaleChunks \cap Chunks = {}
  BY DEF StaleChunks, KnownChunks, Chunks, ChunksOf, Chunk, ChunkIds, Typed, TypeOK

-----------------------------------------------------------------------------
(* Messages.                                                               *)

LEMMA DeliverKeeps ==
    ASSUME NEW m \in queue, NEW more, Deliver(m, more)
    PROVE  queue' \subseteq queue \cup more /\ index' \subseteq index
  BY DEF Deliver

LEMMA ReceiveKeeps ==
    ASSUME NEW m, Receive(m)
    PROVE  queue' \subseteq queue
  BY DEF Receive

LEMMA MessagesAreTyped ==
    ASSUME Typed
    PROVE  /\ \A S \in SUBSET Pages : ProcessMsg(ChunksOf(S)) \in Messages
           /\ \A p \in Pages : SyncMsg(p, ChunksOf({p})) \in Messages
           /\ PurgeMsg(Chunks) \in Messages
           /\ FinalizeMsg \in Messages /\ FinalizeMsg.kind = "finalize"
           /\ Repairs \subseteq Messages \/ inventory = None
           /\ \A m \in Repairs : m.kind \in {"purge", "reindex"}
  <1>1. \A S \in SUBSET Pages : ChunksOf(S) \subseteq ChunkIds
    BY ChunksAreKnown
  <1>2. inventory # None => inventory \subseteq ChunkIds
    BY DEF Typed
  <1> QED
    BY <1>1, <1>2 DEF Messages, Message, ProcessMsg, SyncMsg, PurgeMsg, FinalizeMsg, ReindexMsg,
                      Repairs, Orphans, Chunks

-----------------------------------------------------------------------------
(* Type correctness.                                                       *)

LEMMA InitTyped == Init => Typed
  <1> SUFFICES ASSUME Init PROVE Typed
    OBVIOUS
  <1>1. status \in Statuses
    BY StatusesAreTyped DEF Init
  <1>2. Chunks \subseteq ChunkIds
    BY DEF Init, Chunks, ChunksOf, Chunk, ChunkIds
  <1> QED
    BY <1>1, <1>2, ActorsAssumption, NoneAssumption DEF Init, Typed, TypeOK

LEMMA NextTyped == Typed /\ [Next]_vars => Typed'
  <1> SUFFICES ASSUME Typed, [Next]_vars PROVE Typed'
    OBVIOUS
  <1>0. /\ \A S \in SUBSET Pages : ChunksOf(S) \subseteq ChunkIds
        /\ ResolvedStatuses \subseteq Statuses
    BY ChunksAreKnown, StatusesAreTyped
  <1> USE <1>0, ActorsAssumption, NoneAssumption
      DEF Typed, TypeOK, manualVars, pageVars, boundVars
  <1>1. ASSUME NEW S \in SUBSET Pages, Reprocess(S) PROVE Typed'
    BY <1>1, MessagesAreTyped DEF Reprocess, Statuses, ProcessMsg, Message
  <1>2. ASSUME NEW p \in Pages, EditCheck(p) PROVE Typed'
    BY <1>2 DEF EditCheck, Editable
  <1>3. ASSUME EditCommit PROVE Typed'
    BY <1>3, MessagesAreTyped DEF EditCommit, SyncMsg, Message
  <1>4. ASSUME Delete PROVE Typed'
    BY <1>4, MessagesAreTyped DEF Delete, Statuses, PurgeMsg, Message
  <1>5. ASSUME NEW p \in Pages, PageTask(p) PROVE Typed'
    <2>1. /\ page' \in [Pages -> {"pending", "sent", "good", "doubtful"}]
          /\ texts' \in [Pages -> Nat]
          /\ stored' \subseteq Pages
      BY <1>5 DEF PageTask
    <2>2. queue' = queue \cup {FinalizeMsg}
      BY <1>5 DEF PageTask
    <2>3. /\ queue' \subseteq Messages
          /\ \A m \in queue' : m.kind = "sync" => m.page \in Pages
      BY <2>2, MessagesAreTyped
    <2> QED
      BY <1>5, <2>1, <2>3 DEF PageTask
  <1>6. ASSUME NEW m \in queue, Purge(m) PROVE Typed'
    BY <1>6, DeliverKeeps DEF Purge
  <1>7. ASSUME NEW m \in queue, Process(m) PROVE Typed'
    <2>1. queue' \subseteq queue \cup {FinalizeMsg} /\ index' \subseteq index
      BY <1>7, DeliverKeeps DEF Process
    <2>2. /\ queue' \subseteq Messages
          /\ \A n \in queue' : n.kind = "sync" => n.page \in Pages
      BY <2>1, MessagesAreTyped
    <2>3. page' \in [Pages -> {"pending", "sent", "good", "doubtful"}]
      BY <1>7 DEF Process
    <2> QED
      BY <1>7, <2>1, <2>2, <2>3 DEF Process
  <1>8. ASSUME NEW m \in queue, SkipSync(m) PROVE Typed'
    BY <1>8, ReceiveKeeps DEF SkipSync
  <1>9. ASSUME NEW w \in Workers, NEW m \in queue, StartSync(w, m) PROVE Typed'
    <2>1. queue' \subseteq queue /\ index' \subseteq index
      BY <1>9, DeliverKeeps DEF StartSync
    <2> DEFINE chunks == ChunksOf({m.page})
               j == Job("sync", IF chunks = {} THEN "write" ELSE "upsert", chunks, status)
    <2>2. j \in Jobs /\ j.kind = "sync" /\ job' = [job EXCEPT ![w] = j]
      <3>1. chunks \subseteq ChunkIds
        BY <1>9 DEF StartSync
      <3>2. job' = [job EXCEPT ![w] = j]
        BY <1>9 DEF StartSync, Begin
      <3> QED
        BY <3>1, <3>2 DEF Job, Jobs
    <2> HIDE DEF j
    <2> QED
      BY <1>9, <2>1, <2>2, JobsAssumption DEF StartSync, Idle
  <1>10. ASSUME NEW w \in Workers, StartFinalize(w) PROVE Typed'
    <2>1. queue' \subseteq queue
      BY <1>10, ReceiveKeeps DEF StartFinalize
    <2>2. CASE UNCHANGED <<lock, job>>
      BY <1>10, <2>1, <2>2 DEF StartFinalize, Statuses
    <2>3. CASE lock = NoOne /\ lock' = w /\ UNCHANGED status
                 /\ \E final \in ResolvedStatuses :
                       Begin(w, Job("finalize", "upsert", Chunks, final))
      <3>1. PICK j \in Jobs : j.kind = "finalize" /\ job' = [job EXCEPT ![w] = j]
        BY <2>3 DEF Begin, Job, Jobs, Chunks
      <3> QED
        BY <1>10, <2>1, <2>3, <3>1, JobsAssumption DEF StartFinalize, Idle
    <2> QED
      BY <1>10, <2>2, <2>3 DEF StartFinalize
  <1>11. ASSUME NEW w \in Workers, StartReindex(w) PROVE Typed'
    <2>1. queue' \subseteq queue
      BY <1>11, ReceiveKeeps DEF StartReindex
    <2>2. CASE UNCHANGED <<lock, job>>
      BY <1>11, <2>1, <2>2 DEF StartReindex
    <2>3. CASE lock = NoOne /\ lock' = w /\ Begin(w, Job("reindex", "upsert", Chunks, "active"))
      <3>1. PICK j \in Jobs : j.kind = "reindex" /\ job' = [job EXCEPT ![w] = j]
        BY <2>3 DEF Begin, Job, Jobs, Chunks, Statuses
      <3> QED
        BY <1>11, <2>1, <2>3, <3>1, JobsAssumption DEF StartReindex, Idle
    <2> QED
      BY <1>11, <2>2, <2>3 DEF StartReindex
  <1>12. ASSUME NEW w \in Workers, Upsert(w) \/ Prune(w) PROVE Typed'
    <2>1. job[w] \in Jobs /\ index' \subseteq ChunkIds
      BY <1>12 DEF Upsert, Prune, At, Jobs
    <2>2. PICK j \in Jobs : j.kind = job[w].kind /\ job' = [job EXCEPT ![w] = j]
      BY <1>12, <2>1 DEF Upsert, Prune, GoTo, Jobs
    <2> QED
      BY <1>12, <2>1, <2>2, JobsAssumption DEF Upsert, Prune
  <1>13. ASSUME NEW w \in Workers, IngestFails(w) PROVE Typed'
    <2>1. job[w] \in Jobs
      BY <1>13 DEF IngestFails, At
    <2>2. late' \subseteq SUBSET ChunkIds /\ status' \in Statuses
      BY <1>13, <2>1 DEF IngestFails, Jobs, Statuses
    <2> QED
      BY <1>13, <2>1, <2>2, JobsAssumption DEF IngestFails, Unlock, Stop
  <1>14. ASSUME NEW w \in Workers, Write(w) PROVE Typed'
    <2>1. job[w] \in Jobs
      BY <1>14 DEF Write, At
    <2>2. status' \in Statuses
      BY <1>14, <2>1 DEF Write, Jobs
    <2> QED
      BY <1>14, <2>1, <2>2, JobsAssumption DEF Write, Unlock, Stop
  <1>15. ASSUME NEW chunks \in late, LateIngest(chunks) PROVE Typed'
    BY <1>15 DEF LateIngest
  <1>16. ASSUME ReadInventory \/ InventoryLost PROVE Typed'
    BY <1>16 DEF ReadInventory, InventoryLost
  <1>17. ASSUME PlanRepair PROVE Typed'
    BY <1>17, MessagesAreTyped DEF PlanRepair
  <1>18. ASSUME UNCHANGED vars PROVE Typed'
    BY <1>18 DEF vars
  <1> HIDE DEF Typed, TypeOK
  <1> QED
    BY <1>1, <1>2, <1>3, <1>4, <1>5, <1>6, <1>7, <1>8, <1>9, <1>10, <1>11,
       <1>12, <1>13, <1>14, <1>15, <1>16, <1>17, <1>18 DEF Next

-----------------------------------------------------------------------------
(* Purges.                                                                 *)

LEMMA NextKnown == Typed /\ AllKnown /\ [Next]_vars => AllKnown'
  <1> SUFFICES ASSUME Typed, AllKnown, [Next]_vars PROVE AllKnown'
    OBVIOUS
  <1>0. /\ KnownChunks \subseteq KnownChunks'
        /\ \A S \in SUBSET Pages : ChunksOf(S) \subseteq KnownChunks
        /\ job \in [Workers -> Jobs \cup {None}]
    BY TextsOnlyGrow, ChunksAreKnown DEF Typed
  <1> USE <1>0, NoneAssumption, JobsAssumption
      DEF AllKnown, manualVars, pageVars, boundVars
  <1>1. ASSUME NEW S \in SUBSET Pages, Reprocess(S) PROVE AllKnown'
    BY <1>1 DEF Reprocess, ProcessMsg, Message
  <1>2. ASSUME NEW p \in Pages, EditCheck(p) PROVE AllKnown'
    BY <1>2 DEF EditCheck, Editable
  <1>3. ASSUME EditCommit PROVE AllKnown'
    <2>1. editing \in Pages
      BY <1>3 DEF EditCommit, Typed
    <2> QED
      BY <1>3, <2>1 DEF EditCommit, SyncMsg, Message
  <1>4. ASSUME Delete PROVE AllKnown'
    BY <1>4 DEF Delete, PurgeMsg, Message, Chunks
  <1>5. ASSUME NEW p \in Pages, PageTask(p) PROVE AllKnown'
    <2>1. queue' = queue \cup {FinalizeMsg} /\ UNCHANGED <<index, job, late, inventory>>
      BY <1>5 DEF PageTask
    <2> QED
      BY <2>1 DEF FinalizeMsg, Message
  <1>6. ASSUME NEW m \in queue, Purge(m) PROVE AllKnown'
    BY <1>6, DeliverKeeps DEF Purge
  <1>7. ASSUME NEW m \in queue, Process(m) PROVE AllKnown'
    <2>1. /\ queue' \subseteq queue \cup {FinalizeMsg} /\ index' \subseteq index
          /\ UNCHANGED <<job, late, inventory>>
      BY <1>7, DeliverKeeps DEF Process
    <2> QED
      BY <2>1 DEF FinalizeMsg, Message
  <1>8. ASSUME NEW m \in queue, SkipSync(m) PROVE AllKnown'
    BY <1>8, ReceiveKeeps DEF SkipSync
  <1>9. ASSUME NEW w \in Workers, NEW m \in queue, StartSync(w, m) PROVE AllKnown'
    <2>1. queue' \subseteq queue /\ index' \subseteq index /\ UNCHANGED <<late, inventory>>
      BY <1>9, DeliverKeeps DEF StartSync
    <2> DEFINE chunks == ChunksOf({m.page})
               j == Job("sync", IF chunks = {} THEN "write" ELSE "upsert", chunks, status)
    <2>2. j.chunks = chunks /\ job' = [job EXCEPT ![w] = j]
      BY <1>9 DEF StartSync, Begin, Job
    <2>3. chunks \subseteq KnownChunks
      BY <1>9 DEF StartSync, Typed
    <2> HIDE DEF j
    <2> QED
      BY <2>1, <2>2, <2>3
  <1>10. ASSUME NEW w \in Workers, StartFinalize(w) \/ StartReindex(w) PROVE AllKnown'
    <2>1. queue' \subseteq queue /\ UNCHANGED <<index, late, inventory>>
      BY <1>10, ReceiveKeeps DEF StartFinalize, StartReindex
    <2>2. \/ UNCHANGED job
          \/ \E j : j.chunks = Chunks /\ job' = [job EXCEPT ![w] = j]
      BY <1>10 DEF StartFinalize, StartReindex, Begin, Job
    <2> QED
      BY <2>1, <2>2 DEF Chunks
  <1>11. ASSUME NEW w \in Workers, Upsert(w) \/ Prune(w) PROVE AllKnown'
    <2>1. /\ job[w] # None
          /\ index' \subseteq index \cup job[w].chunks
          /\ UNCHANGED <<queue, late, inventory>>
      BY <1>11 DEF Upsert, Prune, At
    <2>2. PICK j \in Jobs : j.chunks = job[w].chunks /\ job' = [job EXCEPT ![w] = j]
      BY <1>11, <2>1 DEF Upsert, Prune, GoTo, Jobs
    <2> QED
      BY <2>1, <2>2
  <1>12. ASSUME NEW w \in Workers, IngestFails(w) \/ Write(w) PROVE AllKnown'
    BY <1>12 DEF IngestFails, Write, At, Stop
  <1>13. ASSUME NEW chunks \in late, LateIngest(chunks) PROVE AllKnown'
    BY <1>13 DEF LateIngest
  <1>14. ASSUME ReadInventory \/ InventoryLost PROVE AllKnown'
    BY <1>14 DEF ReadInventory, InventoryLost
  <1>15. ASSUME PlanRepair PROVE AllKnown'
    BY <1>15 DEF PlanRepair, Repairs, Orphans, PurgeMsg, ReindexMsg, Message
  <1>16. ASSUME UNCHANGED vars PROVE AllKnown'
    BY <1>16 DEF vars
  <1> HIDE DEF AllKnown
  <1> QED
    BY <1>1, <1>2, <1>3, <1>4, <1>5, <1>6, <1>7, <1>8, <1>9, <1>10, <1>11,
       <1>12, <1>13, <1>14, <1>15, <1>16 DEF Next

(* A message that is not there yet: of another kind, or one of an edit     *)
(* that replaces the text it names, of a deletion, or of the               *)
(* reconciliation, for a manual that is deleted or has no text.            *)
LEMMA NextMessages ==
    ASSUME Typed, AllKnown, [Next]_vars, NEW m \in queue' \ queue
    PROVE  \/ m.kind \notin {"sync", "purge"}
           \/ m.kind = "purge" /\ deleted'
           \/ m.chunks \subseteq StaleChunks'
  <1> DEFINE Fresh == \/ m.kind \notin {"sync", "purge"}
                      \/ m.kind = "purge" /\ deleted'
                      \/ m.chunks \subseteq StaleChunks'
  <1>0. FinalizeMsg.kind = "finalize"
    BY MessagesAreTyped
  <1> USE <1>0 DEF manualVars, pageVars, boundVars
  <1>1. ASSUME NEW S \in SUBSET Pages, Reprocess(S) PROVE Fresh
    BY <1>1 DEF Reprocess, ProcessMsg, Message
  <1>2. ASSUME EditCommit PROVE Fresh
    <2>1. m = SyncMsg(editing, ChunksOf({editing})) /\ editing \in Pages
      BY <1>2 DEF EditCommit, Typed
    <2>2. texts' = [texts EXCEPT ![editing] = @ + 1] /\ texts \in [Pages -> Nat]
      BY <1>2 DEF EditCommit, Typed, TypeOK
    <2>3. ChunksOf({editing}) \subseteq StaleChunks'
      BY <2>1, <2>2 DEF ChunksOf, Chunk, StaleChunks, KnownChunks, ChunkIds
    <2> QED
      BY <2>1, <2>3 DEF SyncMsg, Message
  <1>3. ASSUME Delete PROVE Fresh
    BY <1>3 DEF Delete, PurgeMsg, Message
  <1>4. ASSUME NEW p \in Pages, PageTask(p) PROVE Fresh
    BY <1>4 DEF PageTask
  <1>5. ASSUME NEW n \in queue, Purge(n) \/ Process(n) \/ SkipSync(n) PROVE Fresh
    <2>1. queue' \subseteq queue \cup {FinalizeMsg}
      BY <1>5, DeliverKeeps, ReceiveKeeps DEF Purge, Process, SkipSync
    <2> QED
      BY <2>1
  <1>6. ASSUME NEW w \in Workers, NEW n \in queue, StartSync(w, n) PROVE Fresh
    BY <1>6, DeliverKeeps DEF StartSync
  <1>7. ASSUME NEW w \in Workers,
               StartFinalize(w) \/ StartReindex(w) \/ Upsert(w) \/ Prune(w)
                 \/ IngestFails(w) \/ Write(w)
        PROVE  Fresh
    BY <1>7, ReceiveKeeps
       DEF StartFinalize, StartReindex, Upsert, Prune, IngestFails, Write
  <1>8. ASSUME PlanRepair PROVE Fresh
    <2>1. m \in Repairs /\ inventory # None /\ UNCHANGED <<deleted, texts, stored>>
      BY <1>8 DEF PlanRepair
    <2>2. CASE deleted
      BY <2>1, <2>2 DEF Repairs, Alive, Orphans, PurgeMsg, Message
    <2>3. CASE ~deleted /\ Chunks = {}
      <3>1. stored = {}
        BY <2>3 DEF Chunks, ChunksOf, Typed, TypeOK
      <3>2. inventory \subseteq StaleChunks'
        BY <2>1, <3>1 DEF AllKnown, KnownChunks, StaleChunks
      <3> QED
        BY <2>1, <2>3, <3>2 DEF Repairs, Alive, Orphans, PurgeMsg, ReindexMsg, Message
    <2>4. CASE ~deleted /\ Chunks # {}
      BY <2>1, <2>4 DEF Repairs, Alive, ReindexMsg, Message
    <2> QED
      BY <2>2, <2>3, <2>4
  <1>9. ASSUME \/ ReadInventory \/ InventoryLost \/ UNCHANGED vars
               \/ \E p \in Pages : EditCheck(p)
               \/ \E chunks \in late : LateIngest(chunks)
        PROVE  Fresh
    BY <1>9 DEF ReadInventory, InventoryLost, EditCheck, LateIngest, vars
  <1> HIDE DEF Fresh
  <1>10. Fresh
    BY <1>1, <1>2, <1>3, <1>4, <1>5, <1>6, <1>7, <1>8, <1>9 DEF Next
  <1> QED
    BY <1>10 DEF Fresh

LEMMA NextStale == IndInv /\ [Next]_vars => PurgesAreStale'
  <1> SUFFICES ASSUME Typed, AllKnown, PurgesAreStale, [Next]_vars,
                      NEW m \in queue',
                      m.kind = "sync" \/ (m.kind = "purge" /\ ~deleted')
               PROVE  m.chunks \subseteq StaleChunks'
    BY DEF IndInv, PurgesAreStale
  <1>1. CASE m \in queue
    BY <1>1, NextMovesTexts, TextsOnlyGrow DEF PurgesAreStale
  <1>2. CASE m \notin queue
    BY <1>2, NextMessages
  <1> QED
    BY <1>1, <1>2

LEMMA InitInv == Init => IndInv
  <1> SUFFICES ASSUME Init PROVE IndInv
    OBVIOUS
  <1>1. Typed
    BY InitTyped
  <1>2. Chunks \subseteq KnownChunks
    BY <1>1, ChunksAreKnown DEF Chunks
  <1> QED
    BY <1>1, <1>2 DEF Init, IndInv, AllKnown, PurgesAreStale

THEOREM Invariance == Spec => []IndInv
  <1>1. IndInv /\ [Next]_vars => IndInv'
    BY NextTyped, NextKnown, NextStale DEF IndInv
  <1> QED
    BY InitInv, <1>1, PTL DEF Spec

(* Every variable keeps its domain, and the lock of a manual belongs to    *)
(* the finalizer or the reindex at work, or to the edit of the owner.      *)
THEOREM TypeCorrect == Spec => []TypeOK
  <1>1. IndInv => TypeOK
    BY DEF IndInv, Typed
  <1> QED
    BY <1>1, Invariance, PTL

(* delete_chunks_from_rag_task and sync_page_rag never drop a chunk of a   *)
(* manual in use, whatever was edited, reprocessed, repeated or late since *)
(* their message was sent.                                                 *)
THEOREM PurgesNeverBite == Spec => []PurgesAreSafe
  <1>1. IndInv => PurgesAreSafe
    BY StaleIsUnused DEF IndInv, PurgesAreStale, PurgesAreSafe
  <1> QED
    BY <1>1, Invariance, PTL
=============================================================================
