-------------------------- MODULE ExplanationsProofs --------------------------
(***************************************************************************)
(* The explanations of a game, their jobs and what their readers are shown:*)
(* proofs, for any users, manuals, questions, workers, changes and faults. *)
(***************************************************************************)
EXTENDS Explanations, TLAPS, FiniteSetTheorems, SequenceTheorems

(* The API and RAG count the same changes of a manual: what RAG has not    *)
(* heard of will only move the date forward.                               *)
Counted ==
    \A m \in Manuals : text[m] <= changes /\ indexed[m] + unsynced[m] <= changes

(* A generation that goes on has sections to write, and a ready explanation*)
(* has them all.                                                           *)
Unfinished ==
    /\ \A fp \in DOMAIN rows :
         IF rows[fp].status = "ready" THEN Len(rows[fp].sections) = Questions
         ELSE Len(rows[fp].sections) < Questions
    /\ \A u \in Users : step[u] = "request" => Len(found[u]) < Questions
    /\ \A w \in Workers :
         /\ at[w] = "answer" => Len(done[w]) < Questions
         /\ at[w] = "save" => Len(done[w]) <= Questions

(* A worker that writes has the pool it was asked for.                     *)
PoolIsAsked ==
    \A w \in Workers : at[w] \in {"answer", "save"} => pool[w] = job[w].fingerprint

(* A section written for a fingerprint cites a manual of it, and the text  *)
(* of today unless the manual has a later date, or will when RAG hears of  *)
(* its edits.                                                              *)
Sourced(sections, fp) ==
    \A i \in DOMAIN sections : \A x \in sections[i] :
        \E y \in fp :
            /\ y[1] = x[1]
            /\ \/ x[2] = text[x[1]]
               \/ indexed[x[1]] + unsynced[x[1]] > y[2]

SectionsSourced ==
    /\ \A fp \in DOMAIN rows : Sourced(rows[fp].sections, fp)
    /\ \A u \in Users : step[u] = "request" => Sourced(found[u], asked[u])
    /\ \A w \in Workers :
         at[w] \in {"answer", "save"} => Sourced(done[w], job[w].fingerprint)

(* Dates only move forward: those of a fingerprint are today's or older.   *)
Past(fp) == \A y \in fp : y[2] <= indexed[y[1]]

Known ==
    DOMAIN rows
    \cup {asked[u] : u \in Users}
    \cup {m.fingerprint : m \in queue}
    \cup {job[w].fingerprint : w \in {v \in Workers : at[v] \notin {"idle", "off"}}}

FingerprintsPast == \A fp \in Known : Past(fp)

-----------------------------------------------------------------------------
(* Jobs, while nothing fails.                                              *)

Requesting(u, fp) == step[u] = "request" /\ asked[u] = fp
Running(w, fp) == at[w] \notin {"idle", "off", "release"} /\ job[w].fingerprint = fp
Awaited(fp) == Generating(fp) /\ ~rows[fp].stale

OneRequest ==
    \A u, v \in Users, fp \in Fingerprints : Requesting(u, fp) /\ Requesting(v, fp) => u = v

NoSecondJob ==
    \A fp \in Fingerprints :
        /\ \A u \in Users : Requesting(u, fp) =>
             /\ \A m \in queue : m.fingerprint # fp
             /\ \A w \in Workers : ~Running(w, fp)
        /\ \A m \in queue : m.fingerprint = fp =>
             /\ Awaited(fp)
             /\ \A n \in queue : n.fingerprint = fp => n = m
             /\ \A w \in Workers : ~Running(w, fp)
        /\ \A w \in Workers : Running(w, fp) =>
             /\ Awaited(fp)
             /\ \A v \in Workers : Running(v, fp) => v = w

JobInv == TypeOK /\ Unfinished /\ OneRequest /\ (faults = 0 => NoSecondJob)

USE ManualsAssumption, BoundsAssumption DEF manualVars, requestVars, taskVars

-----------------------------------------------------------------------------
(* Types.                                                                  *)

LEMMA PoolsAreFingerprints ==
    ASSUME TypeOK, NEW u \in Users
    PROVE  Pool(u) \in Fingerprints /\ Fingerprint(Pool(u)) \in Fingerprints
  BY DEF TypeOK, Pool, Fingerprint, Fingerprints, Pools

LEMMA JobsAreMessages ==
    ASSUME TypeOK, NEW w \in Workers, at[w] \notin {"idle", "off"}
    PROVE  /\ job[w] \in Messages
           /\ job[w].fingerprint \in Fingerprints /\ job[w].user \in Users
  <1>1. job[w] \in Messages
    BY DEF TypeOK
  <1> QED
    BY <1>1 DEF Messages

LEMMA Retried ==
    ASSUME NEW m \in Messages
    PROVE  /\ m.locked < LOCK_BUSY_MAX_RETRIES =>
                /\ [m EXCEPT !.locked = @ + 1] \in Messages
                /\ [m EXCEPT !.locked = @ + 1].fingerprint = m.fingerprint
           /\ m.external < EXTERNAL_ERROR_MAX_RETRIES =>
                /\ [m EXCEPT !.external = @ + 1] \in Messages
                /\ [m EXCEPT !.external = @ + 1].fingerprint = m.fingerprint
  BY DEF Messages

(* No message is the empty job.                                            *)
LEMMA NoJobIsNoMessage == <<>> \notin Messages
  BY DEF Messages

LEMMA SectionAdded ==
    ASSUME TypeOK, NEW w \in Workers
    PROVE  Append(done[w], {<<x[1], text[x[1]]>> : x \in pool[w]}) \in Seq(SectionTexts)
  <1>1. {<<x[1], text[x[1]]>> : x \in pool[w]} \in SectionTexts
    BY DEF TypeOK, Pools, SectionTexts
  <1>2. done[w] \in Seq(SectionTexts)
    BY DEF TypeOK
  <1> QED
    BY <1>1, <1>2

LEMMA ManualTypes ==
    ASSUME TypeOK, Counted, NEW m \in Manuals, ManualStep(m)
    PROVE  TypeOK' /\ Counted'
  <1> USE DEF TypeOK, Counted, Dates, Change
  <1>1. CASE Edit(m)
    <2>1. text[m] + 1 \in Dates /\ unsynced[m] + 1 \in 0 .. MaxChanges
      BY <1>1 DEF Edit
    <2>2. /\ text' \in [Manuals -> Dates] /\ unsynced' \in [Manuals -> 0 .. MaxChanges]
          /\ changes' \in 0 .. MaxChanges
      BY <1>1, <2>1 DEF Edit
    <2>3. TypeOK'
      BY <1>1, <2>2 DEF Edit
    <2>4. ASSUME NEW n \in Manuals
          PROVE  text'[n] <= changes' /\ indexed'[n] + unsynced'[n] <= changes'
      BY <1>1, <2>4, SMTT(30) DEF Edit
    <2> QED
      BY <2>3, <2>4
  <1>2. CASE Sync(m)
    BY <1>2, SMTT(30) DEF Sync
  <1>3. CASE Withdraw(m)
    BY <1>3 DEF Withdraw
  <1>4. CASE Publish(m)
    <2>1. text[m] + 1 \in Dates /\ indexed[m] + 1 \in Dates
      BY <1>4 DEF Publish
    <2>2. /\ text' \in [Manuals -> Dates] /\ indexed' \in [Manuals -> Dates]
          /\ status' \in [Manuals -> {"active", "pending_review", "out"}]
          /\ changes' \in 0 .. MaxChanges
      BY <1>4, <2>1 DEF Publish
    <2>3. TypeOK'
      BY <1>4, <2>2 DEF Publish
    <2>4. ASSUME NEW n \in Manuals
          PROVE  text'[n] <= changes' /\ indexed'[n] + unsynced'[n] <= changes'
      BY <1>4, <2>4 DEF Publish
    <2> QED
      BY <2>3, <2>4
  <1>5. CASE Reindex(m)
    BY <1>5, SMTT(30) DEF Reindex
  <1> QED
    BY <1>1, <1>2, <1>3, <1>4, <1>5 DEF ManualStep

(* What a row becomes: written, expired, failed or removed.                *)
LEMMA RowsPut ==
    ASSUME TypeOK, NEW fp \in Fingerprints, NEW r \in Rows, Put(fp, r)
    PROVE  /\ DOMAIN rows' = DOMAIN rows \cup {fp}
           /\ rows'[fp] = r
           /\ \A f \in DOMAIN rows \ {fp} : rows'[f] = rows[f]
           /\ DOMAIN rows' \subseteq Fingerprints
           /\ \A f \in DOMAIN rows' : rows'[f] \in Rows
  BY DEF TypeOK, Put

LEMMA RowsFailed ==
    ASSUME TypeOK, NEW fp, MarkFailed(fp)
    PROVE  /\ DOMAIN rows' = DOMAIN rows
           /\ \A f \in DOMAIN rows : f # fp \/ ~Generating(fp) => rows'[f] = rows[f]
           /\ Generating(fp) => /\ rows'[fp].status = "failed"
                                /\ rows'[fp].sections = rows[fp].sections
           /\ \A f \in DOMAIN rows' : rows'[f] \in Rows
  <1>1. CASE ~Generating(fp)
    BY <1>1 DEF MarkFailed, TypeOK
  <1>2. CASE Generating(fp)
    <2> DEFINE r == [rows[fp] EXCEPT !.status = "failed", !.stale = FALSE]
    <2>1. rows[fp] \in Rows /\ fp \in DOMAIN rows
      BY <1>2 DEF TypeOK, Generating
    <2>2. r \in Rows /\ r.status = "failed" /\ r.sections = rows[fp].sections
      BY <2>1 DEF Rows
    <2>3. rows' = [rows EXCEPT ![fp].status = "failed", ![fp].stale = FALSE]
      BY <1>2 DEF MarkFailed
    <2>4. DOMAIN rows' = DOMAIN rows /\ \A f \in DOMAIN rows : f # fp => rows'[f] = rows[f]
      BY <2>3
    <2>5. rows'[fp] = r
      BY <2>1, <2>3
    <2> QED
      BY <1>2, <2>2, <2>4, <2>5 DEF TypeOK
  <1> QED
    BY <1>1, <1>2

LEMMA RowsExpired ==
    ASSUME TypeOK, NEW fp \in DOMAIN rows, rows' = [rows EXCEPT ![fp].stale = TRUE]
    PROVE  /\ DOMAIN rows' = DOMAIN rows
           /\ \A f \in DOMAIN rows \ {fp} : rows'[f] = rows[f]
           /\ rows'[fp].status = rows[fp].status
           /\ rows'[fp].sections = rows[fp].sections
           /\ \A f \in DOMAIN rows' : rows'[f] \in Rows
  <1> DEFINE r == [rows[fp] EXCEPT !.stale = TRUE]
  <1>1. rows[fp] \in Rows
    BY DEF TypeOK
  <1>2. r \in Rows /\ r.status = rows[fp].status /\ r.sections = rows[fp].sections
    BY <1>1 DEF Rows
  <1>3. DOMAIN rows' = DOMAIN rows /\ \A f \in DOMAIN rows \ {fp} : rows'[f] = rows[f]
    OBVIOUS
  <1>4. rows'[fp] = r
    OBVIOUS
  <1> QED
    BY <1>2, <1>3, <1>4 DEF TypeOK

LEMMA RowsDiscarded ==
    ASSUME TypeOK, NEW fp,
           rows' = IF Generating(fp) THEN Restrict(rows, DOMAIN rows \ {fp}) ELSE rows
    PROVE  /\ DOMAIN rows' = IF Generating(fp) THEN DOMAIN rows \ {fp} ELSE DOMAIN rows
           /\ \A f \in DOMAIN rows' : rows'[f] = rows[f] /\ rows'[f] \in Rows
  BY DEF TypeOK, Restrict

(* A row found is a row of the table, and its sections are sections.       *)
LEMMA RowFound ==
    ASSUME TypeOK, NEW fp \in DOMAIN rows
    PROVE  Row(fp) \in Rows /\ Row(fp).sections \in Seq(SectionTexts)
  <1>1. rows[fp] \in Rows
    BY DEF TypeOK
  <1> QED
    BY <1>1 DEF Row, Rows

LEMMA Nothing == <<>> \in Seq(SectionTexts) /\ {} \in Fingerprints /\ {} \in Pools
  BY DEF Fingerprints, Pools

LEMMA AnswerTypes ==
    ASSUME TypeOK, NEW u \in Users, Answered(u)
    PROVE  /\ step' \in [Users -> {"idle", "lock", "request"}]
           /\ asked' \in [Users -> Fingerprints] /\ found' \in [Users -> Seq(SectionTexts)]
  BY Nothing DEF Answered, TypeOK

LEMMA RequestTypes ==
    ASSUME TypeOK, Counted, NEW u \in Users, Get(u)
    PROVE  TypeOK' /\ Counted'
  <1> USE DEF TypeOK
  <1>1. CASE ReadPool(u)
    BY <1>1, PoolsAreFingerprints DEF ReadPool, Counted
  <1>2. CASE ReadRow(u)
    <2>1. /\ step' \in [Users -> {"idle", "lock", "request"}]
          /\ asked' \in [Users -> Fingerprints] /\ found' \in [Users -> Seq(SectionTexts)]
      <3>1. CASE asked[u] \in DOMAIN rows /\ Usable(Row(asked[u]))
        BY <1>2, <3>1, AnswerTypes DEF ReadRow, Lookup
      <3>2. CASE ~(asked[u] \in DOMAIN rows /\ Usable(Row(asked[u])))
        <4> DEFINE s == IF asked[u] \in DOMAIN rows THEN Row(asked[u]).sections ELSE <<>>
        <4>1. s \in Seq(SectionTexts)
          BY Nothing, RowFound
        <4>2. /\ step' = [step EXCEPT ![u] = "request"]
              /\ found' = [found EXCEPT ![u] = s] /\ asked' = asked
          BY <1>2, <3>2 DEF ReadRow, Lookup
        <4> HIDE DEF s
        <4> QED
          BY <4>1, <4>2
      <3> QED
        BY <3>1, <3>2
    <2> QED
      BY <1>2, <2>1 DEF ReadRow, Counted
  <1>3. CASE Request(u)
    <2> DEFINE r == [status |-> "generating", stale |-> FALSE, sections |-> found[u]]
               m == [user |-> u, fingerprint |-> asked[u], locked |-> 0, external |-> 0]
    <2>1. r \in Rows /\ m \in Messages /\ asked[u] \in Fingerprints
      BY DEF Rows, Messages
    <2>2. DOMAIN rows' \subseteq Fingerprints /\ \A f \in DOMAIN rows' : rows'[f] \in Rows
      BY <1>3, <2>1, RowsPut DEF Request
    <2>3. queue' \subseteq Messages
      BY <1>3, <2>1 DEF Request
    <2>4. /\ step' \in [Users -> {"idle", "lock", "request"}]
          /\ asked' \in [Users -> Fingerprints] /\ found' \in [Users -> Seq(SectionTexts)]
      BY <1>3, AnswerTypes DEF Request
    <2> QED
      BY <1>3, <2>2, <2>3, <2>4 DEF Request, Counted
  <1> QED
    BY <1>1, <1>2, <1>3 DEF Get

Places == GenSteps \cup {"idle", "off", "fail"}

(* The tasks part of TypeOK.                                               *)
TasksTyped ==
    /\ at \in [Workers -> Places]
    /\ job \in [Workers -> Messages \cup {<<>>}]
    /\ \A w \in Workers : job[w] = <<>> <=> at[w] \in {"idle", "off"}
    /\ locked = [w \in Workers |-> at[w] \in GenSteps]
    /\ pool \in [Workers -> Pools]
    /\ done \in [Workers -> Seq(SectionTexts)]

LEMMA TasksAreTyped == TypeOK => TasksTyped
  BY DEF TypeOK, TasksTyped, Places

(* What a step of a worker leaves typed, whatever it does with the rows    *)
(* and with the queue.                                                     *)
LEMMA WorkerMoves ==
    ASSUME TypeOK, NEW w \in Workers, NEW place \in Places, GoTo(w, place),
           NEW j \in Messages \cup {<<>>}, job' = [job EXCEPT ![w] = j],
           j = <<>> <=> place \in {"idle", "off"},
           locked' = [locked EXCEPT ![w] = place \in GenSteps],
           NEW p \in Pools, pool' = [pool EXCEPT ![w] = p],
           NEW s \in Seq(SectionTexts), done' = [done EXCEPT ![w] = s]
    PROVE  TasksTyped'
  <1> USE TasksAreTyped DEF TasksTyped, GoTo
  <1>1. at' \in [Workers -> Places] /\ job' \in [Workers -> Messages \cup {<<>>}]
    OBVIOUS
  <1>2. \A v \in Workers : job'[v] = <<>> <=> at'[v] \in {"idle", "off"}
    OBVIOUS
  <1>3. locked' = [v \in Workers |-> at'[v] \in GenSteps]
    OBVIOUS
  <1>4. pool' \in [Workers -> Pools] /\ done' \in [Workers -> Seq(SectionTexts)]
    OBVIOUS
  <1> QED
    BY <1>1, <1>2, <1>3, <1>4

(* The same, of a task that goes on: its message and its lock are kept.    *)
LEMMA TaskGoesOn ==
    ASSUME TypeOK, NEW w \in Workers, at[w] \in GenSteps,
           NEW place \in GenSteps, GoTo(w, place), UNCHANGED <<job, locked>>,
           NEW p \in Pools, pool' = [pool EXCEPT ![w] = p],
           NEW s \in Seq(SectionTexts), done' = [done EXCEPT ![w] = s]
    PROVE  TasksTyped'
  <1> USE TasksAreTyped DEF TasksTyped
  <1>1. job' = [job EXCEPT ![w] = job[w]] /\ locked' = [locked EXCEPT ![w] = TRUE]
    OBVIOUS
  <1>2. job[w] \in Messages /\ job[w] # <<>>
    BY NoJobIsNoMessage DEF GenSteps
  <1>3. place \in Places /\ ~(place \in {"idle", "off"})
    BY DEF Places, GenSteps
  <1> QED
    BY <1>1, <1>2, <1>3, WorkerMoves

LEMMA TaskStays ==
    ASSUME TypeOK, NEW w \in Workers, at[w] \in GenSteps,
           NEW place \in GenSteps, GoTo(w, place), UNCHANGED <<job, locked, pool, done>>
    PROVE  TasksTyped'
  <1>1. /\ pool[w] \in Pools /\ pool' = [pool EXCEPT ![w] = pool[w]]
        /\ done[w] \in Seq(SectionTexts) /\ done' = [done EXCEPT ![w] = done[w]]
    BY DEF TypeOK
  <1> QED
    BY <1>1, TaskGoesOn

LEMMA IdleTypes ==
    ASSUME TypeOK, NEW w \in Workers, Idle(w)
    PROVE  TasksTyped'
  <1>1. "idle" \in Places /\ ("idle" \in GenSteps) = FALSE
    BY DEF Places, GenSteps
  <1>2. locked' = [locked EXCEPT ![w] = "idle" \in GenSteps]
    <2>1. locked' = [locked EXCEPT ![w] = FALSE]
      BY DEF Idle
    <2> QED
      BY <1>1, <2>1, Zenon
  <1> QED
    BY <1>1, <1>2, Nothing, WorkerMoves DEF Idle

LEMMA ToFailTypes ==
    ASSUME TypeOK, NEW w \in Workers, ToFail(w), at[w] \notin {"idle", "off"},
           UNCHANGED job
    PROVE  TasksTyped'
  <1>1. "fail" \in Places /\ ("fail" \in GenSteps) = FALSE
    BY DEF Places, GenSteps
  <1>2. locked' = [locked EXCEPT ![w] = "fail" \in GenSteps]
    <2>1. locked' = [locked EXCEPT ![w] = FALSE]
      BY DEF ToFail
    <2> QED
      BY <1>1, <2>1, Zenon
  <1>3. job[w] \in Messages /\ job[w] # <<>> /\ job' = [job EXCEPT ![w] = job[w]]
    BY JobsAreMessages, NoJobIsNoMessage DEF TypeOK
  <1> QED
    BY <1>1, <1>2, <1>3, Nothing, WorkerMoves DEF ToFail

(* Start and LoseConnection give a message back with one more attempt.     *)
LEMMA StartTypes ==
    ASSUME TypeOK, NEW w \in Workers, NEW m \in queue, Start(w, m)
    PROVE  queue' \subseteq Messages /\ TasksTyped'
  <1>m. m \in Messages /\ m # <<>>
    BY NoJobIsNoMessage DEF TypeOK
  <1>p. /\ pool[w] \in Pools /\ pool' = [pool EXCEPT ![w] = pool[w]]
        /\ done[w] \in Seq(SectionTexts) /\ done' = [done EXCEPT ![w] = done[w]]
    BY DEF Start, TypeOK
  <1>1. ASSUME NEW place \in {"load", "fail"}, Take(w, m, place, place = "load")
        PROVE  queue' \subseteq Messages /\ TasksTyped'
    <2>1. queue' \subseteq Messages
      BY <1>1 DEF Take, TypeOK
    <2>2. place \in Places /\ (place = "load") = (place \in GenSteps)
      BY DEF Places, GenSteps
    <2>3. locked' = [locked EXCEPT ![w] = place \in GenSteps] /\ ~(place \in {"idle", "off"})
      BY <1>1, <2>2 DEF Take
    <2>4. GoTo(w, place) /\ job' = [job EXCEPT ![w] = m]
      BY <1>1 DEF Take
    <2>5. TasksTyped'
      BY <1>m, <1>p, <2>2, <2>3, <2>4, WorkerMoves
    <2> QED
      BY <2>1, <2>5
  <1>2. CASE LockFree(m.fingerprint) /\ Take(w, m, "load", TRUE)
    <2>1. Take(w, m, "load", "load" = "load")
      BY <1>2 DEF Take
    <2> QED
      BY <1>1, <2>1
  <1>3. CASE /\ ~LockFree(m.fingerprint) /\ m.locked < LOCK_BUSY_MAX_RETRIES
             /\ queue' = (queue \ {m}) \cup {[m EXCEPT !.locked = @ + 1]}
             /\ UNCHANGED <<at, job, locked>>
    <2>1. queue' \subseteq Messages
      BY <1>3, <1>m, Retried DEF TypeOK
    <2>2. TasksTyped'
      BY <1>3, TasksAreTyped DEF Start, TasksTyped
    <2> QED
      BY <2>1, <2>2
  <1>4. CASE Take(w, m, "fail", FALSE)
    <2>1. Take(w, m, "fail", "fail" = "load")
      BY <1>4 DEF Take
    <2> QED
      BY <1>1, <2>1
  <1> QED
    BY <1>2, <1>3, <1>4 DEF Start

RestTyped ==
    /\ DOMAIN rows \subseteq Fingerprints
    /\ \A fp \in DOMAIN rows : rows[fp] \in Rows
    /\ queue \subseteq Messages
    /\ faults \in 0 .. MaxFaults

LEMMA TypedParts ==
    ASSUME TypeOK, Counted, UNCHANGED <<manualVars, requestVars>>, RestTyped', TasksTyped'
    PROVE  TypeOK' /\ Counted'
  BY DEF TypeOK, Counted, RestTyped, TasksTyped, Places

LEMMA TaskTypes ==
    ASSUME TypeOK, Counted, NEW w \in Workers,
           (\E m \in queue : Start(w, m)) \/ Task(w)
    PROVE  TypeOK' /\ Counted'
  <1>1. ASSUME NEW m \in queue, Start(w, m) PROVE TypeOK' /\ Counted'
    <2>1. UNCHANGED <<manualVars, requestVars, rows, faults>>
      BY <1>1 DEF Start
    <2>2. RestTyped'
      BY <1>1, <2>1, StartTypes DEF TypeOK, RestTyped
    <2> QED
      BY <1>1, <2>1, <2>2, StartTypes, TypedParts
  <1>2. ASSUME Task(w) PROVE TasksTyped'
    <2> USE DEF GenSteps
    <2>1. CASE Load(w)
      <3>1. ASSUME GoTo(w, "answer"), Generating(job[w].fingerprint),
                   pool' = [pool EXCEPT ![w] = Pool(job[w].user)],
                   done' = [done EXCEPT ![w] = Row(job[w].fingerprint).sections]
            PROVE  TasksTyped'
        <4>1. Pool(job[w].user) \in Pools
          BY <2>1, JobsAreMessages, PoolsAreFingerprints DEF Load, Fingerprints
        <4>2. Row(job[w].fingerprint).sections \in Seq(SectionTexts)
          BY <3>1, RowFound DEF Generating
        <4> QED
          BY <2>1, <3>1, <4>1, <4>2, TaskGoesOn DEF Load
      <3>2. CASE UNCHANGED <<pool, done>>
        BY <2>1, <3>1, <3>2, TaskStays DEF Load
      <3> QED
        BY <2>1, <3>1, <3>2 DEF Load
    <2>2. CASE Answer(w)
      <3>1. pool[w] \in Pools /\ pool' = [pool EXCEPT ![w] = pool[w]]
        BY <2>2 DEF Answer, TypeOK
      <3>2. CASE /\ done' = [done EXCEPT ![w] = Append(@, {<<x[1], text[x[1]]>> : x \in pool[w]})]
                 /\ GoTo(w, "save")
        <4> DEFINE s == Append(done[w], {<<x[1], text[x[1]]>> : x \in pool[w]})
        <4>1. s \in Seq(SectionTexts) /\ done' = [done EXCEPT ![w] = s]
          BY <3>2, SectionAdded
        <4> HIDE DEF s
        <4> QED
          BY <2>2, <3>1, <3>2, <4>1, TaskGoesOn DEF Answer
      <3>3. CASE UNCHANGED done
        BY <2>2, <3>2, <3>3, TaskStays DEF Answer
      <3> QED
        BY <2>2, <3>2, <3>3 DEF Answer
    <2>3. CASE Save(w)
      BY <2>3, TaskStays DEF Save
    <2>4. CASE Discard(w)
      BY <2>4, TaskStays DEF Discard
    <2>5. CASE FailLocked(w)
      BY <2>5, TaskStays DEF FailLocked
    <2>6. CASE Release(w)
      BY <2>6, IdleTypes DEF Release
    <2>7. CASE SoftTimeLimit(w)
      BY <2>7, ToFailTypes DEF SoftTimeLimit
    <2>8. CASE FailUnlocked(w)
      BY <2>8, IdleTypes DEF FailUnlocked
    <2> QED
      BY <1>2, <2>1, <2>2, <2>3, <2>4, <2>5, <2>6, <2>7, <2>8 DEF Task
  <1>3. ASSUME Task(w) PROVE UNCHANGED <<manualVars, requestVars, queue, faults>>
    BY <1>3 DEF Task, Load, Answer, Save, Discard, FailLocked, Release, SoftTimeLimit,
                FailUnlocked
  <1>4. ASSUME Task(w)
        PROVE  DOMAIN rows' \subseteq Fingerprints /\ \A f \in DOMAIN rows' : rows'[f] \in Rows
    <2>1. CASE UNCHANGED rows
      BY <2>1 DEF TypeOK
    <2>2. CASE Save(w)
      <3> DEFINE r == [status |-> IF Len(done[w]) = Questions THEN "ready" ELSE "generating",
                       stale |-> FALSE, sections |-> done[w]]
      <3>1. r \in Rows
        BY DEF Rows, TypeOK
      <3>2. job[w].fingerprint \in Fingerprints
        BY <2>2, JobsAreMessages DEF Save
      <3>3. Put(job[w].fingerprint, r) \/ UNCHANGED rows
        BY <2>2 DEF Save
      <3> QED
        BY <2>1, <3>1, <3>2, <3>3, RowsPut
    <2>3. CASE Discard(w)
      BY <2>3, RowsDiscarded, ZenonT(30) DEF Discard, TypeOK
    <2>4. CASE MarkFailed(job[w].fingerprint)
      BY <2>4, RowsFailed DEF TypeOK
    <2> QED
      BY <1>4, <2>1, <2>2, <2>3, <2>4
      DEF Task, Load, Answer, FailLocked, Release, SoftTimeLimit, FailUnlocked
  <1>5. ASSUME Task(w) PROVE TypeOK' /\ Counted'
    <2>1. RestTyped'
      BY <1>3, <1>4, <1>5 DEF TypeOK, RestTyped
    <2> QED
      BY <1>2, <1>3, <1>5, <2>1, TypedParts
  <1> QED
    BY <1>1, <1>5

LEMMA FaultTypes ==
    ASSUME TypeOK, Counted,
           \/ \E w \in Workers : NotFound(w) \/ LoseConnection(w) \/ Kill(w) \/ Redeliver(w)
           \/ \E fp \in DOMAIN rows : Expire(fp)
           \/ DropMessage
    PROVE  TypeOK' /\ Counted'
  <1>r. /\ DOMAIN rows \subseteq Fingerprints
        /\ \A fp \in DOMAIN rows : rows[fp] \in Rows
        /\ queue \subseteq Messages
        /\ faults \in 0 .. MaxFaults
    BY DEF TypeOK
  <1>1. ASSUME NEW w \in Workers, NotFound(w) PROVE TypeOK' /\ Counted'
    <2>1. UNCHANGED <<manualVars, requestVars, rows, queue>> /\ faults' \in 0 .. MaxFaults
      BY <1>r, <1>1 DEF NotFound, Fault
    <2>2. RestTyped'
      BY <1>r, <2>1 DEF RestTyped
    <2> QED
      BY <1>1, <2>1, <2>2, TaskStays, TypedParts DEF NotFound, GenSteps
  <1>2. ASSUME NEW w \in Workers, LoseConnection(w) PROVE TypeOK' /\ Counted'
    <2>1. UNCHANGED <<manualVars, requestVars, rows>> /\ faults' \in 0 .. MaxFaults
      BY <1>r, <1>2 DEF LoseConnection, Fault
    <2>2. at[w] \notin {"idle", "off"}
      BY <1>2 DEF LoseConnection, GenSteps
    <2>3. TasksTyped' /\ queue' \subseteq Messages
      <3>1. CASE job[w].external < EXTERNAL_ERROR_MAX_RETRIES
        <4>1. job[w] \in Messages
          BY <2>2, JobsAreMessages
        <4>2. [job[w] EXCEPT !.external = @ + 1] \in Messages
          BY <3>1, <4>1, Retried
        <4> QED
          BY <1>r, <1>2, <3>1, <4>2, IdleTypes DEF LoseConnection
      <3>2. CASE ~(job[w].external < EXTERNAL_ERROR_MAX_RETRIES)
        BY <1>r, <1>2, <2>2, <3>2, ToFailTypes DEF LoseConnection
      <3> QED
        BY <3>1, <3>2
    <2>4. RestTyped'
      BY <1>r, <2>1, <2>3 DEF RestTyped
    <2> QED
      BY <2>1, <2>3, <2>4, TypedParts
  <1>3. ASSUME NEW w \in Workers, Kill(w) PROVE TypeOK' /\ Counted'
    <2>1. UNCHANGED <<manualVars, requestVars, rows, queue>> /\ faults' \in 0 .. MaxFaults
      BY <1>r, <1>3 DEF Kill, Fault
    <2>2. RestTyped'
      BY <1>r, <2>1 DEF RestTyped
    <2> QED
      BY <1>3, <2>1, <2>2, IdleTypes, TypedParts DEF Kill
  <1>4. ASSUME NEW w \in Workers, Redeliver(w) PROVE TypeOK' /\ Counted'
    <2>1. UNCHANGED <<manualVars, requestVars, rows, taskVars>> /\ faults' \in 0 .. MaxFaults
      BY <1>r, <1>4 DEF Redeliver, Fault
    <2>2. queue' \subseteq Messages
      BY <1>r, <1>4, JobsAreMessages DEF Redeliver
    <2>3. RestTyped' /\ TasksTyped'
      BY <1>r, <2>1, <2>2, TasksAreTyped DEF RestTyped, TasksTyped
    <2> QED
      BY <2>1, <2>3, TypedParts
  <1>5. ASSUME NEW fp \in DOMAIN rows, Expire(fp) PROVE TypeOK' /\ Counted'
    <2>1. UNCHANGED <<manualVars, requestVars, queue, taskVars>> /\ faults' \in 0 .. MaxFaults
      BY <1>r, <1>5 DEF Expire, Fault
    <2>2. DOMAIN rows' = DOMAIN rows /\ \A f \in DOMAIN rows' : rows'[f] \in Rows
      BY <1>5, RowsExpired DEF Expire
    <2>3. RestTyped' /\ TasksTyped'
      BY <1>r, <2>1, <2>2, TasksAreTyped DEF RestTyped, TasksTyped
    <2> QED
      BY <2>1, <2>3, TypedParts
  <1>6. CASE DropMessage
    <2>1. UNCHANGED <<manualVars, requestVars, rows, taskVars>> /\ faults' \in 0 .. MaxFaults
      BY <1>r, <1>6 DEF DropMessage, Fault
    <2>2. queue' \subseteq Messages
      BY <1>r, <1>6 DEF DropMessage
    <2>3. RestTyped' /\ TasksTyped'
      BY <1>r, <2>1, <2>2, TasksAreTyped DEF RestTyped, TasksTyped
    <2> QED
      BY <2>1, <2>3, TypedParts
  <1> QED
    BY <1>1, <1>2, <1>3, <1>4, <1>5, <1>6

LEMMA InitTypes == Init => TypeOK /\ Counted
  <1> SUFFICES ASSUME Init PROVE TypeOK /\ Counted
    OBVIOUS
  <1>1. /\ status \in [Manuals -> {"active", "pending_review", "out"}]
        /\ text \in [Manuals -> Dates] /\ indexed \in [Manuals -> Dates]
        /\ unsynced \in [Manuals -> 0 .. MaxChanges] /\ changes \in 0 .. MaxChanges
        /\ Counted
    BY DEF Init, Dates, Counted
  <1>2. DOMAIN rows = {} /\ queue = {} /\ faults \in 0 .. MaxFaults
    BY DEF Init
  <1>3. /\ step \in [Users -> {"idle", "lock", "request"}]
        /\ asked \in [Users -> Fingerprints] /\ found \in [Users -> Seq(SectionTexts)]
    BY Nothing DEF Init
  <1>4. TasksTyped
    <2>1. at \in [Workers -> Places] /\ \A w \in Workers : at[w] \in {"idle", "off"}
      BY DEF Init, Places
    <2>2. locked = [w \in Workers |-> at[w] \in GenSteps]
      <3>1. \A w \in Workers : (at[w] \in GenSteps) = FALSE
        BY <2>1 DEF GenSteps
      <3> QED
        BY <3>1, Zenon DEF Init
    <2> QED
      BY <2>1, <2>2, Nothing DEF Init, TasksTyped
  <1> QED
    BY <1>1, <1>2, <1>3, <1>4 DEF TypeOK, TasksTyped, Places

LEMMA NextTypes == TypeOK /\ Counted /\ [Next]_vars => TypeOK' /\ Counted'
  <1> SUFFICES ASSUME TypeOK, Counted, [Next]_vars PROVE TypeOK' /\ Counted'
    OBVIOUS
  <1>1. CASE UNCHANGED vars
    BY <1>1 DEF TypeOK, Counted, vars
  <1>2. CASE Next
    BY <1>2, ManualTypes, RequestTypes, TaskTypes, FaultTypes DEF Next
  <1> QED
    BY <1>1, <1>2

(* The explanation of a game keeps every variable in its domain, and a     *)
(* worker holds a message and a lock only while it runs a task.            *)
THEOREM TypeCorrect == Spec => []TypeOK
  <1>1. Spec => [](TypeOK /\ Counted)
    BY InitTypes, NextTypes, PTL DEF Spec
  <1> QED
    BY <1>1, PTL

-----------------------------------------------------------------------------
(* Writers.                                                                *)

OneLock ==
    \A v, w \in Workers :
        at[v] \in GenSteps /\ at[w] \in GenSteps /\ v # w =>
            job[v].fingerprint # job[w].fingerprint

WriterInv == TypeOK /\ Counted /\ OneLock /\ Unfinished

(* The steps that move a worker, and those that leave all of them alone.   *)
Moves(w) ==
    \/ \E m \in queue : Start(w, m)
    \/ Task(w) \/ NotFound(w) \/ LoseConnection(w) \/ Kill(w)

LEMMA WorkerOrNot ==
    [Next]_vars => UNCHANGED taskVars \/ \E w \in Workers : Moves(w)
  <1> SUFFICES ASSUME [Next]_vars PROVE UNCHANGED taskVars \/ \E w \in Workers : Moves(w)
    OBVIOUS
  <1>1. ASSUME NEW m \in Manuals, ManualStep(m) PROVE UNCHANGED taskVars
    BY <1>1 DEF ManualStep, Edit, Sync, Withdraw, Publish, Reindex
  <1>2. ASSUME NEW u \in Users, Get(u) PROVE UNCHANGED taskVars
    BY <1>2 DEF Get, ReadPool, ReadRow, Request
  <1>3. ASSUME \/ \E w \in Workers : Redeliver(w)
               \/ \E fp \in DOMAIN rows : Expire(fp)
               \/ DropMessage
        PROVE  UNCHANGED taskVars
    BY <1>3 DEF Redeliver, Expire, DropMessage
  <1>4. UNCHANGED vars => UNCHANGED taskVars
    BY DEF vars
  <1> QED
    BY <1>1, <1>2, <1>3, <1>4 DEF Next, Moves

LEMMA OthersStay ==
    ASSUME TypeOK, NEW w \in Workers, Moves(w), NEW v \in Workers \ {w}
    PROVE  /\ at'[v] = at[v] /\ job'[v] = job[v] /\ locked'[v] = locked[v]
           /\ pool'[v] = pool[v] /\ done'[v] = done[v]
  <1> USE DEF TypeOK, GoTo, Idle, ToFail
  <1>1. CASE \E m \in queue : Start(w, m)
    BY <1>1 DEF Start, Take
  <1>2. CASE Task(w)
    BY <1>2 DEF Task, Load, Answer, Save, Discard, FailLocked, Release, SoftTimeLimit,
                FailUnlocked
  <1>3. CASE NotFound(w) \/ LoseConnection(w) \/ Kill(w)
    BY <1>3 DEF NotFound, LoseConnection, Kill
  <1> QED
    BY <1>1, <1>2, <1>3 DEF Moves

(* A worker comes to hold a lock by Start only, which found it free.       *)
LEMMA LocksAreTaken ==
    ASSUME TypeOK, NEW w \in Workers, Moves(w), at'[w] \in GenSteps
    PROVE  \/ at[w] \in GenSteps /\ job'[w] = job[w]
           \/ LockFree(job'[w].fingerprint)
  <1> USE DEF TypeOK, GoTo, Idle, ToFail
  <1>1. CASE \E m \in queue : Start(w, m)
    BY <1>1 DEF Start, Take, GenSteps
  <1>2. CASE Task(w)
    BY <1>2 DEF Task, Load, Answer, Save, Discard, FailLocked, Release, SoftTimeLimit,
                FailUnlocked, GenSteps
  <1>3. CASE NotFound(w) \/ LoseConnection(w) \/ Kill(w)
    BY <1>3 DEF NotFound, LoseConnection, Kill, GenSteps
  <1> QED
    BY <1>1, <1>2, <1>3 DEF Moves

LEMMA NextLocks ==
    ASSUME TypeOK, OneLock, [Next]_vars
    PROVE  OneLock'
  <1>1. CASE UNCHANGED taskVars
    BY <1>1 DEF OneLock
  <1>2. ASSUME NEW w \in Workers, Moves(w) PROVE OneLock'
    <2> SUFFICES ASSUME NEW v \in Workers \ {w}, at'[v] \in GenSteps, at'[w] \in GenSteps
                 PROVE  job'[v].fingerprint # job'[w].fingerprint
      <3>1. ASSUME NEW a \in Workers, NEW b \in Workers, a # b,
                   at'[a] \in GenSteps, at'[b] \in GenSteps
            PROVE  job'[a].fingerprint # job'[b].fingerprint
        <4>1. CASE a # w /\ b # w
          BY <1>2, <3>1, <4>1, OthersStay DEF OneLock
        <4> QED
          BY <3>1, <4>1
      <3> QED
        BY <3>1 DEF OneLock
    <2>1. at[v] \in GenSteps /\ job'[v] = job[v] /\ locked[v]
      BY <1>2, OthersStay DEF TypeOK
    <2> QED
      BY <1>2, <2>1, LocksAreTaken DEF OneLock, LockFree
  <1> QED
    BY <1>1, <1>2, WorkerOrNot

(* Sections of the rows, of the requests and of the tasks.                 *)
FewRows ==
    \A fp \in DOMAIN rows :
        IF rows[fp].status = "ready" THEN Len(rows[fp].sections) = Questions
        ELSE Len(rows[fp].sections) < Questions
FewFound == \A u \in Users : step[u] = "request" => Len(found[u]) < Questions
FewDone ==
    \A w \in Workers :
        /\ at[w] = "answer" => Len(done[w]) < Questions
        /\ at[w] = "save" => Len(done[w]) <= Questions

LEMMA FewRowsPut ==
    ASSUME TypeOK, Unfinished, NEW fp \in Fingerprints, NEW r \in Rows, Put(fp, r),
           IF r.status = "ready" THEN Len(r.sections) = Questions
           ELSE Len(r.sections) < Questions
    PROVE  FewRows'
  <1> SUFFICES ASSUME NEW f \in DOMAIN rows'
               PROVE  IF rows'[f].status = "ready" THEN Len(rows'[f].sections) = Questions
                      ELSE Len(rows'[f].sections) < Questions
    BY DEF FewRows
  <1>1. CASE f = fp
    BY <1>1, RowsPut
  <1>2. CASE f # fp
    <2>1. /\ DOMAIN rows' = DOMAIN rows \cup {fp}
          /\ \A g \in DOMAIN rows \ {fp} : rows'[g] = rows[g]
      BY RowsPut
    <2>2. f \in DOMAIN rows /\ rows'[f] = rows[f]
      BY <1>2, <2>1
    <2> QED
      BY <2>2 DEF Unfinished
  <1> QED
    BY <1>1, <1>2

LEMMA RequestUnfinished ==
    ASSUME TypeOK, Unfinished, NEW u \in Users, Get(u)
    PROVE  Unfinished'
  <1> USE DEF FewRows, FewFound, FewDone
  <1>1. FewDone'
    BY DEF Unfinished, Get, ReadPool, ReadRow, Request
  <1>2. ASSUME Answered(u) PROVE FewFound'
    BY <1>2 DEF Unfinished, Answered, TypeOK
  <1>3. CASE ReadPool(u)
    <2>1. FewRows' /\ FewFound'
      BY <1>3 DEF Unfinished, ReadPool, TypeOK
    <2> QED
      BY <1>1, <2>1 DEF Unfinished
  <1>4. CASE ReadRow(u)
    <2>1. FewRows'
      BY <1>4 DEF Unfinished, ReadRow
    <2>2. CASE asked[u] \in DOMAIN rows /\ Usable(Row(asked[u]))
      BY <1>1, <1>2, <1>4, <2>1, <2>2 DEF Unfinished, ReadRow, Lookup
    <2>3. CASE ~(asked[u] \in DOMAIN rows /\ Usable(Row(asked[u])))
      <3> DEFINE s == IF asked[u] \in DOMAIN rows THEN Row(asked[u]).sections ELSE <<>>
      <3>1. Len(s) < Questions
        <4>1. CASE asked[u] \in DOMAIN rows
          <5>1. Row(asked[u]).status # "ready"
            BY <2>3, <4>1 DEF Unfinished, Usable, Row
          <5> QED
            BY <4>1, <5>1 DEF Unfinished, Row
        <4>2. CASE asked[u] \notin DOMAIN rows
          <5>1. Len(<<>>) = 0 /\ Questions > 0
            OBVIOUS
          <5> QED
            BY <4>2, <5>1
        <4> QED
          BY <4>1, <4>2
      <3>2. step' = [step EXCEPT ![u] = "request"] /\ found' = [found EXCEPT ![u] = s]
        BY <1>4, <2>3 DEF ReadRow, Lookup
      <3> HIDE DEF s
      <3>3. FewFound'
        BY <3>1, <3>2 DEF Unfinished, TypeOK
      <3> QED
        BY <1>1, <2>1, <3>3 DEF Unfinished
    <2> QED
      BY <2>2, <2>3
  <1>5. CASE Request(u)
    <2> DEFINE r == [status |-> "generating", stale |-> FALSE, sections |-> found[u]]
    <2>1. r \in Rows /\ asked[u] \in Fingerprints /\ Put(asked[u], r)
      BY <1>5 DEF Rows, TypeOK, Request
    <2>2. Len(found[u]) < Questions
      BY <1>5 DEF Unfinished, Request
    <2>3. FewRows'
      <3>1. r.status = "generating" /\ Len(r.sections) < Questions
        BY <2>2
      <3> HIDE DEF r
      <3> QED
        BY <2>1, <3>1, FewRowsPut
    <2> QED
      BY <1>1, <1>2, <1>5, <2>3 DEF Unfinished, Request
  <1> QED
    BY <1>3, <1>4, <1>5 DEF Get

(* A task, or its failure, leaves rows that are unfinished or ready.       *)
LEMMA RowsUnfinished ==
    ASSUME TypeOK, Unfinished, NEW w \in Workers, Moves(w)
    PROVE  FewRows'
  <1> USE DEF FewRows
  <1>1. CASE UNCHANGED rows
    BY <1>1 DEF Unfinished
  <1>2. CASE Save(w)
    <2> DEFINE r == [status |-> IF Len(done[w]) = Questions THEN "ready" ELSE "generating",
                     stale |-> FALSE, sections |-> done[w]]
    <2>1. r \in Rows /\ (Put(job[w].fingerprint, r) \/ UNCHANGED rows)
      BY <1>2 DEF Rows, TypeOK, Save
    <2>2. job[w].fingerprint \in Fingerprints
      BY <1>2, JobsAreMessages DEF Save
    <2>3. done[w] \in Seq(SectionTexts) /\ Len(done[w]) <= Questions
      BY <1>2 DEF Unfinished, TypeOK, Save
    <2>4. IF r.status = "ready" THEN Len(r.sections) = Questions ELSE Len(r.sections) < Questions
      BY <2>3
    <2> HIDE DEF r
    <2>5. CASE Put(job[w].fingerprint, r)
      BY <2>1, <2>2, <2>4, <2>5, FewRowsPut
    <2> QED
      BY <1>1, <2>1, <2>5
  <1>3. CASE Discard(w)
    BY <1>3, RowsDiscarded DEF Unfinished, Discard
  <1>4. CASE MarkFailed(job[w].fingerprint)
    BY <1>4, RowsFailed DEF Unfinished, Generating, Row
  <1>5. CASE UNCHANGED rows
    BY <1>5 DEF Unfinished
  <1> QED
    BY <1>2, <1>3, <1>4, <1>5
    DEF Moves, Task, Start, Load, Answer, FailLocked, Release, SoftTimeLimit,
        FailUnlocked, NotFound, LoseConnection, Kill

LEMMA DoneUnfinished ==
    ASSUME TypeOK, Unfinished, NEW w \in Workers, Moves(w)
    PROVE  FewDone'
  <1> USE DEF FewDone, TypeOK, GoTo, Idle, ToFail
  <1>1. ASSUME NEW v \in Workers \ {w}
        PROVE  /\ at'[v] = "answer" => Len(done'[v]) < Questions
               /\ at'[v] = "save" => Len(done'[v]) <= Questions
    BY OthersStay DEF Unfinished
  <1>2. /\ at'[w] = "answer" => Len(done'[w]) < Questions
        /\ at'[w] = "save" => Len(done'[w]) <= Questions
    <2>1. CASE Load(w)
      <3>1. ASSUME at'[w] = "answer" PROVE Len(done'[w]) < Questions
        <4>1. /\ Generating(job[w].fingerprint)
              /\ done' = [done EXCEPT ![w] = Row(job[w].fingerprint).sections]
          BY <2>1, <3>1 DEF Load
        <4> QED
          BY <4>1 DEF Unfinished, Generating, Row
      <3>2. at'[w] # "save"
        BY <2>1 DEF Load
      <3> QED
        BY <3>1, <3>2
    <2>2. CASE Answer(w)
      <3>1. done[w] \in Seq(SectionTexts) /\ Len(done[w]) < Questions
        BY <2>2 DEF Answer, Unfinished
      <3>2. at'[w] # "answer"
        BY <2>2 DEF Answer
      <3>3. ASSUME at'[w] = "save" PROVE Len(done'[w]) <= Questions
        <4> DEFINE t == {<<x[1], text[x[1]]>> : x \in pool[w]}
        <4>1. done' = [done EXCEPT ![w] = Append(done[w], t)]
          BY <2>2, <3>3 DEF Answer
        <4> HIDE DEF t
        <4>2. Len(Append(done[w], t)) = Len(done[w]) + 1 /\ Len(done[w]) \in Nat
          BY <3>1
        <4> QED
          BY <3>1, <4>1, <4>2
      <3> QED
        BY <3>2, <3>3
    <2>3. CASE Save(w)
      BY <2>3 DEF Save, Unfinished
    <2>4. CASE \E m \in queue : Start(w, m)
      BY <2>4 DEF Start, Take
    <2>5. CASE Discard(w) \/ FailLocked(w) \/ Release(w) \/ SoftTimeLimit(w) \/ FailUnlocked(w)
      BY <2>5 DEF Discard, FailLocked, Release, SoftTimeLimit, FailUnlocked
    <2>6. CASE NotFound(w) \/ LoseConnection(w) \/ Kill(w)
      BY <2>6 DEF NotFound, LoseConnection, Kill
    <2> QED
      BY <2>1, <2>2, <2>3, <2>4, <2>5, <2>6 DEF Moves, Task
  <1> QED
    BY <1>1, <1>2

LEMMA NextUnfinished ==
    ASSUME TypeOK, Unfinished, [Next]_vars
    PROVE  Unfinished'
  <1> USE DEF FewRows, FewFound, FewDone
  <1>1. ASSUME NEW w \in Workers, Moves(w) PROVE Unfinished'
    <2>1. FewFound'
      BY <1>1 DEF Unfinished, Moves, Task, Start, Load, Answer, Save, Discard, FailLocked,
                  Release, SoftTimeLimit, FailUnlocked, NotFound, LoseConnection, Kill
    <2> QED
      BY <1>1, <2>1, RowsUnfinished, DoneUnfinished DEF Unfinished
  <1>2. ASSUME NEW fp \in DOMAIN rows, Expire(fp) PROVE Unfinished'
    <2>1. FewRows'
      BY <1>2, RowsExpired DEF Unfinished, Expire
    <2> QED
      BY <1>2, <2>1 DEF Unfinished, Expire
  <1>3. CASE UNCHANGED <<rows, step, found, at, done>>
    BY <1>3 DEF Unfinished
  <1> QED
    BY <1>1, <1>2, <1>3, RequestUnfinished
    DEF Next, Moves, ManualStep, Edit, Sync, Withdraw, Publish, Reindex, Redeliver,
        DropMessage, vars

LEMMA InitWriters == Init => OneLock /\ Unfinished
  BY DEF Init, OneLock, Unfinished, GenSteps

LEMMA WriterInvariant == Spec => []WriterInv
  <1>1. Init => WriterInv
    BY InitTypes, InitWriters DEF WriterInv
  <1>2. WriterInv /\ [Next]_vars => WriterInv'
    BY NextTypes, NextLocks, NextUnfinished DEF WriterInv
  <1> QED
    BY <1>1, <1>2, PTL DEF Spec

(* Two tasks never write the sections of one explanation at the same time, *)
(* and no explanation has more sections than questions.                    *)
THEOREM OneWriterAtATime == Spec => []OneWriter
  <1>1. WriterInv => OneWriter
    <2> SUFFICES ASSUME WriterInv PROVE OneWriter
      OBVIOUS
    <2>1. ASSUME NEW fp \in DOMAIN rows PROVE Len(rows[fp].sections) <= Questions
      <3>1. rows[fp].sections \in Seq(SectionTexts)
        BY RowFound DEF WriterInv, Row
      <3> QED
        BY <3>1 DEF WriterInv, Unfinished
    <2> QED
      BY <2>1 DEF WriterInv, OneLock, OneWriter
  <1> QED
    BY <1>1, WriterInvariant, PTL

-----------------------------------------------------------------------------
(* What the readers are shown.                                             *)

LEMMA DatesMove ==
    ASSUME TypeOK, [Next]_vars, NEW n \in Manuals
    PROVE  /\ indexed[n] <= indexed'[n]
           /\ indexed[n] + unsynced[n] <= indexed'[n] + unsynced'[n]
           /\ \/ text'[n] = text[n]
              \/ indexed[n] + unsynced[n] < indexed'[n] + unsynced'[n]
  <1> USE DEF TypeOK, Dates
  <1>1. CASE UNCHANGED manualVars
    BY <1>1
  <1>2. ASSUME NEW m \in Manuals, ManualStep(m)
        PROVE  /\ indexed[n] <= indexed'[n]
               /\ indexed[n] + unsynced[n] <= indexed'[n] + unsynced'[n]
               /\ \/ text'[n] = text[n]
                  \/ indexed[n] + unsynced[n] < indexed'[n] + unsynced'[n]
    <2>1. CASE Edit(m)
      BY <2>1 DEF Edit
    <2>2. CASE Sync(m)
      BY <2>2 DEF Sync
    <2>3. CASE Withdraw(m)
      BY <2>3 DEF Withdraw
    <2>4. CASE Publish(m)
      BY <2>4 DEF Publish
    <2>5. CASE Reindex(m)
      BY <2>5 DEF Reindex
    <2> QED
      BY <1>2, <2>1, <2>2, <2>3, <2>4, <2>5 DEF ManualStep
  <1>3. ASSUME NEW u \in Users, Get(u) PROVE UNCHANGED manualVars
    BY <1>3 DEF Get, ReadPool, ReadRow, Request
  <1>4. ASSUME NEW w \in Workers, Moves(w) \/ Redeliver(w) PROVE UNCHANGED manualVars
    BY <1>4 DEF Moves, Redeliver, Task, Start, Load, Answer, Save, Discard, FailLocked,
                Release, SoftTimeLimit, FailUnlocked, NotFound, LoseConnection, Kill
  <1>5. ASSUME DropMessage \/ \E fp \in DOMAIN rows : Expire(fp) PROVE UNCHANGED manualVars
    BY <1>5 DEF DropMessage, Expire
  <1> QED
    BY <1>1, <1>2, <1>3, <1>4, <1>5 DEF Next, Moves, vars

LEMMA PastStays ==
    ASSUME TypeOK, Counted, [Next]_vars, NEW fp \in Fingerprints, Past(fp)
    PROVE  Past(fp)'
  <1> SUFFICES ASSUME NEW y \in fp PROVE y[2] <= indexed'[y[1]]
    BY DEF Past
  <1>1. y[1] \in Manuals /\ y[2] \in Nat
    BY DEF Fingerprints, Pools, Dates
  <1>2. indexed[y[1]] \in Nat /\ indexed'[y[1]] \in Nat
    BY <1>1, NextTypes DEF TypeOK, Dates
  <1> QED
    BY <1>1, <1>2, DatesMove DEF Past

LEMMA SourcedStays ==
    ASSUME TypeOK, Counted, [Next]_vars, NEW fp \in Fingerprints, Past(fp),
           NEW s, Sourced(s, fp)
    PROVE  Sourced(s, fp)'
  <1> SUFFICES ASSUME NEW i \in DOMAIN s, NEW x \in s[i]
               PROVE  \E y \in fp :
                        /\ y[1] = x[1]
                        /\ \/ x[2] = text'[x[1]]
                           \/ indexed'[x[1]] + unsynced'[x[1]] > y[2]
    BY DEF Sourced
  <1>1. PICK y \in fp : /\ y[1] = x[1]
                        /\ \/ x[2] = text[x[1]]
                           \/ indexed[x[1]] + unsynced[x[1]] > y[2]
    BY DEF Sourced
  <1> DEFINE n == x[1]
  <1>2. n \in Manuals /\ y[2] \in Nat /\ y[2] <= indexed[n]
    BY <1>1 DEF Fingerprints, Pools, Dates, Past
  <1>3. /\ indexed[n] \in Nat /\ unsynced[n] \in Nat
        /\ indexed'[n] \in Nat /\ unsynced'[n] \in Nat
    BY <1>2, NextTypes, SMTT(30) DEF TypeOK, Dates
  <1>4. /\ indexed[n] + unsynced[n] <= indexed'[n] + unsynced'[n]
        /\ \/ text'[n] = text[n]
           \/ indexed[n] + unsynced[n] < indexed'[n] + unsynced'[n]
    BY <1>2, DatesMove
  <1>5. \/ x[2] = text'[n]
        \/ indexed'[n] + unsynced'[n] > y[2]
    BY <1>1, <1>2, <1>3, <1>4
  <1> QED
    BY <1>1, <1>5

LEMMA KnownWithin ==
    ASSUME NEW K, DOMAIN rows' \subseteq K,
           \A u \in Users : asked'[u] \in K,
           \A m \in queue' : m.fingerprint \in K,
           \A w \in Workers : at'[w] \notin {"idle", "off"} => job'[w].fingerprint \in K
    PROVE  Known' \subseteq K
  BY DEF Known

(* A fingerprint is computed from the pool of a user; every other step     *)
(* hands on those there are.                                               *)
LEMMA KnownAreHandedOn ==
    ASSUME TypeOK, [Next]_vars
    PROVE  \A fp \in Known' :
             fp \in Known \/ fp = {} \/ \E u \in Users : fp = Fingerprint(Pool(u))
  <1> USE DEF Known, TypeOK
  <1>1. CASE UNCHANGED <<rows, asked, queue, at, job>>
    BY <1>1
  <1>2. ASSUME NEW u \in Users, Get(u), NEW fp \in Known'
        PROVE  fp \in Known \/ fp = {} \/ fp = Fingerprint(Pool(u))
    <2>1. CASE ReadPool(u)
      BY <1>2, <2>1 DEF ReadPool
    <2>2. CASE ReadRow(u)
      BY <1>2, <2>2 DEF ReadRow, Lookup, Answered
    <2>3. CASE Request(u)
      <3>1. DOMAIN rows' = DOMAIN rows \cup {asked[u]}
        BY <2>3 DEF Request, Put
      <3>2. \A m \in queue' : m \in queue \/ m.fingerprint = asked[u]
        BY <2>3 DEF Request
      <3>3. \A v \in Users : asked'[v] = asked[v] \/ asked'[v] = {}
        BY <2>3 DEF Request, Answered
      <3>4. UNCHANGED <<at, job>>
        BY <2>3 DEF Request
      <3> QED
        BY <1>2, <3>1, <3>2, <3>3, <3>4
    <2> QED
      BY <1>2, <2>1, <2>2, <2>3 DEF Get
  <1>3. ASSUME NEW w \in Workers, Moves(w), NEW fp \in Known' PROVE fp \in Known
    <2>1. UNCHANGED asked
      BY <1>3 DEF Moves, Task, Start, Load, Answer, Save, Discard, FailLocked,
                  Release, SoftTimeLimit, FailUnlocked, NotFound, LoseConnection, Kill
    <2>2. DOMAIN rows' \subseteq Known
      <3>1. CASE Save(w)
        <4>1. DOMAIN rows' \subseteq DOMAIN rows \cup {job[w].fingerprint}
          BY <3>1 DEF Save, Put
        <4>2. at[w] \notin {"idle", "off"}
          BY <3>1 DEF Save
        <4> QED
          BY <4>1, <4>2
      <3>2. CASE Discard(w)
        BY <3>2, RowsDiscarded DEF Discard
      <3>3. CASE MarkFailed(job[w].fingerprint)
        BY <3>3, RowsFailed
      <3>4. CASE UNCHANGED rows
        BY <3>4
      <3> QED
        BY <1>3, <3>1, <3>2, <3>3, <3>4
        DEF Moves, Task, Start, Load, Answer, FailLocked, Release, SoftTimeLimit,
            FailUnlocked, NotFound, LoseConnection, Kill
    <2>3. at'[w] \notin {"idle", "off"} =>
            \/ at[w] \notin {"idle", "off"} /\ job'[w] = job[w]
            \/ job'[w] \in queue
      <3> USE DEF GoTo, Idle, ToFail
      <3>1. CASE \E m \in queue : Start(w, m)
        BY <3>1 DEF Start, Take
      <3>2. CASE Task(w)
        BY <3>2 DEF Task, Load, Answer, Save, Discard, FailLocked, Release,
                    SoftTimeLimit, FailUnlocked
      <3>3. CASE NotFound(w) \/ LoseConnection(w) \/ Kill(w)
        BY <3>3 DEF NotFound, LoseConnection, Kill, GenSteps
      <3> QED
        BY <1>3, <3>1, <3>2, <3>3 DEF Moves
    <2>4. \A v \in Workers : at'[v] \notin {"idle", "off"} => job'[v].fingerprint \in Known
      <3>1. ASSUME NEW v \in Workers \ {w}, at'[v] \notin {"idle", "off"}
            PROVE  job'[v].fingerprint \in Known
        <4>1. at'[v] = at[v] /\ job'[v] = job[v]
          BY <1>3, OthersStay
        <4> QED
          BY <3>1, <4>1
      <3>2. at'[w] \notin {"idle", "off"} => job'[w].fingerprint \in Known
        BY <2>3
      <3> QED
        BY <3>1, <3>2
    <2>5. \A m \in queue' : m.fingerprint \in Known
      <3>1. CASE \E m \in queue : Start(w, m)
        <4>1. PICK m \in queue : Start(w, m)
          BY <3>1
        <4>2. m \in Messages
          OBVIOUS
        <4>3. \A n \in queue' : n \in queue \/
                (m.locked < LOCK_BUSY_MAX_RETRIES /\ n = [m EXCEPT !.locked = @ + 1])
          BY <4>1 DEF Start, Take
        <4>4. \A n \in queue' : n \in queue \/ n.fingerprint = m.fingerprint
          BY <4>2, <4>3, Retried
        <4> QED
          BY <4>4
      <3>2. CASE LoseConnection(w)
        <4>1. at[w] \notin {"idle", "off"}
          BY <3>2 DEF LoseConnection, GenSteps
        <4>2. \A n \in queue' : n \in queue \/
                (/\ job[w].external < EXTERNAL_ERROR_MAX_RETRIES
                 /\ n = [job[w] EXCEPT !.external = @ + 1])
          BY <3>2 DEF LoseConnection
        <4>3. \A n \in queue' : n \in queue \/ n.fingerprint = job[w].fingerprint
          BY <4>1, <4>2, Retried, JobsAreMessages
        <4> QED
          BY <4>1, <4>3
      <3>3. CASE UNCHANGED queue
        BY <3>3
      <3> QED
        BY <1>3, <3>1, <3>2, <3>3
        DEF Moves, Task, Load, Answer, Save, Discard, FailLocked, Release, SoftTimeLimit,
            FailUnlocked, NotFound, Kill
    <2>6. \A u \in Users : asked'[u] \in Known
      BY <2>1
    <2> HIDE DEF Known
    <2> QED
      BY <1>3, <2>2, <2>4, <2>5, <2>6, KnownWithin
  <1>4. ASSUME NEW w \in Workers, Redeliver(w), NEW fp \in Known' PROVE fp \in Known
    BY <1>4 DEF Redeliver
  <1>5. ASSUME NEW f \in DOMAIN rows, Expire(f), NEW fp \in Known' PROVE fp \in Known
    BY <1>5, RowsExpired DEF Expire
  <1>6. ASSUME DropMessage, NEW fp \in Known' PROVE fp \in Known
    BY <1>6 DEF DropMessage
  <1>7. ASSUME NEW m \in Manuals, ManualStep(m) PROVE UNCHANGED <<rows, asked, queue, at, job>>
    BY <1>7 DEF ManualStep, Edit, Sync, Withdraw, Publish, Reindex
  <1>8. UNCHANGED vars => UNCHANGED <<rows, asked, queue, at, job>>
    BY DEF vars
  <1>9. CASE Next
    BY <1>1, <1>2, <1>3, <1>4, <1>5, <1>6, <1>7, <1>9, ZenonT(30) DEF Next, Moves
  <1> QED
    BY <1>1, <1>8, <1>9

LEMMA KnownAreFingerprints == TypeOK => Known \subseteq Fingerprints
  <1> SUFFICES ASSUME TypeOK, NEW fp \in Known PROVE fp \in Fingerprints
    OBVIOUS
  <1>1. \A m \in Messages : m.fingerprint \in Fingerprints
    BY DEF Messages
  <1> QED
    BY <1>1, JobsAreMessages DEF Known, TypeOK

LEMMA NextPast ==
    ASSUME TypeOK, Counted, FingerprintsPast, [Next]_vars
    PROVE  FingerprintsPast'
  <1> SUFFICES ASSUME NEW fp \in Known' PROVE Past(fp)'
    BY DEF FingerprintsPast
  <1>1. ASSUME NEW u \in Users PROVE Past(Fingerprint(Pool(u)))
    <2>1. \A m \in Manuals : indexed[m] <= indexed[m]
      BY DEF TypeOK, Dates
    <2> QED
      BY <2>1 DEF Past, Fingerprint, Pool
  <1>2. Past({})
    BY DEF Past
  <1>3. fp \in Fingerprints /\ Past(fp)
    BY <1>1, <1>2, KnownAreHandedOn, KnownAreFingerprints, PoolsAreFingerprints, Nothing
    DEF FingerprintsPast
  <1> QED
    BY <1>3, PastStays

LEMMA NothingIsSourced == ASSUME NEW fp PROVE Sourced(<<>>, fp)
  BY DEF Sourced

LEMMA AnswerIsSourced ==
    ASSUME TypeOK, NEW fp \in Pools, NEW s \in Seq(SectionTexts), Sourced(s, fp)
    PROVE  Sourced(Append(s, {<<x[1], text[x[1]]>> : x \in fp}), fp)
  <1> DEFINE t == {<<x[1], text[x[1]]>> : x \in fp}
  <1> SUFFICES ASSUME NEW i \in DOMAIN Append(s, t), NEW x \in Append(s, t)[i]
               PROVE  \E y \in fp :
                        /\ y[1] = x[1]
                        /\ \/ x[2] = text[x[1]]
                           \/ indexed[x[1]] + unsynced[x[1]] > y[2]
    BY DEF Sourced
  <1>t. t \in SectionTexts
    BY DEF TypeOK, Pools, SectionTexts
  <1>1. CASE i \in DOMAIN s
    <2>1. Append(s, t)[i] = s[i]
      <3> HIDE DEF t
      <3> QED
        BY <1>1, <1>t
    <2> QED
      BY <1>1, <2>1 DEF Sourced
  <1>2. CASE i \notin DOMAIN s
    <2>1. Append(s, t)[i] = t
      <3> HIDE DEF t
      <3> QED
        BY <1>2, <1>t
    <2>2. PICK y \in fp : x = <<y[1], text[y[1]]>>
      BY <2>1
    <2> QED
      BY <2>2
  <1> QED
    BY <1>1, <1>2

(* Whatever stands in a row was there, or came from a request or a task.   *)
LEMMA RowsComeFrom ==
    ASSUME TypeOK, [Next]_vars, NEW fp \in DOMAIN rows'
    PROVE  \/ fp \in DOMAIN rows /\ rows'[fp].sections = rows[fp].sections
           \/ \E u \in Users : /\ step[u] = "request" /\ asked[u] = fp
                              /\ rows'[fp].sections = found[u]
           \/ \E w \in Workers : /\ at[w] = "save" /\ job[w].fingerprint = fp
                                /\ rows'[fp].sections = done[w]
  <1>1. CASE UNCHANGED rows
    BY <1>1
  <1>2. ASSUME NEW u \in Users, Request(u)
        PROVE  \/ fp \in DOMAIN rows /\ rows'[fp].sections = rows[fp].sections
               \/ /\ step[u] = "request" /\ asked[u] = fp
                  /\ rows'[fp].sections = found[u]
    BY <1>2 DEF Request, Put
  <1>3. ASSUME NEW w \in Workers, Save(w)
        PROVE  \/ fp \in DOMAIN rows /\ rows'[fp].sections = rows[fp].sections
               \/ /\ at[w] = "save" /\ job[w].fingerprint = fp
                  /\ rows'[fp].sections = done[w]
    BY <1>3 DEF Save, Put
  <1>4. ASSUME NEW w \in Workers, Discard(w)
        PROVE  fp \in DOMAIN rows /\ rows'[fp].sections = rows[fp].sections
    BY <1>4, RowsDiscarded DEF Discard
  <1>5. ASSUME NEW f, MarkFailed(f)
        PROVE  fp \in DOMAIN rows /\ rows'[fp].sections = rows[fp].sections
    BY <1>5, RowsFailed
  <1>6. ASSUME NEW f \in DOMAIN rows, Expire(f)
        PROVE  fp \in DOMAIN rows /\ rows'[fp].sections = rows[fp].sections
    BY <1>6, RowsExpired DEF Expire
  <1>7. \/ UNCHANGED rows
        \/ \E u \in Users : Request(u)
        \/ \E w \in Workers : Save(w) \/ Discard(w) \/ MarkFailed(job[w].fingerprint)
        \/ \E f \in DOMAIN rows : Expire(f)
    <2>1. ASSUME NEW m \in Manuals, ManualStep(m) PROVE UNCHANGED rows
      BY <2>1 DEF ManualStep, Edit, Sync, Withdraw, Publish, Reindex
    <2>2. ASSUME NEW u \in Users, Get(u) PROVE UNCHANGED rows \/ Request(u)
      BY <2>2 DEF Get, ReadPool, ReadRow
    <2>3. ASSUME NEW w \in Workers, Moves(w) \/ Redeliver(w)
          PROVE  UNCHANGED rows \/ Save(w) \/ Discard(w) \/ MarkFailed(job[w].fingerprint)
      BY <2>3 DEF Moves, Task, Start, Load, Answer, FailLocked, Release, SoftTimeLimit,
                  FailUnlocked, NotFound, LoseConnection, Kill, Redeliver
    <2>4. DropMessage \/ UNCHANGED vars => UNCHANGED rows
      BY DEF DropMessage, vars
    <2> QED
      BY <2>1, <2>2, <2>3, <2>4 DEF Next, Moves
  <1> QED
    BY <1>1, <1>2, <1>3, <1>4, <1>5, <1>6, <1>7

LEMMA FoundComesFrom ==
    ASSUME TypeOK, [Next]_vars, NEW u \in Users, step'[u] = "request"
    PROVE  /\ asked'[u] = asked[u]
           /\ \/ step[u] = "request" /\ found'[u] = found[u]
              \/ found'[u] = <<>>
              \/ asked[u] \in DOMAIN rows /\ found'[u] = rows[asked[u]].sections
  <1>1. CASE UNCHANGED requestVars
    BY <1>1
  <1>2. ASSUME NEW v \in Users, Get(v)
        PROVE  /\ asked'[u] = asked[u]
               /\ \/ step[u] = "request" /\ found'[u] = found[u]
                  \/ found'[u] = <<>>
                  \/ asked[u] \in DOMAIN rows /\ found'[u] = rows[asked[u]].sections
    <2> USE DEF TypeOK, Answered
    <2>1. CASE ReadPool(v)
      BY <2>1 DEF ReadPool
    <2>2. CASE ReadRow(v)
      BY <2>2 DEF ReadRow, Lookup, Row
    <2>3. CASE Request(v)
      BY <2>3 DEF Request
    <2> QED
      BY <1>2, <2>1, <2>2, <2>3 DEF Get
  <1>3. UNCHANGED requestVars \/ \E v \in Users : Get(v)
    <2>1. ASSUME NEW m \in Manuals, ManualStep(m) PROVE UNCHANGED requestVars
      BY <2>1 DEF ManualStep, Edit, Sync, Withdraw, Publish, Reindex
    <2>2. ASSUME NEW w \in Workers, Moves(w) \/ Redeliver(w) PROVE UNCHANGED requestVars
      BY <2>2 DEF Moves, Task, Start, Load, Answer, Save, Discard, FailLocked, Release,
                  SoftTimeLimit, FailUnlocked, NotFound, LoseConnection, Kill, Redeliver
    <2>3. DropMessage \/ UNCHANGED vars \/ (\E f \in DOMAIN rows : Expire(f))
            => UNCHANGED requestVars
      BY DEF DropMessage, Expire, vars
    <2> QED
      BY <2>1, <2>2, <2>3 DEF Next, Moves
  <1> QED
    BY <1>1, <1>2, <1>3

LEMMA DoneComesFrom ==
    ASSUME TypeOK, [Next]_vars, NEW w \in Workers, at'[w] \in {"answer", "save"}
    PROVE  /\ job'[w] = job[w] /\ at[w] \in {"load", "answer", "save"}
           /\ \/ at[w] \in {"answer", "save"} /\ pool'[w] = pool[w] /\ done'[w] = done[w]
              \/ /\ job[w].fingerprint \in DOMAIN rows
                 /\ pool'[w] = job[w].fingerprint
                 /\ done'[w] = rows[job[w].fingerprint].sections
              \/ /\ at[w] = "answer" /\ pool'[w] = pool[w]
                 /\ done'[w] = Append(done[w], {<<x[1], text[x[1]]>> : x \in pool[w]})
  <1>1. CASE UNCHANGED taskVars
    BY <1>1
  <1>2. ASSUME NEW v \in Workers, Moves(v), v # w
        PROVE  /\ at[w] \in {"answer", "save"} /\ job'[w] = job[w]
               /\ pool'[w] = pool[w] /\ done'[w] = done[w]
    <2>1. /\ at'[w] = at[w] /\ job'[w] = job[w]
          /\ pool'[w] = pool[w] /\ done'[w] = done[w]
      BY <1>2, OthersStay
    <2> QED
      BY <2>1
  <1>3. ASSUME Moves(w)
        PROVE  /\ job'[w] = job[w] /\ at[w] \in {"load", "answer", "save"}
               /\ \/ at[w] \in {"answer", "save"} /\ pool'[w] = pool[w] /\ done'[w] = done[w]
                  \/ /\ job[w].fingerprint \in DOMAIN rows
                     /\ pool'[w] = job[w].fingerprint
                     /\ done'[w] = rows[job[w].fingerprint].sections
                  \/ /\ at[w] = "answer" /\ pool'[w] = pool[w]
                     /\ done'[w] = Append(done[w], {<<x[1], text[x[1]]>> : x \in pool[w]})
    <2> USE DEF TypeOK, GoTo, Idle, ToFail
    <2>1. CASE Load(w)
      BY <2>1 DEF Load, SamePool, Fingerprint, Generating, Row
    <2>2. CASE Answer(w)
      BY <2>2 DEF Answer
    <2>3. CASE Save(w)
      BY <2>3 DEF Save
    <2>4. ASSUME \/ \E m \in queue : Start(w, m)
                 \/ NotFound(w) \/ LoseConnection(w) \/ Kill(w)
                 \/ Discard(w) \/ FailLocked(w) \/ Release(w)
                 \/ SoftTimeLimit(w) \/ FailUnlocked(w)
          PROVE  at'[w] = at[w] /\ UNCHANGED <<pool, done, job>>
      BY <2>4 DEF Start, Take, Discard, FailLocked, Release, SoftTimeLimit, FailUnlocked,
                  NotFound, LoseConnection, Kill
    <2> QED
      BY <1>3, <2>1, <2>2, <2>3, <2>4 DEF Moves, Task
  <1> QED
    BY <1>1, <1>2, <1>3, WorkerOrNot

LEMMA NextPools ==
    ASSUME TypeOK, PoolIsAsked, [Next]_vars
    PROVE  PoolIsAsked'
  <1> SUFFICES ASSUME NEW w \in Workers, at'[w] \in {"answer", "save"}
               PROVE  pool'[w] = job'[w].fingerprint
    BY DEF PoolIsAsked
  <1> QED
    BY DoneComesFrom DEF PoolIsAsked

LEMMA NextSourced ==
    ASSUME TypeOK, Counted, PoolIsAsked, FingerprintsPast, SectionsSourced, [Next]_vars
    PROVE  SectionsSourced'
  <1>p. ASSUME NEW fp \in Known, NEW s, Sourced(s, fp)
        PROVE  Sourced(s, fp)'
    BY <1>p, SourcedStays, KnownAreFingerprints DEF FingerprintsPast
  <1>1. ASSUME NEW fp \in DOMAIN rows' PROVE Sourced(rows[fp].sections, fp)'
    <2>1. CASE fp \in DOMAIN rows /\ rows'[fp].sections = rows[fp].sections
      <3>1. fp \in Known /\ Sourced(rows[fp].sections, fp)
        BY <2>1 DEF SectionsSourced, Known
      <3> QED
        BY <1>p, <2>1, <3>1
    <2>2. ASSUME NEW u \in Users, step[u] = "request", asked[u] = fp,
                 rows'[fp].sections = found[u]
          PROVE  Sourced(rows[fp].sections, fp)'
      <3>1. fp \in Known /\ Sourced(found[u], fp)
        BY <2>2 DEF SectionsSourced, Known
      <3> QED
        BY <1>p, <2>2, <3>1
    <2>3. ASSUME NEW w \in Workers, at[w] = "save", job[w].fingerprint = fp,
                 rows'[fp].sections = done[w]
          PROVE  Sourced(rows[fp].sections, fp)'
      <3>1. fp \in Known /\ Sourced(done[w], fp)
        BY <2>3 DEF SectionsSourced, Known
      <3> QED
        BY <1>p, <2>3, <3>1
    <2> QED
      BY <2>1, <2>2, <2>3, RowsComeFrom
  <1>2. ASSUME NEW u \in Users, step'[u] = "request" PROVE Sourced(found[u], asked[u])'
    <2>1. asked'[u] = asked[u] /\ asked[u] \in Known
      BY <1>2, FoundComesFrom DEF Known
    <2>2. Sourced(found'[u], asked[u])
      BY <1>2, FoundComesFrom, NothingIsSourced DEF SectionsSourced
    <2> QED
      BY <1>p, <2>1, <2>2
  <1>3. ASSUME NEW w \in Workers, at'[w] \in {"answer", "save"}
        PROVE  Sourced(done[w], job[w].fingerprint)'
    <2> DEFINE fp == job[w].fingerprint
    <2>1. job'[w] = job[w] /\ at[w] \in {"load", "answer", "save"}
      BY <1>3, DoneComesFrom
    <2>2. fp \in Known
      BY <2>1 DEF Known
    <2>3. Sourced(done'[w], fp)
      <3>1. CASE at[w] \in {"answer", "save"} /\ done'[w] = done[w]
        BY <3>1 DEF SectionsSourced
      <3>2. CASE fp \in DOMAIN rows /\ done'[w] = rows[fp].sections
        BY <3>2 DEF SectionsSourced
      <3>3. CASE /\ at[w] = "answer"
                 /\ done'[w] = Append(done[w], {<<x[1], text[x[1]]>> : x \in pool[w]})
        <4>1. pool[w] = fp /\ fp \in Pools /\ done[w] \in Seq(SectionTexts)
          BY <2>2, <3>3, KnownAreFingerprints DEF PoolIsAsked, Fingerprints, TypeOK
        <4>2. Sourced(done[w], fp)
          BY <3>3 DEF SectionsSourced
        <4> HIDE DEF fp
        <4> QED
          BY <3>3, <4>1, <4>2, AnswerIsSourced
      <3> QED
        BY <1>3, <3>1, <3>2, <3>3, DoneComesFrom
    <2> QED
      BY <1>p, <2>1, <2>2, <2>3
  <1> QED
    BY <1>1, <1>2, <1>3 DEF SectionsSourced

SourceInv == TypeOK /\ Counted /\ PoolIsAsked /\ SectionsSourced /\ FingerprintsPast

LEMMA SourceInvariant == Spec => []SourceInv
  <1>1. Init => SourceInv
    <2> SUFFICES ASSUME Init PROVE SourceInv
      OBVIOUS
    <2>1. /\ DOMAIN rows = {} /\ queue = {} /\ \A u \in Users : asked[u] = {} /\ step[u] = "idle"
          /\ \A w \in Workers : at[w] \in {"idle", "off"}
      BY DEF Init
    <2>2. PoolIsAsked /\ SectionsSourced
      BY <2>1 DEF PoolIsAsked, SectionsSourced
    <2>3. FingerprintsPast
      BY <2>1 DEF FingerprintsPast, Known, Past
    <2> QED
      BY <2>2, <2>3, InitTypes DEF SourceInv
  <1>2. SourceInv /\ [Next]_vars => SourceInv'
    BY NextTypes, NextPools, NextSourced, NextPast DEF SourceInv
  <1> QED
    BY <1>1, <1>2, PTL DEF Spec

(* What a reader is shown was written from a manual of his pool: the one   *)
(* the row cites, with the date it has now.                                *)
LEMMA ShownIsSourced ==
    ASSUME SourceInv, NEW u \in Users, NEW x \in Shown(u)
    PROVE  /\ x[1] \in Manuals /\ Sees(u, x[1])
           /\ x[2] = text[x[1]] \/ unsynced[x[1]] > 0
  <1> DEFINE fp == Fingerprint(Pool(u))
  <1>1. fp \in DOMAIN rows /\ x \in UNION Range(rows[fp].sections)
    BY DEF Shown
  <1>2. PICK i \in DOMAIN rows[fp].sections : x \in rows[fp].sections[i]
    BY <1>1 DEF Range
  <1>3. PICK y \in fp : /\ y[1] = x[1]
                        /\ \/ x[2] = text[x[1]]
                           \/ indexed[x[1]] + unsynced[x[1]] > y[2]
    BY <1>1, <1>2 DEF SourceInv, SectionsSourced, Sourced
  <1>4. PICK m \in Manuals : Sees(u, m) /\ y = <<m, indexed[m]>>
    BY DEF Pool, Fingerprint
  <1>5. indexed[m] \in Nat /\ unsynced[m] \in Nat
    BY DEF SourceInv, TypeOK, Dates
  <1> QED
    BY <1>3, <1>4, <1>5

(* Nobody is shown a section written from a manual he cannot read.         *)
THEOREM ReadersReadTheirs == Spec => []ShownIsReadable
  <1>1. SourceInv => ShownIsReadable
    BY ShownIsSourced DEF ShownIsReadable
  <1> QED
    BY <1>1, SourceInvariant, PTL

(* Once RAG has heard of the edits of a manual, nobody is shown a section  *)
(* written from an earlier text of it.                                     *)
THEOREM ReadersReadTheLatest == Spec => []ShownIsCurrent
  <1>1. SourceInv => ShownIsCurrent
    <2> SUFFICES ASSUME SourceInv, NEW u \in Users, NEW x \in Shown(u),
                        unsynced[x[1]] = 0
                 PROVE  x[2] = text[x[1]]
      BY DEF ShownIsCurrent
    <2> QED
      BY ShownIsSourced
  <1> QED
    BY <1>1, SourceInvariant, PTL

-----------------------------------------------------------------------------
(* One job at a time, while nothing fails.                                 *)

(* Two requests of a fingerprint: the lock makes the second one wait.      *)
LEMMA NextRequests ==
    ASSUME TypeOK, OneRequest, [Next]_vars
    PROVE  OneRequest'
  <1> USE DEF OneRequest, Requesting
  <1>1. CASE UNCHANGED <<step, asked>>
    BY <1>1
  <1>2. ASSUME NEW u \in Users, Get(u) PROVE OneRequest'
    <2> USE DEF TypeOK, Answered
    <2>1. CASE ReadPool(u)
      BY <2>1 DEF ReadPool
    <2>2. CASE ReadRow(u)
      <3>1. \A v \in Users \ {u}, fp \in Fingerprints : Requesting(v, fp)' = Requesting(v, fp)
        BY <2>2 DEF ReadRow, Lookup
      <3>2. \A fp \in Fingerprints : Requesting(u, fp)' => fp = asked[u]
        BY <2>2 DEF ReadRow, Lookup
      <3>3. \A v \in Users, fp \in Fingerprints : Requesting(v, fp) => fp # asked[u]
        BY <2>2 DEF ReadRow
      <3> HIDE DEF Requesting
      <3>4. ASSUME NEW a \in Users, NEW b \in Users, NEW fp \in Fingerprints,
                   Requesting(a, fp)', Requesting(b, fp)'
            PROVE  a = b
        <4>1. CASE a # u /\ b # u
          BY <3>1, <3>4, <4>1
        <4>2. CASE a = u /\ b # u
          BY <3>1, <3>2, <3>3, <3>4, <4>2
        <4>3. CASE a # u /\ b = u
          BY <3>1, <3>2, <3>3, <3>4, <4>3
        <4> QED
          BY <4>1, <4>2, <4>3
      <3> QED
        BY <3>4
    <2>3. CASE Request(u)
      BY <2>3 DEF Request
    <2> QED
      BY <1>2, <2>1, <2>2, <2>3 DEF Get
  <1>3. UNCHANGED <<step, asked>> \/ \E u \in Users : Get(u)
    <2>1. ASSUME NEW m \in Manuals, ManualStep(m) PROVE UNCHANGED <<step, asked>>
      BY <2>1 DEF ManualStep, Edit, Sync, Withdraw, Publish, Reindex
    <2>2. ASSUME NEW w \in Workers, Moves(w) \/ Redeliver(w) PROVE UNCHANGED <<step, asked>>
      BY <2>2 DEF Moves, Task, Start, Load, Answer, Save, Discard, FailLocked, Release,
                  SoftTimeLimit, FailUnlocked, NotFound, LoseConnection, Kill, Redeliver
    <2>3. DropMessage \/ UNCHANGED vars \/ (\E f \in DOMAIN rows : Expire(f))
            => UNCHANGED <<step, asked>>
      BY DEF DropMessage, Expire, vars
    <2> QED
      BY <2>1, <2>2, <2>3 DEF Next, Moves
  <1> QED
    BY <1>1, <1>2, <1>3

(* A step that leaves the jobs and their rows as they were.                *)
LEMMA SameJobs ==
    ASSUME NoSecondJob,
           \A u \in Users, fp \in Fingerprints : Requesting(u, fp)' => Requesting(u, fp),
           queue' = queue,
           \A w \in Workers, fp \in Fingerprints : Running(w, fp)' => Running(w, fp),
           \A fp \in Fingerprints : Awaited(fp) => Awaited(fp)'
    PROVE  NoSecondJob'
  BY DEF NoSecondJob

(* A step of a task of a fingerprint, after which it waits for no task, or *)
(* for this one.                                                           *)
LEMMA JobStep ==
    ASSUME NoSecondJob, NEW w \in Workers, NEW fp \in Fingerprints, Running(w, fp),
           \A u \in Users, f \in Fingerprints : Requesting(u, f)' => Requesting(u, f),
           queue' = queue,
           \A v \in Workers, f \in Fingerprints : Running(v, f)' => Running(v, f),
           \A f \in Fingerprints \ {fp} : Awaited(f) => Awaited(f)',
           Running(w, fp)' => Awaited(fp)'
    PROVE  NoSecondJob'
  <1> SUFFICES ASSUME NEW f \in Fingerprints
               PROVE  /\ \A u \in Users : Requesting(u, f)' =>
                           /\ \A m \in queue : m.fingerprint # f
                           /\ \A v \in Workers : ~Running(v, f)'
                      /\ \A m \in queue : m.fingerprint = f =>
                           /\ Awaited(f)'
                           /\ \A n \in queue : n.fingerprint = f => n = m
                           /\ \A v \in Workers : ~Running(v, f)'
                      /\ \A v \in Workers : Running(v, f)' =>
                           /\ Awaited(f)'
                           /\ \A x \in Workers : Running(x, f)' => x = v
    BY DEF NoSecondJob
  <1>1. CASE f = fp
    BY <1>1 DEF NoSecondJob
  <1>2. CASE f # fp
    BY <1>2 DEF NoSecondJob
  <1> QED
    BY <1>1, <1>2

LEMMA ReadRowJobs ==
    ASSUME TypeOK, NoSecondJob, NEW u \in Users, ReadRow(u)
    PROVE  NoSecondJob'
  <1> DEFINE fp == asked[u]
  <1>1. UNCHANGED <<rows, queue, at, job>>
    BY DEF ReadRow
  <1>2. ASSUME NEW v \in Users, NEW f \in Fingerprints, Requesting(v, f)', ~Requesting(v, f)
        PROVE  v = u /\ f = fp /\ ~Awaited(fp)
    <2>1. v = u
      BY <1>2 DEF Requesting, ReadRow, Lookup, Answered, TypeOK
    <2>2. step'[u] = "request" /\ asked'[u] = f
      BY <1>2, <2>1 DEF Requesting
    <2>3. ~(fp \in DOMAIN rows /\ Usable(Row(fp))) /\ UNCHANGED asked
      BY <2>2 DEF ReadRow, Lookup, Answered, TypeOK
    <2>4. ~Awaited(fp)
      BY <2>3 DEF Awaited, Generating, Usable, Row
    <2> QED
      BY <2>1, <2>2, <2>3, <2>4
  <1>3. /\ \A w \in Workers, f \in Fingerprints : Running(w, f)' = Running(w, f)
        /\ \A f \in Fingerprints : Awaited(f)' = Awaited(f)
    BY <1>1 DEF Running, Awaited, Generating, Row
  <1> QED
    BY <1>1, <1>2, <1>3 DEF NoSecondJob

LEMMA RequestJobs ==
    ASSUME TypeOK, OneRequest, NoSecondJob, NEW u \in Users, Request(u)
    PROVE  NoSecondJob'
  <1>f. PICK fp \in Fingerprints : fp = asked[u]
    BY DEF TypeOK
  <1> DEFINE r == [status |-> "generating", stale |-> FALSE, sections |-> found[u]]
             m == [user |-> u, fingerprint |-> fp, locked |-> 0, external |-> 0]
  <1>1. r \in Rows /\ Put(fp, r) /\ Requesting(u, fp)
    BY <1>f DEF Rows, TypeOK, Request, Requesting
  <1>2. Awaited(fp)'
    <2>1. fp \in DOMAIN rows' /\ rows'[fp] = r
      BY <1>1 DEF Put
    <2> QED
      BY <2>1 DEF Awaited, Generating, Row
  <1>3. \A f \in Fingerprints \ {fp} : Awaited(f)' = Awaited(f)
    BY <1>1 DEF Put, Awaited, Generating, Row
  <1>4. \A w \in Workers, f \in Fingerprints : Running(w, f)' = Running(w, f)
    BY DEF Request, Running
  <1>5. queue' = queue \cup {m} /\ m.fingerprint = fp
    BY <1>f DEF Request
  <1>6. \A v \in Users, f \in Fingerprints : Requesting(v, f)' => Requesting(v, f) /\ v # u
    BY DEF Request, Answered, Requesting, TypeOK
  <1>7. \A v \in Users : ~Requesting(v, fp)'
    BY <1>1, <1>6 DEF OneRequest
  <1>8. (\A n \in queue : n.fingerprint # fp) /\ \A w \in Workers : ~Running(w, fp)
    BY <1>1 DEF NoSecondJob
  <1> HIDE DEF r, m
  <1> SUFFICES ASSUME NEW f \in Fingerprints
               PROVE  /\ \A v \in Users : Requesting(v, f)' =>
                           /\ \A n \in queue' : n.fingerprint # f
                           /\ \A w \in Workers : ~Running(w, f)'
                      /\ \A n \in queue' : n.fingerprint = f =>
                           /\ Awaited(f)'
                           /\ \A o \in queue' : o.fingerprint = f => o = n
                           /\ \A w \in Workers : ~Running(w, f)'
                      /\ \A w \in Workers : Running(w, f)' =>
                           /\ Awaited(f)'
                           /\ \A x \in Workers : Running(x, f)' => x = w
    BY DEF NoSecondJob
  <1>9. CASE f = fp
    BY <1>2, <1>4, <1>5, <1>7, <1>8, <1>9
  <1>10. CASE f # fp
    BY <1>3, <1>4, <1>5, <1>6, <1>10 DEF NoSecondJob
  <1> QED
    BY <1>9, <1>10

LEMMA StartJobs ==
    ASSUME TypeOK, NoSecondJob, NEW w \in Workers, NEW m \in queue, Start(w, m)
    PROVE  NoSecondJob'
  <1> DEFINE fp == m.fingerprint
  <1>1. m \in Messages /\ fp \in Fingerprints
    BY DEF TypeOK, Messages
  <1>2. /\ \A u \in Users, f \in Fingerprints : Requesting(u, f)' = Requesting(u, f)
        /\ \A f \in Fingerprints : Awaited(f)' = Awaited(f)
    BY DEF Start, Requesting, Awaited, Generating, Row
  <1>3. /\ Awaited(fp) /\ \A v \in Workers : ~Running(v, fp)
        /\ \A n \in queue : n.fingerprint = fp => n = m
        /\ \A u \in Users : ~Requesting(u, fp)
    BY <1>1 DEF NoSecondJob
  <1>4. CASE queue' = queue \ {m} /\ at'[w] \in {"load", "fail"} /\ job'[w] = m
    <2>1. \A v \in Workers \ {w}, f \in Fingerprints : Running(v, f)' = Running(v, f)
      BY OthersStay DEF Moves, Running
    <2>2. \A f \in Fingerprints : Running(w, f)' => f = fp
      BY <1>4 DEF Running
    <2> HIDE DEF fp
    <2> SUFFICES ASSUME NEW f \in Fingerprints
                 PROVE  /\ \A v \in Users : Requesting(v, f)' =>
                             /\ \A n \in queue' : n.fingerprint # f
                             /\ \A x \in Workers : ~Running(x, f)'
                        /\ \A n \in queue' : n.fingerprint = f =>
                             /\ Awaited(f)'
                             /\ \A o \in queue' : o.fingerprint = f => o = n
                             /\ \A x \in Workers : ~Running(x, f)'
                        /\ \A v \in Workers : Running(v, f)' =>
                             /\ Awaited(f)'
                             /\ \A x \in Workers : Running(x, f)' => x = v
      BY DEF NoSecondJob
    <2>3. CASE f = fp
      BY <1>2, <1>3, <1>4, <2>1, <2>2, <2>3
    <2>4. CASE f # fp
      BY <1>2, <1>4, <2>1, <2>2, <2>4 DEF NoSecondJob
    <2> QED
      BY <2>3, <2>4
  <1>5. CASE /\ m.locked < LOCK_BUSY_MAX_RETRIES
             /\ queue' = (queue \ {m}) \cup {[m EXCEPT !.locked = @ + 1]}
             /\ UNCHANGED <<at, job>>
    <2> DEFINE k == [m EXCEPT !.locked = @ + 1]
    <2>1. k.fingerprint = fp
      BY <1>1, <1>5, Retried
    <2>2. queue' = (queue \ {m}) \cup {k}
      BY <1>5
    <2>3. \A v \in Workers, f \in Fingerprints : Running(v, f)' = Running(v, f)
      BY <1>5 DEF Running
    <2> HIDE DEF fp, k
    <2> SUFFICES ASSUME NEW f \in Fingerprints
                 PROVE  /\ \A v \in Users : Requesting(v, f)' =>
                             /\ \A n \in queue' : n.fingerprint # f
                             /\ \A x \in Workers : ~Running(x, f)'
                        /\ \A n \in queue' : n.fingerprint = f =>
                             /\ Awaited(f)'
                             /\ \A o \in queue' : o.fingerprint = f => o = n
                             /\ \A x \in Workers : ~Running(x, f)'
                        /\ \A v \in Workers : Running(v, f)' =>
                             /\ Awaited(f)'
                             /\ \A x \in Workers : Running(x, f)' => x = v
      BY DEF NoSecondJob
    <2>4. CASE f = fp
      BY <1>2, <1>3, <2>1, <2>2, <2>3, <2>4 DEF fp
    <2>5. CASE f # fp
      BY <1>2, <2>1, <2>2, <2>3, <2>5 DEF NoSecondJob
    <2> QED
      BY <2>4, <2>5
  <1> QED
    BY <1>4, <1>5 DEF Start, Take, GoTo, TypeOK

(* What a task does to the row of its fingerprint, and to no other one.    *)
LEMMA TaskJobs ==
    ASSUME TypeOK, NoSecondJob, NEW w \in Workers, Task(w)
    PROVE  NoSecondJob'
  <1>1. UNCHANGED <<step, asked, queue>> /\ Moves(w)
    BY DEF Task, Moves, Load, Answer, Save, Discard, FailLocked, Release, SoftTimeLimit,
           FailUnlocked
  <1>2. at[w] \notin {"idle", "off"}
    BY DEF Task, Load, Answer, Save, Discard, FailLocked, Release, SoftTimeLimit,
           FailUnlocked
  <1>3. PICK fp \in Fingerprints : fp = job[w].fingerprint
    BY <1>2, JobsAreMessages
  <1>4. \A u \in Users, f \in Fingerprints : Requesting(u, f)' = Requesting(u, f)
    BY <1>1 DEF Requesting
  <1>5. \A v \in Workers \ {w}, f \in Fingerprints : Running(v, f)' = Running(v, f)
    BY <1>1, OthersStay DEF Running
  <1>6. at'[w] \notin {"idle", "off", "release"} => at[w] # "release" /\ job'[w] = job[w]
    BY DEF Task, Load, Answer, Save, Discard, FailLocked, Release, SoftTimeLimit,
           FailUnlocked, GoTo, Idle, ToFail, TypeOK
  <1>7. \A f \in Fingerprints : Running(w, f)' => Running(w, f)
    BY <1>2, <1>6 DEF Running
  <1>8. \A f \in Fingerprints \ {fp} : Awaited(f) => Awaited(f)'
    <2>1. CASE UNCHANGED rows
      BY <2>1 DEF Awaited, Generating, Row
    <2>2. CASE Save(w)
      BY <1>3, <2>2 DEF Save, Put, Awaited, Generating, Row
    <2>3. CASE Discard(w)
      BY <1>3, <2>3, RowsDiscarded DEF Discard, Awaited, Generating, Row
    <2>4. CASE MarkFailed(fp)
      BY <2>4, RowsFailed DEF Awaited, Generating, Row
    <2> QED
      BY <1>3, <2>1, <2>2, <2>3, <2>4
      DEF Task, Load, Answer, FailLocked, Release, SoftTimeLimit, FailUnlocked
  <1>9. CASE at[w] = "release"
    <2>1. UNCHANGED rows
      BY <1>9 DEF Task, Load, Answer, Save, Discard, FailLocked, Release, SoftTimeLimit,
                  FailUnlocked
    <2>2. \A f \in Fingerprints : Awaited(f) => Awaited(f)'
      BY <2>1 DEF Awaited, Generating, Row
    <2> QED
      BY <1>1, <1>4, <1>5, <1>7, <2>2, SameJobs
  <1>10. CASE at[w] # "release"
    <2>1. Running(w, fp)
      BY <1>2, <1>3, <1>10 DEF Running
    <2>2. Awaited(fp)
      BY <1>3, <2>1 DEF NoSecondJob
    <2>3. ASSUME Running(w, fp)' PROVE Awaited(fp)'
      <3>1. at'[w] \notin {"idle", "off", "release"}
        BY <2>3 DEF Running
      <3>2. CASE UNCHANGED rows
        BY <2>2, <3>2 DEF Awaited, Generating, Row
      <3>3. CASE Save(w)
        <4>1. UNCHANGED rows \/ Put(fp, [status |-> "generating", stale |-> FALSE,
                                         sections |-> done[w]])
          BY <1>3, <3>1, <3>3 DEF Save, GoTo, TypeOK
        <4>2. CASE UNCHANGED rows
          BY <3>2, <4>2
        <4>3. CASE Put(fp, [status |-> "generating", stale |-> FALSE, sections |-> done[w]])
          <5>1. fp \in DOMAIN rows' /\ rows'[fp].status = "generating" /\ ~rows'[fp].stale
            BY <4>3 DEF Put
          <5> QED
            BY <5>1 DEF Awaited, Generating, Row
        <4> QED
          BY <4>1, <4>2, <4>3
      <3>4. CASE Discard(w) \/ FailLocked(w) \/ FailUnlocked(w)
        BY <3>1, <3>4 DEF Discard, FailLocked, FailUnlocked, GoTo, Idle, TypeOK
      <3> QED
        BY <3>2, <3>3, <3>4 DEF Task, Load, Answer, Release, SoftTimeLimit
    <2> QED
      BY <1>1, <1>3, <1>4, <1>5, <1>7, <1>8, <2>1, <2>3, JobStep
  <1> QED
    BY <1>9, <1>10

LEMMA ExpireJobs ==
    ASSUME TypeOK, NoSecondJob, NEW fp \in DOMAIN rows, Expire(fp), faults' = 0
    PROVE  NoSecondJob'
  <1>1. UNCHANGED <<step, asked, queue, at, job>> /\ fp \in Fingerprints
    BY DEF Expire, TypeOK
  <1>2. Jobs(fp) = {}
    BY DEF Expire, Fault, TypeOK
  <1>3. /\ \A m \in queue : m.fingerprint # fp
        /\ \A w \in Workers : ~Running(w, fp)
    BY <1>2 DEF Jobs, Running
  <1>4. \A f \in Fingerprints \ {fp} : Awaited(f) => Awaited(f)'
    BY RowsExpired DEF Expire, Awaited, Generating, Row
  <1>5. /\ \A u \in Users, f \in Fingerprints : Requesting(u, f)' = Requesting(u, f)
        /\ \A w \in Workers, f \in Fingerprints : Running(w, f)' = Running(w, f)
    BY <1>1 DEF Requesting, Running
  <1> SUFFICES ASSUME NEW f \in Fingerprints
               PROVE  /\ \A v \in Users : Requesting(v, f)' =>
                           /\ \A n \in queue' : n.fingerprint # f
                           /\ \A x \in Workers : ~Running(x, f)'
                      /\ \A n \in queue' : n.fingerprint = f =>
                           /\ Awaited(f)'
                           /\ \A o \in queue' : o.fingerprint = f => o = n
                           /\ \A x \in Workers : ~Running(x, f)'
                      /\ \A v \in Workers : Running(v, f)' =>
                           /\ Awaited(f)'
                           /\ \A x \in Workers : Running(x, f)' => x = v
    BY DEF NoSecondJob
  <1>6. CASE f = fp
    BY <1>1, <1>3, <1>5, <1>6
  <1>7. CASE f # fp
    BY <1>1, <1>4, <1>5, <1>7 DEF NoSecondJob
  <1> QED
    BY <1>6, <1>7

LEMMA NextJobs ==
    ASSUME TypeOK, OneRequest, NoSecondJob, [Next]_vars, faults' = 0
    PROVE  NoSecondJob'
  <1>1. ASSUME UNCHANGED <<rows, step, asked, queue, at, job>> PROVE NoSecondJob'
    BY <1>1, SameJobs DEF Requesting, Running, Awaited, Generating, Row
  <1>2. ASSUME NEW m \in Manuals, ManualStep(m) PROVE NoSecondJob'
    BY <1>1, <1>2 DEF ManualStep, Edit, Sync, Withdraw, Publish, Reindex
  <1>3. ASSUME NEW u \in Users, ReadPool(u) PROVE NoSecondJob'
    <2>1. UNCHANGED <<rows, queue, at, job>>
      BY <1>3 DEF ReadPool
    <2>2. \A v \in Users, fp \in Fingerprints : Requesting(v, fp)' => Requesting(v, fp)
      BY <1>3 DEF ReadPool, Requesting, TypeOK
    <2> QED
      BY <2>1, <2>2, SameJobs DEF Running, Awaited, Generating, Row
  <1>4. ASSUME NEW u \in Users, Get(u) PROVE NoSecondJob'
    BY <1>3, <1>4, ReadRowJobs, RequestJobs DEF Get
  <1>5. ASSUME \/ \E w \in Workers : NotFound(w) \/ LoseConnection(w) \/ Kill(w) \/ Redeliver(w)
               \/ DropMessage
        PROVE  FALSE
    BY <1>5 DEF NotFound, LoseConnection, Kill, Redeliver, DropMessage, Fault, TypeOK
  <1>6. CASE UNCHANGED vars
    BY <1>1, <1>6 DEF vars
  <1> QED
    BY <1>2, <1>4, <1>5, <1>6, StartJobs, TaskJobs, ExpireJobs DEF Next

LEMMA JobInvariant == Spec => []JobInv
  <1>1. Init => JobInv
    <2> SUFFICES ASSUME Init PROVE JobInv
      OBVIOUS
    <2>1. OneRequest /\ NoSecondJob
      BY DEF Init, OneRequest, NoSecondJob, Requesting, Running
    <2> QED
      BY <2>1, InitTypes, InitWriters DEF JobInv
  <1>2. JobInv /\ (TypeOK /\ Counted) /\ [Next]_vars => JobInv'
    <2> SUFFICES ASSUME JobInv, TypeOK, Counted, [Next]_vars PROVE JobInv'
      OBVIOUS
    <2>1. TypeOK' /\ Unfinished' /\ OneRequest'
      BY NextTypes, NextUnfinished, NextRequests DEF JobInv
    <2>2. ASSUME faults' = 0 PROVE NoSecondJob'
      <3>1. faults = 0
        <4>1. faults' >= faults
          <5> USE DEF TypeOK, Fault
          <5>1. ASSUME NEW m \in Manuals, ManualStep(m) PROVE UNCHANGED faults
            BY <5>1 DEF ManualStep, Edit, Sync, Withdraw, Publish, Reindex
          <5>2. ASSUME NEW u \in Users, Get(u) PROVE UNCHANGED faults
            BY <5>2 DEF Get, ReadPool, ReadRow, Request
          <5>3. ASSUME NEW w \in Workers, (\E m \in queue : Start(w, m)) \/ Task(w)
                PROVE  UNCHANGED faults
            BY <5>3 DEF Task, Start, Load, Answer, Save, Discard, FailLocked, Release,
                        SoftTimeLimit, FailUnlocked
          <5>4. ASSUME \/ \E w \in Workers : NotFound(w) \/ LoseConnection(w) \/ Kill(w) \/ Redeliver(w)
                       \/ \E f \in DOMAIN rows : Expire(f)
                       \/ DropMessage
                PROVE  faults' = faults \/ faults' = faults + 1
            BY <5>4 DEF NotFound, LoseConnection, Kill, Redeliver, Expire, DropMessage
          <5>5. CASE UNCHANGED faults
            BY <5>5
          <5> QED
            BY <5>1, <5>2, <5>3, <5>4, <5>5 DEF Next, vars
        <4> QED
          BY <2>2, <4>1 DEF TypeOK
      <3> QED
        BY <2>2, <3>1, NextJobs DEF JobInv
    <2> QED
      BY <2>1, <2>2 DEF JobInv
  <1>3. Spec => [](TypeOK /\ Counted)
    BY InitTypes, NextTypes, PTL DEF Spec
  <1> QED
    BY <1>1, <1>2, <1>3, PTL DEF Spec

(* However the requests, the retries of the task and the changes of the    *)
(* manuals interleave, an explanation has one job at a time unless         *)
(* something fails.                                                        *)
THEOREM OneJobAtATime == Spec => []OneJob
  <1>1. JobInv => OneJob
    <2> SUFFICES ASSUME JobInv, faults = 0, NEW fp \in DOMAIN rows
                 PROVE  Cardinality(Jobs(fp)) <= 1
      BY DEF OneJob
    <2>1. fp \in Fingerprints /\ OneRequest /\ NoSecondJob
      BY DEF JobInv, TypeOK
    <2>2. ASSUME NEW x \in Jobs(fp), NEW y \in Jobs(fp) PROVE x = y
      <3>1. \A z \in Jobs(fp) :
              \/ \E u \in Users : z = <<"asking", u>> /\ Requesting(u, fp)
              \/ \E m \in queue : z = <<"queued", m>> /\ m.fingerprint = fp
              \/ \E w \in Workers : z = <<"running", w>> /\ Running(w, fp)
        BY DEF Jobs, Requesting, Running
      <3> QED
        BY <2>1, <2>2, <3>1 DEF OneRequest, NoSecondJob
    <2>3. CASE Jobs(fp) = {}
      BY <2>3, FS_EmptySet
    <2>4. CASE Jobs(fp) # {}
      <3>1. PICK x \in Jobs(fp) : TRUE
        BY <2>4
      <3>2. Jobs(fp) = {x}
        BY <2>2, <3>1
      <3>3. Cardinality({x}) = 1
        BY FS_Singleton
      <3> QED
        BY <3>2, <3>3
    <2> QED
      BY <2>3, <2>4
  <1> QED
    BY <1>1, JobInvariant, PTL
=============================================================================
