---------------------------- MODULE Explanations ----------------------------
(***************************************************************************)
(* The explanation of a game: cached for each set of manuals a user can    *)
(* cite, written section by section by a task of the "gpu" queue, while    *)
(* the manuals themselves are edited, reindexed and withdrawn.             *)
(* (api/games/explanations.py, api/games/repository.py,                    *)
(* api/worker/tasks/games.py, api/locks.py.)                               *)
(*                                                                         *)
(* A manual is abstracted to the version of its text and to the date of    *)
(* its index, Manual.indexed_at, which never goes back to an earlier one.  *)
(*                                                                         *)
(* A definition named <Operator>_<Slip> is a slip the code could contain;  *)
(* the specification does not use it.                                      *)
(***************************************************************************)
EXTENDS Naturals, Sequences, FiniteSets, Functions

CONSTANTS
    Users,
    Manuals,        \* the manuals of the game
    Shared,         \* those uploaded as visible to everybody
    Owner,          \* who uploaded each
    Questions,      \* sections of an explanation: len(EXPLANATION_QUESTIONS)
    Workers,        \* processes that may run the "gpu" queue
    MaxChanges,     \* bound: changes of the manuals in a behaviour
    Faults,         \* kinds of fault that may happen
    MaxFaults,      \* bound: faults in a behaviour
    EXTERNAL_ERROR_MAX_RETRIES,
    LOCK_BUSY_MAX_RETRIES

FaultKinds == {"dropped", "killed", "redelivered", "slow", "not_found",
               "disconnected"}

ASSUME ManualsAssumption == Shared \subseteq Manuals /\ Owner \in [Manuals -> Users]
ASSUME FaultsAssumption == Faults \subseteq FaultKinds
ASSUME BoundsAssumption ==
    /\ Questions \in Nat \ {0}
    /\ MaxChanges \in Nat /\ MaxFaults \in Nat
    /\ EXTERNAL_ERROR_MAX_RETRIES \in Nat /\ LOCK_BUSY_MAX_RETRIES \in Nat

VARIABLES
    status,         \* Manual.status, as far as it can be cited
    text,           \* version of its chunks in Postgres
    indexed,        \* Manual.indexed_at
    unsynced,       \* edits RAG has not heard of: sync_page_rag tasks to run
    changes,        \* changes of the manuals so far
    rows,           \* game_explanations, by source_fingerprint
    step,           \* where the request of each user is
    asked,          \* the fingerprint it computed
    found,          \* the sections it read
    queue,          \* generate_game_explanation_task messages
    at,             \* where each worker is; "off": it is not deployed
    job,            \* the message it runs
    locked,         \* it holds the advisory lock of its fingerprint
    pool,           \* the manuals it may cite
    done,           \* its sections
    faults          \* faults so far

manualVars  == <<status, text, indexed, unsynced, changes>>
requestVars == <<step, asked, found>>
taskVars    == <<at, job, locked, pool, done>>
vars == <<status, text, indexed, unsynced, changes, rows, step, asked,
          found, queue, at, job, locked, pool, done, faults>>

Dates == 0 .. MaxChanges
Pools == SUBSET (Manuals \X Dates)
Fingerprints == Pools

(* A section is what its answer was written from: chunks of these texts. *)
SectionTexts == SUBSET (Manuals \X Dates)
Rows == [status : {"generating", "ready", "failed"},
         stale : BOOLEAN,           \* GENERATION_STALE_AFTER since updated_at
         sections : Seq(SectionTexts)]

Messages == [user : Users, fingerprint : Fingerprints,
             locked : 0 .. LOCK_BUSY_MAX_RETRIES,
             external : 0 .. EXTERNAL_ERROR_MAX_RETRIES]

GenSteps == {"load", "answer", "save", "discard", "failing", "release"}

(* _pool_visibility_filters. *)
Sees(u, m) ==
    \/ m \in Shared /\ status[m] = "active"
    \/ Owner[m] = u /\ status[m] \in {"active", "pending_review"}

(* get_explanation_pool: the manuals a user can cite, with their dates. *)
Pool(u) == {<<m, indexed[m]>> : m \in {n \in Manuals : Sees(u, n)}}

Fingerprint_SharedOnly(p) == {x \in p : x[1] \in Shared}

(* sha256 of the identifiers and dates of a pool: equal only if those are. *)
Fingerprint(p) == p

-----------------------------------------------------------------------------
Init ==
    /\ status = [m \in Manuals |-> "active"]
    /\ text = [m \in Manuals |-> 0]
    /\ indexed = [m \in Manuals |-> 0]
    /\ unsynced = [m \in Manuals |-> 0]
    /\ changes = 0
    /\ rows = <<>>
    /\ step = [u \in Users |-> "idle"]
    /\ asked = [u \in Users |-> {}]
    /\ found = [u \in Users |-> <<>>]
    /\ queue = {}
    /\ at \in [Workers -> {"idle", "off"}]
    /\ job = [w \in Workers |-> <<>>]
    /\ locked = [w \in Workers |-> FALSE]
    /\ pool = [w \in Workers |-> {}]
    /\ done = [w \in Workers |-> <<>>]
    /\ faults = 0

Change == changes < MaxChanges /\ changes' = changes + 1

Fault(kind) ==
    /\ kind \in Faults
    /\ faults < MaxFaults
    /\ faults' = faults + 1

-----------------------------------------------------------------------------
(* The manuals.                                                            *)

(* _edit_page_text_locked: only a private manual, and not while it is      *)
(* processed; its chunks are replaced, and RAG is told by a task.          *)
Edit(m) ==
    /\ Change
    /\ m \notin Shared
    /\ status[m] # "out"
    /\ text' = [text EXCEPT ![m] = @ + 1]
    /\ unsynced' = [unsynced EXCEPT ![m] = @ + 1]
    /\ UNCHANGED <<status, indexed, rows, requestVars, queue, taskVars,
                   faults>>

Sync_KeepsDate(m) ==
    /\ unsynced[m] > 0
    /\ unsynced' = [unsynced EXCEPT ![m] = @ - 1]
    /\ UNCHANGED <<status, text, indexed, changes, rows, requestVars,
                   queue, taskVars, faults>>

(* sync_page_rag, mark_page_chunks_indexed: the date is the one RAG gives  *)
(* for the chunks it took.  An edited page has some: the API takes no      *)
(* blank text.                                                             *)
Sync(m) ==
    /\ unsynced[m] > 0
    /\ unsynced' = [unsynced EXCEPT ![m] = @ - 1]
    /\ indexed' = [indexed EXCEPT ![m] = @ + 1]
    /\ UNCHANGED <<status, text, changes, rows, requestVars, queue,
                   taskVars, faults>>

(* A manual is deleted, processed again, or its processing fails. *)
Withdraw(m) ==
    /\ Change
    /\ status[m] # "out"
    /\ status' = [status EXCEPT ![m] = "out"]
    /\ UNCHANGED <<text, indexed, unsynced, rows, requestVars,
                   queue, taskVars, faults>>

(* mark_manual_indexed, at the end of a processing: new chunks, new date.  *)
Publish(m) ==
    /\ Change
    /\ status[m] = "out"
    /\ \E s \in {"active", "pending_review"} : status' = [status EXCEPT ![m] = s]
    /\ text' = [text EXCEPT ![m] = @ + 1]
    /\ indexed' = [indexed EXCEPT ![m] = @ + 1]
    /\ UNCHANGED <<unsynced, rows, requestVars, queue, taskVars, faults>>

(* reindex_manual, from the hourly reconciliation: the same chunks, a new  *)
(* date, and "active" whatever the status was.                             *)
Reindex(m) ==
    /\ Change
    /\ status[m] # "out"
    /\ status' = [status EXCEPT ![m] = "active"]
    /\ indexed' = [indexed EXCEPT ![m] = @ + 1]
    /\ UNCHANGED <<text, unsynced, rows, requestVars, queue, taskVars, faults>>

-----------------------------------------------------------------------------
(* GET /api/games/{game_id}/explanation.                                   *)

Row(fp) == rows[fp]
Put(fp, r) == rows' = [f \in DOMAIN rows \cup {fp} |-> IF f = fp THEN r ELSE rows[f]]

Generating(fp) == fp \in DOMAIN rows /\ Row(fp).status = "generating"

Usable_Generating(r) ==
    CASE r.status = "ready" -> Len(r.sections) = Questions
      [] r.status \in {"generating", "failed"} -> TRUE

(* _use_cached_explanation: a failure is cached like an explanation. *)
Usable(r) ==
    CASE r.status = "ready" -> Len(r.sections) = Questions
      [] r.status = "generating" -> ~r.stale
      [] r.status = "failed" -> TRUE

(* get_explanation_pool; without manuals the request is refused. *)
ReadPool(u) ==
    /\ step[u] = "idle"
    /\ Pool(u) # {}
    /\ step' = [step EXCEPT ![u] = "lock"]
    /\ asked' = [asked EXCEPT ![u] = Fingerprint(Pool(u))]
    /\ UNCHANGED <<manualVars, rows, found, queue, taskVars, faults>>

(* The answer of a request that needs no job. *)
Answered(u) ==
    /\ step' = [step EXCEPT ![u] = "idle"]
    /\ asked' = [asked EXCEPT ![u] = {}]
    /\ found' = [found EXCEPT ![u] = <<>>]

Lookup(u) ==
    LET fp == asked[u] IN
    IF fp \in DOMAIN rows /\ Usable(Row(fp))
    THEN Answered(u)
    ELSE /\ step' = [step EXCEPT ![u] = "request"]
         /\ found' = [found EXCEPT ![u] = IF fp \in DOMAIN rows
                                          THEN Row(fp).sections ELSE <<>>]
         /\ UNCHANGED asked

ReadRow_NoLock(u) ==
    /\ step[u] = "lock"
    /\ Lookup(u)
    /\ UNCHANGED <<manualVars, rows, queue, taskVars, faults>>

(* lock_game_explanation: the requests of a fingerprint read and write the *)
(* row one after another; the tasks do not take this lock.                 *)
ReadRow(u) ==
    /\ step[u] = "lock"
    /\ \A v \in Users : step[v] = "request" => asked[v] # asked[u]
    /\ Lookup(u)
    /\ UNCHANGED <<manualVars, rows, queue, taskVars, faults>>

(* save_game_explanation commits the row, with the sections read, and the  *)
(* handler announces the job: generate_game_explanation_task.delay.  A job *)
(* that is not announced is one that DropMessage loses.                    *)
Request(u) ==
    /\ step[u] = "request"
    /\ Put(asked[u], [status |-> "generating", stale |-> FALSE,
                      sections |-> found[u]])
    /\ queue' = queue \cup {[user |-> u, fingerprint |-> asked[u],
                             locked |-> 0, external |-> 0]}
    /\ Answered(u)
    /\ UNCHANGED <<manualVars, taskVars, faults>>

-----------------------------------------------------------------------------
(* generate_game_explanation_task.                                         *)

GoTo(w, place) == at' = [at EXCEPT ![w] = place]

Idle(w) ==
    /\ GoTo(w, "idle")
    /\ job' = [job EXCEPT ![w] = <<>>]
    /\ locked' = [locked EXCEPT ![w] = FALSE]
    /\ pool' = [pool EXCEPT ![w] = {}]
    /\ done' = [done EXCEPT ![w] = <<>>]

(* fail_game_explanation is next, without the lock. *)
ToFail(w) ==
    /\ GoTo(w, "fail")
    /\ locked' = [locked EXCEPT ![w] = FALSE]
    /\ pool' = [pool EXCEPT ![w] = {}]
    /\ done' = [done EXCEPT ![w] = <<>>]

LockFree(fp) == \A w \in Workers : locked[w] => job[w].fingerprint # fp

Take(w, m, place, lock) ==
    /\ queue' = queue \ {m}
    /\ job' = [job EXCEPT ![w] = m]
    /\ locked' = [locked EXCEPT ![w] = lock]
    /\ GoTo(w, place)

Start_NoLock(w, m) ==
    /\ at[w] = "idle"
    /\ m \in queue
    /\ Take(w, m, "load", TRUE)
    /\ UNCHANGED <<manualVars, rows, requestVars, pool, done, faults>>

(* advisory_session_lock: a task that finds it taken comes back a bounded  *)
(* number of times, then fails the explanation without the lock.           *)
Start(w, m) ==
    /\ at[w] = "idle"
    /\ m \in queue
    /\ \/ LockFree(m.fingerprint) /\ Take(w, m, "load", TRUE)
       \/ /\ ~LockFree(m.fingerprint) /\ m.locked < LOCK_BUSY_MAX_RETRIES
          /\ queue' = (queue \ {m}) \cup {[m EXCEPT !.locked = @ + 1]}
          /\ UNCHANGED <<at, job, locked>>
       \/ /\ ~LockFree(m.fingerprint) /\ m.locked = LOCK_BUSY_MAX_RETRIES
          /\ Take(w, m, "fail", FALSE)
    /\ UNCHANGED <<manualVars, rows, requestVars, pool, done, faults>>

SamePool(w) == Fingerprint(Pool(job[w].user)) = job[w].fingerprint

(* generate_game_explanation: the row, then the pool.  A row that nobody   *)
(* asked for ends the task; another pool discards it.                      *)
Load(w) ==
    /\ at[w] = "load"
    /\ LET fp == job[w].fingerprint IN
       IF ~Generating(fp)
       THEN GoTo(w, "release") /\ UNCHANGED <<pool, done>>
       ELSE IF ~SamePool(w)
       THEN GoTo(w, "discard") /\ UNCHANGED <<pool, done>>
       ELSE /\ GoTo(w, "answer")
            /\ pool' = [pool EXCEPT ![w] = Pool(job[w].user)]
            /\ done' = [done EXCEPT ![w] = Row(fp).sections]
    /\ UNCHANGED <<manualVars, rows, requestVars, queue, job, locked, faults>>

(* _require_unchanged_pool, then generate_game_answer: RAG proposes chunks  *)
(* of the manuals allowed, and Postgres gives those the user can still     *)
(* cite.  None, or a manual that left the pool, discards the explanation;  *)
(* RAG or the LLM can fail.                                                *)
Answer(w) ==
    /\ at[w] = "answer"
    /\ \/ /\ SamePool(w)
          /\ done' = [done EXCEPT ![w] = Append(@, {<<x[1], text[x[1]]>> : x \in pool[w]})]
          /\ GoTo(w, "save")
       \/ SamePool(w) /\ GoTo(w, "failing") /\ UNCHANGED done
       \/ GoTo(w, "discard") /\ UNCHANGED done
    /\ UNCHANGED <<manualVars, rows, requestVars, queue, job, locked, pool, faults>>

(* RAG answers 404: InternalResourceNotFoundError is none of the errors    *)
(* that are caught, and the row stays as it was.                           *)
NotFound(w) ==
    /\ Fault("not_found")
    /\ at[w] = "answer"
    /\ GoTo(w, "release")
    /\ UNCHANGED <<manualVars, rows, requestVars, queue, job, locked, pool, done>>

(* _require_unchanged_pool again, then save_game_explanation: the last     *)
(* section makes the explanation ready.                                    *)
Save(w) ==
    /\ at[w] = "save"
    /\ IF SamePool(w)
       THEN LET complete == Len(done[w]) = Questions IN
            /\ Put(job[w].fingerprint,
                   [status |-> IF complete THEN "ready" ELSE "generating",
                    stale |-> FALSE, sections |-> done[w]])
            /\ GoTo(w, IF complete THEN "release" ELSE "answer")
       ELSE GoTo(w, "discard") /\ UNCHANGED rows
    /\ UNCHANGED <<manualVars, requestVars, queue, job, locked, pool, done, faults>>

(* discard_pending_explanation. *)
Discard(w) ==
    /\ at[w] = "discard"
    /\ rows' = IF Generating(job[w].fingerprint)
               THEN Restrict(rows, DOMAIN rows \ {job[w].fingerprint}) ELSE rows
    /\ GoTo(w, "release")
    /\ UNCHANGED <<manualVars, requestVars, queue, job, locked, pool, done, faults>>

(* mark_game_explanation_failed: only what is still asked for. *)
MarkFailed(fp) ==
    rows' = IF Generating(fp)
            THEN [rows EXCEPT ![fp].status = "failed", ![fp].stale = FALSE]
            ELSE rows

(* An error of RAG or of the LLM, under the lock. *)
FailLocked(w) ==
    /\ at[w] = "failing"
    /\ MarkFailed(job[w].fingerprint)
    /\ GoTo(w, "release")
    /\ UNCHANGED <<manualVars, requestVars, queue, job, locked, pool, done, faults>>

(* Leaving advisory_session_lock. *)
Release(w) ==
    /\ at[w] = "release"
    /\ Idle(w)
    /\ UNCHANGED <<manualVars, rows, requestVars, queue, faults>>

(* A ConnectionError or TimeoutError leaves the lock; the task is retried  *)
(* a bounded number of times, then fails the explanation.                  *)
LoseConnection(w) ==
    /\ Fault("disconnected")
    /\ at[w] \in GenSteps \ {"release"}
    /\ IF job[w].external < EXTERNAL_ERROR_MAX_RETRIES
       THEN /\ queue' = queue \cup {[job[w] EXCEPT !.external = @ + 1]}
            /\ Idle(w)
       ELSE ToFail(w) /\ UNCHANGED <<queue, job>>
    /\ UNCHANGED <<manualVars, rows, requestVars>>

(* SoftTimeLimitExceeded leaves the lock first. *)
SoftTimeLimit(w) ==
    /\ at[w] \in {"answer", "save"}
    /\ ToFail(w)
    /\ UNCHANGED <<manualVars, rows, requestVars, queue, job, faults>>

(* fail_game_explanation, without the lock. *)
FailUnlocked(w) ==
    /\ at[w] = "fail"
    /\ MarkFailed(job[w].fingerprint)
    /\ Idle(w)
    /\ UNCHANGED <<manualVars, requestVars, queue, faults>>

-----------------------------------------------------------------------------
(* Time and faults.                                                        *)

(* Jobs of a fingerprint that were not lost. *)
Jobs(fp) ==
    {<<"asking", u>> : u \in {v \in Users :
        step[v] = "request" /\ asked[v] = fp}}
    \cup {<<"queued", m>> : m \in {n \in queue : n.fingerprint = fp}}
    \cup {<<"running", w>> : w \in {v \in Workers :
        at[v] \notin {"idle", "off", "release"} /\ job[v].fingerprint = fp}}

(* GENERATION_STALE_AFTER, longer than the hard limit of a task, goes by.  *)
(* With a job still to end it is a fault: the job waited all that time.    *)
Expire(fp) ==
    /\ Generating(fp) /\ ~Row(fp).stale
    /\ rows' = [rows EXCEPT ![fp].stale = TRUE]
    /\ IF Jobs(fp) = {} THEN UNCHANGED faults ELSE Fault("slow")
    /\ UNCHANGED <<manualVars, requestVars, queue, taskVars>>

(* A message that is never run: the API dies before the delay, or a worker *)
(* as it starts.                                                           *)
DropMessage ==
    /\ Fault("dropped")
    /\ \E m \in queue : queue' = queue \ {m}
    /\ UNCHANGED <<manualVars, rows, requestVars, taskVars>>

(* The process of a task dies and Postgres drops its connection. *)
Kill(w) ==
    /\ Fault("killed")
    /\ at[w] \notin {"idle", "off"}
    /\ Idle(w)
    /\ UNCHANGED <<manualVars, rows, requestVars, queue>>

(* acks_late: the message of a task that still runs is delivered again. *)
Redeliver(w) ==
    /\ Fault("redelivered")
    /\ at[w] \notin {"idle", "off"}
    /\ queue' = queue \cup {job[w]}
    /\ UNCHANGED <<manualVars, rows, requestVars, taskVars>>

-----------------------------------------------------------------------------
ManualStep(m) ==
    \/ Edit(m) \/ Sync(m)
    \/ Withdraw(m) \/ Publish(m) \/ Reindex(m)

Get(u) == ReadPool(u) \/ ReadRow(u) \/ Request(u)

Task(w) ==
    \/ Load(w) \/ Answer(w) \/ Save(w) \/ Discard(w)
    \/ FailLocked(w) \/ Release(w) \/ SoftTimeLimit(w) \/ FailUnlocked(w)

Next ==
    \/ \E m \in Manuals : ManualStep(m)
    \/ \E u \in Users : Get(u)
    \/ \E w \in Workers :
         \/ \E m \in queue : Start(w, m)
         \/ Task(w)
         \/ NotFound(w)
         \/ LoseConnection(w)
         \/ Kill(w)
         \/ Redeliver(w)
    \/ \E fp \in DOMAIN rows : Expire(fp)
    \/ DropMessage

Spec == Init /\ [][Next]_vars

(* Workers run what they start; the broker delivers in order, so that a    *)
(* message does not wait for ever behind others; the clock runs; and the   *)
(* page of the game asks again while an explanation is being generated.    *)
Fairness ==
    /\ \A u \in Users : WF_vars(Get(u))
    /\ \A w \in Workers : WF_vars(Task(w))
    /\ \A u \in Users :
         SF_vars(\E w \in Workers, m \in queue :
                    m.fingerprint = Fingerprint(Pool(u)) /\ Start(w, m))
    /\ WF_vars(\E fp \in DOMAIN rows : Jobs(fp) = {} /\ Expire(fp))

FairSpec == Spec /\ Fairness

-----------------------------------------------------------------------------
(* Properties.                                                             *)

(* Every variable stays in its domain, and a worker has a message and a    *)
(* lock only while it runs a task.                                         *)
TypeOK ==
    /\ status \in [Manuals -> {"active", "pending_review", "out"}]
    /\ text \in [Manuals -> Dates] /\ indexed \in [Manuals -> Dates]
    /\ unsynced \in [Manuals -> 0 .. MaxChanges]
    /\ changes \in 0 .. MaxChanges
    /\ DOMAIN rows \subseteq Fingerprints
    /\ \A fp \in DOMAIN rows : rows[fp] \in Rows
    /\ step \in [Users -> {"idle", "lock", "request"}]
    /\ asked \in [Users -> Fingerprints]
    /\ found \in [Users -> Seq(SectionTexts)]
    /\ queue \subseteq Messages
    /\ at \in [Workers -> GenSteps \cup {"idle", "off", "fail"}]
    /\ job \in [Workers -> Messages \cup {<<>>}]
    /\ \A w \in Workers : job[w] = <<>> <=> at[w] \in {"idle", "off"}
    /\ locked = [w \in Workers |-> at[w] \in GenSteps]
    /\ pool \in [Workers -> Pools]
    /\ done \in [Workers -> Seq(SectionTexts)]
    /\ faults \in 0 .. MaxFaults

(* However many users open the game at once, and however their requests,   *)
(* the retries of the task and changes of the manuals interleave, an       *)
(* explanation has one job at a time unless something fails.               *)
OneJob == faults = 0 => \A fp \in DOMAIN rows : Cardinality(Jobs(fp)) <= 1

(* Whatever fails, two tasks never write the sections of one explanation   *)
(* at the same time, and a row never has more sections than questions.     *)
OneWriter ==
    /\ \A v, w \in Workers :
         at[v] \in GenSteps /\ at[w] \in GenSteps /\ v # w =>
             job[v].fingerprint # job[w].fingerprint
    /\ \A fp \in DOMAIN rows : Len(rows[fp].sections) <= Questions

(* What the user would be shown now. *)
Shown(u) ==
    IF Fingerprint(Pool(u)) \in DOMAIN rows
    THEN UNION Range(rows[Fingerprint(Pool(u))].sections) ELSE {}

(* An explanation is shared by the users who can cite the same manuals:    *)
(* none is shown a section written from a manual they cannot read.         *)
ShownIsReadable == \A u \in Users : \A x \in Shown(u) : Sees(u, x[1])

(* Once RAG has heard of the edits of a manual, nobody is shown a section  *)
(* written from an earlier text of it: "un cambio en las fuentes hace que  *)
(* se descarten los apartados anteriores y se solicite una nueva           *)
(* generación" (especificacion-de-diseno.mdx:281).                         *)
ShownIsCurrent ==
    \A u \in Users : \A x \in Shown(u) :
        unsynced[x[1]] = 0 => x[2] = text[x[1]]

(* An explanation being generated for the manuals of a user ends ready or  *)
(* failed, or is asked for anew once its manuals change, although its job  *)
(* may be lost: requests notice that it has not moved.                     *)
GenerationSettles ==
    \A u \in Users :
        faults = MaxFaults /\ Generating(Fingerprint(Pool(u)))
            ~> ~Generating(Fingerprint(Pool(u)))
=============================================================================
