---------------------------- MODULE Conversations ----------------------------
(***************************************************************************)
(* One conversation about a game: the API that accepts a question, renames *)
(* and deletes the conversation, and the Celery tasks of the "gpu" queue   *)
(* that write each answer and refine the title.                            *)
(* (api/conversations/service.py, api/conversations/repository.py,         *)
(* api/conversations/router.py, api/worker/tasks/conversations.py,         *)
(* api/locks.py.)                                                          *)
(*                                                                         *)
(* The repository selects a row, changes the object and commits: the       *)
(* select and the commit are two steps, and the commit writes only the     *)
(* columns whose value differs from the one selected.                      *)
(*                                                                         *)
(* A definition named <Operator>_<Slip> is a slip the code could contain;  *)
(* the specification does not use it.                                      *)
(***************************************************************************)
EXTENDS Naturals, FiniteSets

CONSTANTS
    Workers,        \* processes that run the "gpu" queue
    NoOne,          \* not a worker: the lock is free
    MaxTurns,       \* bound: questions asked in the conversation
    MaxRenames,     \* bound: times its owner renames it
    Faults,         \* kinds of fault that may happen
    MaxFaults,      \* bound: faults in a behaviour
    EXTERNAL_ERROR_MAX_RETRIES,
    LOCK_BUSY_MAX_RETRIES

FaultKinds == {"dropped", "killed", "redelivered"}

ASSUME WorkersAssumption == NoOne \notin Workers
ASSUME FaultsAssumption == Faults \subseteq FaultKinds
ASSUME BoundsAssumption ==
    /\ MaxTurns \in Nat /\ MaxRenames \in Nat /\ MaxFaults \in Nat
    /\ EXTERNAL_ERROR_MAX_RETRIES \in Nat /\ LOCK_BUSY_MAX_RETRIES \in Nat

VARIABLES
    deleted,        \* Conversation.deleted_at IS NOT NULL
    playable,       \* its game is active and not deleted
    title,          \* Conversation.title, as who wrote it
    send,           \* how far the request of each turn is
    sawNoTitle,     \* the title was NULL when that request last read it
    row,            \* the assistant Message of each turn
    queue,          \* messages of the "gpu" queue
    lock,           \* who holds pg_try_advisory_lock("conversation:<id>")
    at,             \* where each worker is
    job,            \* the message it runs
    seen,           \* the row it selected to complete or fail it
    code,           \* the error_code it will write
    renames,        \* renames so far
    faults          \* faults so far

convVars  == <<deleted, playable, title>>
sendVars  == <<send, sawNoTitle>>
taskVars  == <<at, job, seen, code>>
boundVars == <<renames, faults>>
vars == <<deleted, playable, title, send, sawNoTitle, row, queue, lock,
          at, job, seen, code, renames, faults>>

Turns == 1 .. MaxTurns

(* A title is abstracted to its author: nobody yet, the fallback cut from  *)
(* the question of a turn, the LLM asked for that turn, or the owner.      *)
Titles == [by : {"nobody", "fallback", "llm", "owner"}, turn : 0 .. MaxTurns]
NoTitle     == [by |-> "nobody", turn |-> 0]
Fallback(t) == [by |-> "fallback", turn |-> t]
Refined(t)  == [by |-> "llm", turn |-> t]
OwnerTitle  == [by |-> "owner", turn |-> 0]

ErrorCodes == {"none", "generation_failed", "answer_too_long"}
Rows == [status : {"absent", "pending", "completed", "failed"},
         answered : BOOLEAN,        \* content and sources hold an answer
         error : ErrorCodes]
Absent  == [status |-> "absent", answered |-> FALSE, error |-> "none"]
Pending == [status |-> "pending", answered |-> FALSE, error |-> "none"]

(* Arguments of generate_chat_reply_task and refresh_conversation_title_task. *)
Messages == [kind : {"reply", "title"}, turn : Turns,
             locked : 0 .. LOCK_BUSY_MAX_RETRIES,
             external : 0 .. EXTERNAL_ERROR_MAX_RETRIES]
ReplyJob(t) == [kind |-> "reply", turn |-> t, locked |-> 0, external |-> 0]
TitleJob(t) == [kind |-> "title", turn |-> t, locked |-> 0, external |-> 0]
NoJob == [kind |-> "none", turn |-> 0, locked |-> 0, external |-> 0]

SendSteps  == {"new", "checked", "sourced", "appending", "titling", "stored",
               "announced", "done"}
GenSteps   == {"load", "generate", "complete", "write", "release"}
FailSteps  == {"fail", "write_failure"}
TitleSteps == {"title_load", "title_ask", "title_read", "title_write"}
Steps == {"idle"} \cup GenSteps \cup FailSteps \cup TitleSteps

(* _get_owned_conversation_with_game_state and _ensure_game_available. *)
Writable == ~deleted /\ playable

-----------------------------------------------------------------------------
Init ==
    /\ deleted = FALSE
    /\ playable = TRUE
    /\ title = NoTitle
    /\ send = [t \in Turns |-> "new"]
    /\ sawNoTitle = [t \in Turns |-> FALSE]
    /\ row = [t \in Turns |-> Absent]
    /\ queue = {}
    /\ lock = NoOne
    /\ at = [w \in Workers |-> "idle"]
    /\ job = [w \in Workers |-> NoJob]
    /\ seen = [w \in Workers |-> Absent]
    /\ code = [w \in Workers |-> "none"]
    /\ renames = 0
    /\ faults = 0

Fault(kind) ==
    /\ kind \in Faults
    /\ faults < MaxFaults
    /\ faults' = faults + 1
    /\ UNCHANGED renames

-----------------------------------------------------------------------------
(* Requests of the owner.                                                  *)

SendTo(t, step) == send' = [send EXCEPT ![t] = step]

(* _load_turn_context: the conversation and its title are read.            *)
CheckTurn(t) ==
    /\ send[t] = "new"
    /\ Writable
    /\ SendTo(t, "checked")
    /\ sawNoTitle' = [sawNoTitle EXCEPT ![t] = title = NoTitle]
    /\ UNCHANGED <<convVars, row, queue, lock, taskVars, boundVars>>

(* _ensure_game_has_sources: a game without manuals to cite refuses it.    *)
CheckSources(t) ==
    /\ send[t] = "checked"
    /\ \E refused \in BOOLEAN : SendTo(t, IF refused THEN "done" ELSE "sourced")
    /\ UNCHANGED <<convVars, sawNoTitle, row, queue, lock, taskVars, boundVars>>

BeginAppend_TrustsFirstRead(t) ==
    /\ send[t] = "sourced"
    /\ \A s \in 1 .. t - 1 : send[s] \notin {"new", "checked", "sourced"}
    /\ SendTo(t, IF ~Writable THEN "done"
                 ELSE IF sawNoTitle[t] THEN "titling" ELSE "appending")
    /\ UNCHANGED <<convVars, sawNoTitle, row, queue, lock, taskVars, boundVars>>

(* append_pending_message_pair, its select: the conversation is read again.*)
(* Turns are numbered by the creation of their messages.                   *)
BeginAppend(t) ==
    /\ send[t] = "sourced"
    /\ \A s \in 1 .. t - 1 : send[s] \notin {"new", "checked", "sourced"}
    /\ SendTo(t, IF ~Writable THEN "done"
                 ELSE IF sawNoTitle[t] /\ title = NoTitle THEN "titling"
                 ELSE "appending")
    /\ UNCHANGED <<convVars, sawNoTitle, row, queue, lock, taskVars, boundVars>>

(* append_pending_message_pair, its commit: the question, an assistant     *)
(* message still pending, and the fallback title if both reads found none. *)
Append(t) ==
    /\ send[t] \in {"appending", "titling"}
    /\ row' = [row EXCEPT ![t] = Pending]
    /\ title' = IF send[t] = "titling" THEN Fallback(t) ELSE title
    /\ SendTo(t, "stored")
    /\ UNCHANGED <<deleted, playable, sawNoTitle, queue, lock, taskVars,
                   boundVars>>

(* send_message: two reads and a transaction, each on its own; nothing     *)
(* holds the conversation between them.                                    *)
SendMessage(t) == CheckSources(t) \/ BeginAppend(t) \/ Append(t)

(* send_conversation_message_handler: generate_chat_reply_task.delay. *)
AnnounceReply(t) ==
    /\ send[t] = "stored"
    /\ queue' = queue \cup {ReplyJob(t)}
    /\ SendTo(t, "announced")
    /\ UNCHANGED <<convVars, sawNoTitle, row, lock, taskVars, boundVars>>

(* refresh_conversation_title_task.delay, if the first read found no title,*)
(* whatever the second one found.                                          *)
AnnounceTitle(t) ==
    /\ send[t] = "announced"
    /\ queue' = IF sawNoTitle[t] THEN queue \cup {TitleJob(t)} ELSE queue
    /\ SendTo(t, "done")
    /\ UNCHANGED <<convVars, sawNoTitle, row, lock, taskVars, boundVars>>

(* rename_user_conversation: whatever the title is. *)
Rename ==
    /\ renames < MaxRenames
    /\ ~deleted
    /\ title' = OwnerTitle
    /\ renames' = renames + 1
    /\ UNCHANGED <<deleted, playable, sendVars, row, queue, lock, taskVars,
                   faults>>

(* soft_delete_conversation: no lock, whatever the tasks are doing. *)
DeleteConversation ==
    /\ ~deleted
    /\ deleted' = TRUE
    /\ UNCHANGED <<playable, title, sendVars, row, queue, lock, taskVars,
                   boundVars>>

(* The game is withdrawn from the catalogue by its operator, or offered    *)
(* again (upsert_bgg_games sets it active).                                *)
SwitchGame ==
    /\ playable' = ~playable
    /\ UNCHANGED <<deleted, title, sendVars, row, queue, lock, taskVars,
                   boundVars>>

-----------------------------------------------------------------------------
(* generate_chat_reply_task.                                               *)

GoTo(w, step) == at' = [at EXCEPT ![w] = step]

Idle(w) ==
    /\ GoTo(w, "idle")
    /\ job' = [job EXCEPT ![w] = NoJob]
    /\ seen' = [seen EXCEPT ![w] = Absent]
    /\ code' = [code EXCEPT ![w] = "none"]

(* _fail_pending_reply is next, with or without the lock. *)
ToFail(w, c) ==
    /\ GoTo(w, "fail")
    /\ code' = [code EXCEPT ![w] = c]
    /\ seen' = [seen EXCEPT ![w] = Absent]
    /\ UNCHANGED job

StartReply_GivesUp(w, m) ==
    /\ at[w] = "idle"
    /\ m \in queue /\ m.kind = "reply"
    /\ IF lock = NoOne
       THEN /\ lock' = w
            /\ GoTo(w, "load")
            /\ queue' = queue \ {m}
            /\ job' = [job EXCEPT ![w] = m]
            /\ UNCHANGED <<seen, code>>
       ELSE /\ queue' = queue \ {m}
            /\ UNCHANGED <<lock, taskVars>>
    /\ UNCHANGED <<convVars, sendVars, row, boundVars>>

(* advisory_session_lock: it is tried, not waited for.  A task that finds  *)
(* it taken comes back later, a bounded number of times; then it fails the *)
(* reply without the lock.                                                 *)
StartReply(w, m) ==
    /\ at[w] = "idle"
    /\ m \in queue /\ m.kind = "reply"
    /\ IF lock = NoOne
       THEN /\ lock' = w
            /\ GoTo(w, "load")
            /\ queue' = queue \ {m}
            /\ job' = [job EXCEPT ![w] = m]
            /\ UNCHANGED <<seen, code>>
       ELSE IF m.locked < LOCK_BUSY_MAX_RETRIES
       THEN /\ queue' = (queue \ {m}) \cup {[m EXCEPT !.locked = @ + 1]}
            /\ UNCHANGED <<lock, taskVars>>
       ELSE /\ queue' = queue \ {m}
            /\ GoTo(w, "fail")
            /\ job' = [job EXCEPT ![w] = m]
            /\ code' = [code EXCEPT ![w] = "generation_failed"]
            /\ UNCHANGED <<lock, seen>>
    /\ UNCHANGED <<convVars, sendVars, row, boundVars>>

(* load_pending_reply_context: a reply that is settled, or a conversation  *)
(* that accepts no changes, ends the task as done.                         *)
LoadReply(w) ==
    /\ at[w] = "load"
    /\ GoTo(w, IF Writable /\ row[job[w].turn].status = "pending"
               THEN "generate" ELSE "release")
    /\ UNCHANGED <<convVars, sendVars, row, queue, lock, job, seen, code,
                   boundVars>>

(* _generate_text: a text, maybe longer than MESSAGE_CONTENT_MAX_LENGTH, or *)
(* the failure of Ollama.                                                  *)
Texts == {"fits", "too_long", "failed"}

(* _generate_answer_with_retry: a text too long is asked again, shorter,   *)
(* and the service refuses to answer with one that still is.               *)
LlmAnswer(first, shorter) ==
    IF first # "too_long" THEN first
    ELSE IF shorter = "too_long" THEN "failed" ELSE shorter

(* The lock covers the text, not the commit of its answer. *)
Generate_Unlocks(w) ==
    /\ at[w] = "generate"
    /\ lock' = NoOne
    /\ \/ GoTo(w, "complete") /\ UNCHANGED <<job, seen, code>>
       \/ ToFail(w, "generation_failed")
    /\ UNCHANGED <<convVars, sendVars, row, queue, boundVars>>

(* generate_game_answer, which has the same limit of its own: the answer of*)
(* the LLM service, or a failure: RAG, the manuals, a game that left the   *)
(* catalogue.                                                              *)
Generate(w) ==
    /\ at[w] = "generate"
    /\ \E first, shorter \in Texts :
          LET answer == LlmAnswer(first, shorter)
          IN  IF answer = "fits"
              THEN GoTo(w, "complete") /\ UNCHANGED <<job, seen, code>>
              ELSE ToFail(w, IF answer = "too_long" THEN "answer_too_long"
                             ELSE "generation_failed")
    /\ UNCHANGED <<convVars, sendVars, row, queue, lock, boundVars>>

LoseConnection_KeepsLock(w) ==
    /\ at[w] \in {"load", "generate", "complete"}
    /\ UNCHANGED lock
    /\ IF job[w].external < EXTERNAL_ERROR_MAX_RETRIES
       THEN /\ queue' = queue \cup {[job[w] EXCEPT !.external = @ + 1]}
            /\ Idle(w)
       ELSE ToFail(w, "generation_failed") /\ UNCHANGED queue
    /\ UNCHANGED <<convVars, sendVars, row, boundVars>>

(* A ConnectionError or TimeoutError leaves the lock; the task is retried  *)
(* a bounded number of times, then fails the reply without the lock.       *)
LoseConnection(w) ==
    /\ at[w] \in {"load", "generate", "complete"}
    /\ lock' = NoOne
    /\ IF job[w].external < EXTERNAL_ERROR_MAX_RETRIES
       THEN /\ queue' = queue \cup {[job[w] EXCEPT !.external = @ + 1]}
            /\ Idle(w)
       ELSE ToFail(w, "generation_failed") /\ UNCHANGED queue
    /\ UNCHANGED <<convVars, sendVars, row, boundVars>>

(* SoftTimeLimitExceeded: inside the coroutine its "except Exception"      *)
(* fails the reply under the lock; in the event loop, the lock is left     *)
(* first.                                                                  *)
SoftTimeLimit(w) ==
    /\ at[w] \in {"generate", "complete"}
    /\ lock' \in {w, NoOne}
    /\ ToFail(w, "generation_failed")
    /\ UNCHANGED <<convVars, sendVars, row, queue, boundVars>>

(* _get_writable_assistant_message, then the status check. *)
SelectToComplete(w) ==
    /\ at[w] = "complete"
    /\ IF Writable /\ row[job[w].turn].status # "completed"
       THEN /\ GoTo(w, "write")
            /\ seen' = [seen EXCEPT ![w] = row[job[w].turn]]
       ELSE GoTo(w, "release") /\ UNCHANGED seen
    /\ UNCHANGED <<convVars, sendVars, row, queue, lock, job, code, boundVars>>

CompletedFrom(s, r) ==
    [status |-> "completed", answered |-> TRUE,
     error |-> IF s.error = "none" THEN r.error ELSE "none"]

FailedFrom(s, r, c) ==
    [status |-> IF s.status = "failed" THEN r.status ELSE "failed",
     answered |-> IF s.answered THEN FALSE ELSE r.answered,
     error |-> IF s.error = c THEN r.error ELSE c]

(* CHECK error_code_only_when_failed and content_required_when_completed. *)
Allowed(r) ==
    /\ r.error # "none" => r.status = "failed"
    /\ r.status = "completed" => r.answered

(* complete_assistant_message: its commit.  A violated constraint is an    *)
(* IntegrityError, which fails the reply still under the lock.             *)
Complete(w) ==
    /\ at[w] = "write"
    /\ LET new == CompletedFrom(seen[w], row[job[w].turn])
       IN  IF Allowed(new)
           THEN /\ row' = [row EXCEPT ![job[w].turn] = new]
                /\ GoTo(w, "release")
                /\ seen' = [seen EXCEPT ![w] = Absent]
                /\ UNCHANGED <<job, code>>
           ELSE ToFail(w, "generation_failed") /\ UNCHANGED row
    /\ UNCHANGED <<convVars, sendVars, queue, lock, boundVars>>

(* The end of a failure: the lock, if it is held, is released next. *)
EndFailure(w) ==
    IF lock = w
    THEN /\ GoTo(w, "release")
         /\ seen' = [seen EXCEPT ![w] = Absent]
         /\ UNCHANGED <<job, code>>
    ELSE Idle(w)

(* fail_assistant_message: its select. *)
SelectToFail(w) ==
    /\ at[w] = "fail"
    /\ IF Writable /\ row[job[w].turn].status # "completed"
       THEN /\ GoTo(w, "write_failure")
            /\ seen' = [seen EXCEPT ![w] = row[job[w].turn]]
            /\ UNCHANGED <<job, code>>
       ELSE EndFailure(w)
    /\ UNCHANGED <<convVars, sendVars, row, queue, lock, boundVars>>

(* fail_assistant_message: its commit; what a constraint refuses is lost.  *)
Fail(w) ==
    /\ at[w] = "write_failure"
    /\ LET new == FailedFrom(seen[w], row[job[w].turn], code[w])
       IN  row' = IF Allowed(new) THEN [row EXCEPT ![job[w].turn] = new]
                  ELSE row
    /\ EndFailure(w)
    /\ UNCHANGED <<convVars, sendVars, queue, lock, boundVars>>

(* Leaving advisory_session_lock. *)
Release(w) ==
    /\ at[w] = "release"
    /\ lock' = NoOne
    /\ Idle(w)
    /\ UNCHANGED <<convVars, sendVars, row, queue, boundVars>>

-----------------------------------------------------------------------------
(* refresh_conversation_title_task: no lock.                               *)

StartTitle(w, m) ==
    /\ at[w] = "idle"
    /\ m \in queue /\ m.kind = "title"
    /\ queue' = queue \ {m}
    /\ GoTo(w, "title_load")
    /\ job' = [job EXCEPT ![w] = m]
    /\ UNCHANGED <<convVars, sendVars, row, lock, seen, code, boundVars>>

(* load_conversation_title_context. *)
LoadTitle(w) ==
    /\ at[w] = "title_load"
    /\ IF Writable THEN GoTo(w, "title_ask") /\ UNCHANGED <<job, seen, code>>
       ELSE Idle(w)
    /\ UNCHANGED <<convVars, sendVars, row, queue, lock, boundVars>>

(* _conversation_title: a new title; the fallback again, or an error that  *)
(* ends the task; or a lost connection, retried a bounded number of times. *)
AskTitle(w) ==
    /\ at[w] = "title_ask"
    /\ \/ /\ GoTo(w, "title_read")
          /\ UNCHANGED <<queue, job, seen, code>>
       \/ /\ Idle(w)
          /\ UNCHANGED queue
       \/ /\ job[w].external < EXTERNAL_ERROR_MAX_RETRIES
          /\ queue' = queue \cup {[job[w] EXCEPT !.external = @ + 1]}
          /\ Idle(w)
    /\ UNCHANGED <<convVars, sendVars, row, lock, boundVars>>

(* update_conversation_title: its select compares the title with the one   *)
(* the first message left.                                                 *)
SelectTitle(w) ==
    /\ at[w] = "title_read"
    /\ IF Writable /\ title = Fallback(job[w].turn)
       THEN GoTo(w, "title_write") /\ UNCHANGED <<job, seen, code>>
       ELSE Idle(w)
    /\ UNCHANGED <<convVars, sendVars, row, queue, lock, boundVars>>

(* update_conversation_title: its commit compares nothing. *)
RefineTitle(w) ==
    /\ at[w] = "title_write"
    /\ title' = Refined(job[w].turn)
    /\ Idle(w)
    /\ UNCHANGED <<deleted, playable, sendVars, row, queue, lock, boundVars>>

-----------------------------------------------------------------------------
(* Faults of the API, of the broker and of the workers.                    *)

(* A message that is never run: the API dies between the commit and the    *)
(* delay, or a worker dies as it starts.                                   *)
DropMessage ==
    /\ Fault("dropped")
    /\ \E m \in queue : queue' = queue \ {m}
    /\ UNCHANGED <<convVars, sendVars, row, lock, taskVars>>

(* The process of a task dies: hard time limit, or killed.  Postgres drops *)
(* its connection and its lock; the message is acknowledged.               *)
Kill(w) ==
    /\ Fault("killed")
    /\ at[w] # "idle"
    /\ lock' = IF lock = w THEN NoOne ELSE lock
    /\ Idle(w)
    /\ UNCHANGED <<convVars, sendVars, row, queue>>

(* acks_late: a worker that loses Redis has its message delivered again    *)
(* while its task still runs.                                              *)
Redeliver(w) ==
    /\ Fault("redelivered")
    /\ at[w] # "idle"
    /\ queue' = queue \cup {job[w]}
    /\ UNCHANGED <<convVars, sendVars, row, lock, taskVars>>

-----------------------------------------------------------------------------
Request(t) == SendMessage(t) \/ AnnounceReply(t) \/ AnnounceTitle(t)

ReplyTask(w) ==
    \/ LoadReply(w) \/ Generate(w) \/ LoseConnection(w) \/ SoftTimeLimit(w)
    \/ SelectToComplete(w) \/ Complete(w) \/ SelectToFail(w) \/ Fail(w)
    \/ Release(w)

TitleTask(w) == LoadTitle(w) \/ AskTitle(w) \/ SelectTitle(w) \/ RefineTitle(w)

Start(w) == \E m \in queue : StartReply(w, m) \/ StartTitle(w, m)

Next ==
    \/ \E t \in Turns : CheckTurn(t) \/ Request(t)
    \/ \E w \in Workers :
         \/ Start(w)
         \/ ReplyTask(w)
         \/ TitleTask(w)
         \/ Kill(w)
         \/ Redeliver(w)
    \/ Rename
    \/ DeleteConversation
    \/ SwitchGame
    \/ DropMessage

Spec == Init /\ [][Next]_vars

(* The API ends the requests it accepted, workers run what they started,   *)
(* and the broker is first in first out: the messages of a reply do not    *)
(* wait for ever behind others.  The owner, the operator and the faults    *)
(* need do nothing.                                                        *)
Fairness ==
    /\ \A t \in Turns : WF_vars(Request(t))
    /\ \A w \in Workers : WF_vars(ReplyTask(w) \/ TitleTask(w))
    /\ \A t \in Turns :
         SF_vars(\E w \in Workers, m \in queue : m.turn = t /\ StartReply(w, m))

FairSpec == Spec /\ Fairness

-----------------------------------------------------------------------------
(* Properties.                                                             *)

(* Every variable stays in its domain. *)
TypeOK ==
    /\ deleted \in BOOLEAN
    /\ playable \in BOOLEAN
    /\ title \in Titles
    /\ send \in [Turns -> SendSteps]
    /\ sawNoTitle \in [Turns -> BOOLEAN]
    /\ row \in [Turns -> Rows]
    /\ queue \subseteq Messages
    /\ lock \in Workers \cup {NoOne}
    /\ at \in [Workers -> Steps]
    /\ job \in [Workers -> Messages \cup {NoJob}]
    /\ \A w \in Workers : at[w] = "idle" <=> job[w] = NoJob
    /\ seen \in [Workers -> Rows]
    /\ code \in [Workers -> ErrorCodes]
    /\ renames \in Nat
    /\ faults \in Nat

(* advisory_session_lock: one task at a time generates in a conversation,  *)
(* and no task that ended, failed or was killed keeps the lock, so that    *)
(* the next question is not refused for ever.                              *)
LockOwnership ==
    \A w \in Workers :
        /\ at[w] \in GenSteps => lock = w
        /\ lock = w => at[w] \in GenSteps \cup FailSteps

(* Who has compared the title and not yet written theirs: requests with a  *)
(* fallback, tasks with the title of the LLM.                              *)
Titling  == {t \in Turns : send[t] = "titling"}
Refining == {w \in Workers : at[w] = "title_write"}

(* A title the owner gave is kept: once it is committed, no request passes *)
(* the comparison of append_pending_message_pair with it, nor any task that*)
(* of update_conversation_title, whatever they had read of the conversation*)
(* before.  Only one that had compared already can still replace it, each  *)
(* once.                                                                   *)
OwnersTitleStays ==
    [][title = OwnerTitle =>
        /\ Titling' \subseteq Titling /\ Refining' \subseteq Refining
        /\ title' # OwnerTitle => <<Titling, Refining>>' # <<Titling, Refining>>]_vars

(* While every writer of a reply holds the lock, an answer given is not    *)
(* taken back: only a task that fails the reply without the lock can.      *)
LockedKeepsAnswers ==
    [][\A t \in Turns :
        row[t].status = "completed" /\ row'[t].status # "completed" =>
            \E w \in Workers : at[w] = "write_failure" /\ lock # w]_vars

(* However its tasks cross, are retried, repeated or killed, the           *)
(* conversation keeps what ReplyLifecycle promises: the lock is the        *)
(* generation of a turn, and whoever fails a reply without it gave up.     *)
Shown == [t \in Turns |-> row[t].status]

Generating == IF lock = NoOne THEN 0 ELSE job[lock].turn

GaveUp(w) == at[w] \in FailSteps /\ lock # w
GivenUp == {job[w].turn : w \in {v \in Workers : GaveUp(v)}}

Replies == INSTANCE ReplyLifecycle WITH
    NoTurn     <- 0,
    reply      <- Shown,
    generating <- Generating,
    givenUp    <- GivenUp

ImplementsReplies == Replies!Spec

(* Somebody will still settle the reply of the turn. *)
Underway(t) ==
    \/ \E m \in queue : m.kind = "reply" /\ m.turn = t
    \/ \E w \in Workers :
         /\ at[w] \in (GenSteps \cup FailSteps) \ {"release"}
         /\ job[w].turn = t

(* No reply stays pending: once nothing else goes wrong, one whose message *)
(* is queued or running is completed or failed, unless the conversation or *)
(* its game closes meanwhile.                                              *)
RepliesSettle ==
    \A t \in Turns :
        row[t].status = "pending" /\ Underway(t) /\ faults = MaxFaults
            ~> (row[t].status # "pending" \/ ~Writable)
=============================================================================
