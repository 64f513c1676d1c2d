------------------------- MODULE ConversationsProofs -------------------------
(***************************************************************************)
(* The lock of a conversation and the replies it protects: proofs, for any *)
(* number of workers, questions, repeated messages and retries.            *)
(***************************************************************************)
EXTENDS Conversations, TLAPS

(* A reply is not written before the commit of append_pending_message_pair.*)
Early == {"new", "checked", "sourced", "appending", "titling"}

Announced ==
    /\ \A t \in Turns : send[t] \in Early => row[t] = Absent
    /\ \A m \in queue : send[m.turn] \notin Early
    /\ \A w \in Workers : at[w] # "idle" => send[job[w].turn] \notin Early

(* Whoever fails a reply under the lock has found it open, and nobody else *)
(* has completed it since.                                                 *)
FailsOpenReplies ==
    \A w \in Workers :
        at[w] = "write_failure" /\ lock = w => row[job[w].turn].status # "completed"

IndInv == TypeOK /\ LockOwnership /\ Announced /\ FailsOpenReplies

USE DEF convVars, sendVars, taskVars, boundVars

-----------------------------------------------------------------------------
LEMMA Domains ==
    /\ Absent \in Rows /\ Pending \in Rows
    /\ Absent.status = "absent" /\ Pending.status = "pending"
    /\ NoJob \notin Messages
    /\ \A t \in Turns : /\ ReplyJob(t) \in Messages /\ ReplyJob(t).turn = t
                        /\ TitleJob(t) \in Messages /\ TitleJob(t).turn = t
                        /\ Fallback(t) \in Titles /\ Refined(t) \in Titles
    /\ NoTitle \in Titles /\ OwnerTitle \in Titles
  <1>1. /\ Absent \in Rows /\ Pending \in Rows
        /\ Absent.status = "absent" /\ Pending.status = "pending"
    BY DEF Absent, Pending, Rows, ErrorCodes
  <1>2. NoJob \notin Messages
    BY DEF NoJob, Messages
  <1>3. ASSUME NEW t \in Turns
        PROVE  /\ ReplyJob(t) \in Messages /\ ReplyJob(t).turn = t
               /\ TitleJob(t) \in Messages /\ TitleJob(t).turn = t
    BY BoundsAssumption DEF ReplyJob, TitleJob, Messages
  <1>4. ASSUME NEW t \in Turns PROVE Fallback(t) \in Titles /\ Refined(t) \in Titles
    BY DEF Fallback, Refined, Titles, Turns
  <1>5. NoTitle \in Titles /\ OwnerTitle \in Titles
    BY BoundsAssumption DEF NoTitle, OwnerTitle, Titles
  <1> QED
    BY <1>1, <1>2, <1>3, <1>4, <1>5

LEMMA Retried ==
    ASSUME NEW m \in Messages
    PROVE  /\ m.locked < LOCK_BUSY_MAX_RETRIES =>
                \E n \in Messages : n = [m EXCEPT !.locked = @ + 1] /\ n.turn = m.turn
           /\ m.external < EXTERNAL_ERROR_MAX_RETRIES =>
                \E n \in Messages : n = [m EXCEPT !.external = @ + 1] /\ n.turn = m.turn
  <1>1. ASSUME m.locked < LOCK_BUSY_MAX_RETRIES
        PROVE  /\ [m EXCEPT !.locked = @ + 1] \in Messages
               /\ [m EXCEPT !.locked = @ + 1].turn = m.turn
    BY <1>1, BoundsAssumption DEF Messages
  <1>2. ASSUME m.external < EXTERNAL_ERROR_MAX_RETRIES
        PROVE  /\ [m EXCEPT !.external = @ + 1] \in Messages
               /\ [m EXCEPT !.external = @ + 1].turn = m.turn
    BY <1>2, BoundsAssumption DEF Messages
  <1> QED
    BY <1>1, <1>2

LEMMA JobsAreMessages ==
    ASSUME TypeOK, NEW w \in Workers, at[w] # "idle"
    PROVE  job[w] \in Messages /\ job[w].turn \in Turns
  <1>1. job[w] \in Messages
    BY DEF TypeOK
  <1> QED
    BY <1>1 DEF Messages

LEMMA WrittenRows ==
    ASSUME NEW s \in Rows, NEW r \in Rows, NEW c \in ErrorCodes
    PROVE  /\ CompletedFrom(s, r) \in Rows /\ FailedFrom(s, r, c) \in Rows
           /\ FailedFrom(s, r, c).status \in {"failed", r.status}
  BY DEF CompletedFrom, FailedFrom, Rows, ErrorCodes

LEMMA InitInv == Init => IndInv
  <1> SUFFICES ASSUME Init PROVE IndInv
    OBVIOUS
  <1>1. TypeOK
    BY Domains DEF Init, TypeOK, SendSteps, Steps, GenSteps, FailSteps, ErrorCodes
  <1>2. LockOwnership
    BY WorkersAssumption DEF Init, LockOwnership, GenSteps, FailSteps
  <1>3. Announced /\ FailsOpenReplies
    BY Domains DEF Init, Announced, FailsOpenReplies
  <1> QED
    BY <1>1, <1>2, <1>3 DEF IndInv

-----------------------------------------------------------------------------
(* The owner, and faults that touch no task.                               *)

LEMMA RequestKeeps ==
    ASSUME IndInv,
           \/ \E t \in Turns : CheckTurn(t) \/ Request(t)
           \/ Rename \/ DeleteConversation \/ SwitchGame \/ DropMessage
    PROVE  IndInv'
  <1> USE Domains DEF IndInv, TypeOK, LockOwnership, Announced, FailsOpenReplies
  <1>1. ASSUME NEW t \in Turns, CheckTurn(t) PROVE IndInv'
    BY <1>1 DEF CheckTurn, SendTo, SendSteps, Early
  <1>2. ASSUME NEW t \in Turns, CheckSources(t) PROVE IndInv'
    BY <1>2 DEF CheckSources, SendTo, SendSteps, Early
  <1>3. ASSUME NEW t \in Turns, BeginAppend(t) PROVE IndInv'
    BY <1>3 DEF BeginAppend, SendTo, SendSteps, Early
  <1>4. ASSUME NEW t \in Turns, Append(t) PROVE IndInv'
    BY <1>4 DEF Append, SendTo, SendSteps, Early
  <1>5. ASSUME NEW t \in Turns, AnnounceReply(t) PROVE IndInv'
    BY <1>5 DEF AnnounceReply, SendTo, SendSteps, Early
  <1>6. ASSUME NEW t \in Turns, AnnounceTitle(t) PROVE IndInv'
    BY <1>6 DEF AnnounceTitle, SendTo, SendSteps, Early
  <1>7. CASE Rename
    BY <1>7 DEF Rename
  <1>8. CASE DeleteConversation \/ SwitchGame
    BY <1>8 DEF DeleteConversation, SwitchGame
  <1>9. CASE DropMessage
    BY <1>9 DEF DropMessage, Fault
  <1> HIDE DEF IndInv
  <1> QED
    BY <1>1, <1>2, <1>3, <1>4, <1>5, <1>6, <1>7, <1>8, <1>9 DEF Request, SendMessage

-----------------------------------------------------------------------------
(* Tasks.                                                                  *)

USE DEF GoTo, Idle, ToFail, Steps, GenSteps, FailSteps, TitleSteps

LEMMA StartKeeps ==
    ASSUME IndInv, NEW w \in Workers, Start(w)
    PROVE  IndInv'
  <1> USE Domains, WorkersAssumption
      DEF IndInv, TypeOK, LockOwnership, Announced, FailsOpenReplies
  <1>1. ASSUME NEW m \in queue, StartReply(w, m) PROVE IndInv'
    <2>1. CASE lock = NoOne
      BY <1>1, <2>1 DEF StartReply
    <2>2. CASE lock # NoOne /\ m.locked < LOCK_BUSY_MAX_RETRIES
      <3>1. PICK n \in Messages : n = [m EXCEPT !.locked = @ + 1] /\ n.turn = m.turn
        BY <2>2, Retried
      <3>2. queue' = (queue \ {m}) \cup {n} /\ UNCHANGED <<lock, at, job, seen, code>>
        BY <1>1, <2>2, <3>1 DEF StartReply
      <3>3. UNCHANGED <<convVars, sendVars, row, boundVars>>
        BY <1>1 DEF StartReply
      <3>4. n.turn = m.turn
        BY <3>1
      <3>5. TypeOK' /\ LockOwnership'
        BY <3>1, <3>2, <3>3
      <3>6. Announced'
        BY <3>2, <3>3, <3>4
      <3>7. FailsOpenReplies'
        BY <3>2, <3>3
      <3> QED
        BY <3>5, <3>6, <3>7
    <2>3. CASE lock # NoOne /\ ~(m.locked < LOCK_BUSY_MAX_RETRIES)
      BY <1>1, <2>3 DEF StartReply, ErrorCodes
    <2> QED
      BY <2>1, <2>2, <2>3
  <1>2. ASSUME NEW m \in queue, StartTitle(w, m) PROVE IndInv'
    BY <1>2 DEF StartTitle
  <1> QED
    BY <1>1, <1>2 DEF Start

LEMMA ReplyKeeps ==
    ASSUME IndInv, NEW w \in Workers, ReplyTask(w)
    PROVE  IndInv'
  <1> USE Domains, WorkersAssumption
      DEF IndInv, TypeOK, LockOwnership, Announced, FailsOpenReplies
  <1>0. ASSUME at[w] # "idle" PROVE job[w] \in Messages /\ job[w].turn \in Turns
    BY <1>0, JobsAreMessages
  <1>1. CASE LoadReply(w)
    BY <1>1 DEF LoadReply
  <1>2. CASE Generate(w)
    BY <1>2 DEF Generate, ErrorCodes, LlmAnswer, Texts
  <1>3. CASE LoseConnection(w)
    <2>1. CASE job[w].external < EXTERNAL_ERROR_MAX_RETRIES
      <3>1. PICK n \in Messages :
                n = [job[w] EXCEPT !.external = @ + 1] /\ n.turn = job[w].turn
        BY <1>0, <1>3, <2>1, Retried DEF LoseConnection
      <3>2. queue' = queue \cup {n}
        BY <1>3, <2>1, <3>1 DEF LoseConnection
      <3>3. /\ at' = [at EXCEPT ![w] = "idle"] /\ job' = [job EXCEPT ![w] = NoJob]
            /\ seen' = [seen EXCEPT ![w] = Absent] /\ code' = [code EXCEPT ![w] = "none"]
        BY <1>3, <2>1 DEF LoseConnection
      <3>4. /\ lock' = NoOne /\ lock = w /\ UNCHANGED <<convVars, sendVars, row, boundVars>>
            /\ at[w] # "idle"
        BY <1>3 DEF LoseConnection
      <3>5. TypeOK'
        BY <3>1, <3>2, <3>3, <3>4 DEF ErrorCodes
      <3>6. LockOwnership' /\ FailsOpenReplies'
        BY <3>3, <3>4
      <3>7. n.turn = job[w].turn
        BY <3>1
      <3>8. Announced'
        BY <3>2, <3>3, <3>4, <3>7
      <3> QED
        BY <3>5, <3>6, <3>8
    <2>2. CASE ~(job[w].external < EXTERNAL_ERROR_MAX_RETRIES)
      BY <1>3, <2>2 DEF LoseConnection, ErrorCodes
    <2> QED
      BY <2>1, <2>2
  <1>4. CASE SoftTimeLimit(w)
    BY <1>4 DEF SoftTimeLimit, ErrorCodes
  <1>5. CASE SelectToComplete(w)
    BY <1>0, <1>5 DEF SelectToComplete
  <1>6. CASE Complete(w)
    BY <1>0, <1>6, WrittenRows DEF Complete, ErrorCodes
  <1>7. CASE SelectToFail(w)
    BY <1>0, <1>7 DEF SelectToFail, EndFailure, ErrorCodes
  <1>8. CASE Fail(w)
    BY <1>0, <1>8, WrittenRows, SMTT(30) DEF Fail, EndFailure, ErrorCodes
  <1>9. CASE Release(w)
    BY <1>9 DEF Release, ErrorCodes
  <1> HIDE DEF IndInv
  <1> QED
    BY <1>1, <1>2, <1>3, <1>4, <1>5, <1>6, <1>7, <1>8, <1>9 DEF ReplyTask

LEMMA TitleKeeps ==
    ASSUME IndInv, NEW w \in Workers, TitleTask(w)
    PROVE  IndInv'
  <1> USE Domains, WorkersAssumption
      DEF IndInv, TypeOK, LockOwnership, Announced, FailsOpenReplies
  <1>0. ASSUME at[w] # "idle" PROVE job[w] \in Messages /\ job[w].turn \in Turns
    BY <1>0, JobsAreMessages
  <1>1. CASE LoadTitle(w)
    BY <1>1 DEF LoadTitle, ErrorCodes
  <1>2. CASE AskTitle(w)
    <2>1. CASE GoTo(w, "title_read") /\ UNCHANGED <<queue, job, seen, code>>
      BY <1>2, <2>1 DEF AskTitle
    <2>2. ASSUME Idle(w), NEW more \in SUBSET Messages, queue' = queue \cup more,
                 \A n \in more : n.turn = job[w].turn
          PROVE  IndInv'
      <3>1. TypeOK'
        BY <1>2, <2>2 DEF AskTitle, ErrorCodes
      <3>2. LockOwnership' /\ FailsOpenReplies'
        BY <1>2, <2>2 DEF AskTitle
      <3>3. Announced'
        BY <1>0, <1>2, <2>2 DEF AskTitle
      <3> QED
        BY <3>1, <3>2, <3>3
    <2>3. CASE Idle(w) /\ UNCHANGED queue
      <3>1. queue' = queue \cup {} /\ {} \in SUBSET Messages
        BY <2>3
      <3>2. \A n \in {} : n.turn = job[w].turn
        OBVIOUS
      <3> HIDE DEF IndInv, Idle
      <3> QED
        BY <2>2, <2>3, <3>1, <3>2, Zenon
    <2>4. CASE /\ job[w].external < EXTERNAL_ERROR_MAX_RETRIES
               /\ queue' = queue \cup {[job[w] EXCEPT !.external = @ + 1]}
               /\ Idle(w)
      <3>1. PICK n \in Messages :
                n = [job[w] EXCEPT !.external = @ + 1] /\ n.turn = job[w].turn
        BY <1>0, <1>2, <2>4, Retried DEF AskTitle
      <3>2. queue' = queue \cup {n} /\ Idle(w)
        BY <2>4, <3>1
      <3>3. {n} \in SUBSET Messages /\ \A k \in {n} : k.turn = job[w].turn
        BY <3>1
      <3> HIDE DEF IndInv, Idle
      <3> QED
        BY <2>2, <3>2, <3>3, Zenon
    <2> QED
      BY <1>2, <2>1, <2>3, <2>4 DEF AskTitle
  <1>3. CASE SelectTitle(w)
    BY <1>3 DEF SelectTitle, ErrorCodes
  <1>4. CASE RefineTitle(w)
    BY <1>0, <1>4 DEF RefineTitle, ErrorCodes
  <1> HIDE DEF IndInv
  <1> QED
    BY <1>1, <1>2, <1>3, <1>4 DEF TitleTask

LEMMA FaultKeeps ==
    ASSUME IndInv, NEW w \in Workers, Kill(w) \/ Redeliver(w)
    PROVE  IndInv'
  <1> USE Domains, WorkersAssumption
      DEF IndInv, TypeOK, LockOwnership, Announced, FailsOpenReplies, Fault
  <1>1. CASE Kill(w)
    BY <1>1 DEF Kill, ErrorCodes
  <1>2. CASE Redeliver(w)
    BY <1>2 DEF Redeliver
  <1> QED
    BY <1>1, <1>2

-----------------------------------------------------------------------------
LEMMA NextKeeps == IndInv /\ [Next]_vars => IndInv'
  <1> SUFFICES ASSUME IndInv, [Next]_vars PROVE IndInv'
    OBVIOUS
  <1>1. CASE UNCHANGED vars
    BY <1>1 DEF vars, IndInv, TypeOK, LockOwnership, Announced, FailsOpenReplies
  <1> QED
    BY <1>1, RequestKeeps, StartKeeps, ReplyKeeps, TitleKeeps, FaultKeeps DEF Next

THEOREM Invariance == Spec => []IndInv
  BY InitInv, NextKeeps, PTL DEF Spec

(* Every variable keeps its domain.                                        *)
THEOREM TypeCorrect == Spec => []TypeOK
  <1>1. IndInv => TypeOK
    BY DEF IndInv
  <1> QED
    BY <1>1, Invariance, PTL

(* generate_chat_reply_task generates under advisory_session_lock, and     *)
(* whatever ends it, the lock does not outlive it.                         *)
THEOREM LockIsOwned == Spec => []LockOwnership
  <1>1. IndInv => LockOwnership
    BY DEF IndInv
  <1> QED
    BY <1>1, Invariance, PTL

(* The owner's title is replaced only by who had compared it before: the   *)
(* second read of append_pending_message_pair and the comparison of        *)
(* update_conversation_title stop every later request and title task.      *)
THEOREM OwnersTitleIsKept == Spec => OwnersTitleStays
  <1> DEFINE Kept == /\ Titling' \subseteq Titling /\ Refining' \subseteq Refining
                     /\ title' # OwnerTitle =>
                          <<Titling, Refining>>' # <<Titling, Refining>>
  <1>0. OwnerTitle # NoTitle /\ \A t \in Turns : OwnerTitle # Fallback(t)
    BY DEF OwnerTitle, NoTitle, Fallback
  <1>1. ASSUME IndInv, [Next]_vars, title = OwnerTitle PROVE Kept
    <2> USE DEF IndInv, TypeOK, Titling, Refining
    <2>1. CASE \/ UNCHANGED vars \/ DeleteConversation \/ SwitchGame \/ DropMessage
               \/ Rename
      BY <1>1, <2>1 DEF vars, DeleteConversation, SwitchGame, DropMessage, Rename
    <2>2. ASSUME NEW t \in Turns, CheckTurn(t) \/ Request(t) PROVE Kept
      <3>1. CASE Append(t)
        BY <1>1, <3>1 DEF Append, SendTo
      <3>2. CASE BeginAppend(t)
        BY <1>0, <1>1, <3>2 DEF BeginAppend, SendTo
      <3>3. CASE \/ CheckTurn(t) \/ CheckSources(t) \/ AnnounceReply(t)
                 \/ AnnounceTitle(t)
        BY <1>1, <3>3 DEF CheckTurn, CheckSources, AnnounceReply, AnnounceTitle, SendTo
      <3> QED
        BY <2>2, <3>1, <3>2, <3>3 DEF Request, SendMessage
    <2>3. ASSUME NEW w \in Workers, TitleTask(w) PROVE Kept
      <3>1. CASE RefineTitle(w)
        BY <1>1, <3>1 DEF RefineTitle
      <3>2. CASE SelectTitle(w)
        <4>1. job[w].turn \in Turns
          BY <1>1, <3>2, JobsAreMessages DEF SelectTitle
        <4> QED
          BY <1>0, <1>1, <3>2, <4>1 DEF SelectTitle
      <3>3. CASE LoadTitle(w) \/ AskTitle(w)
        BY <1>1, <3>3 DEF LoadTitle, AskTitle
      <3> QED
        BY <2>3, <3>1, <3>2, <3>3 DEF TitleTask
    <2>4. ASSUME NEW w \in Workers, Start(w) \/ Kill(w) \/ Redeliver(w) PROVE Kept
      BY <1>1, <2>4 DEF Start, StartReply, StartTitle, Kill, Redeliver
    <2>5. ASSUME NEW w \in Workers, ReplyTask(w) PROVE Kept
      BY <1>1, <2>5
         DEF ReplyTask, LoadReply, Generate, LoseConnection, SoftTimeLimit,
             SelectToComplete, Complete, SelectToFail, Fail, EndFailure, Release
    <2> HIDE DEF Kept
    <2> QED
      BY <1>1, <2>1, <2>2, <2>3, <2>4, <2>5 DEF Next
  <1>2. IndInv /\ [Next]_vars => [title = OwnerTitle => Kept]_vars
    BY <1>1
  <1> QED
    BY <1>2, Invariance, PTL DEF Spec, OwnersTitleStays

(* Only three commits write a reply.                                       *)
LEMMA ReplyWriters ==
    ASSUME Next, row' # row
    PROVE  \/ \E t \in Turns : Append(t)
           \/ \E w \in Workers : Complete(w) \/ Fail(w)
  <1>1. CASE \/ Rename \/ DeleteConversation \/ SwitchGame \/ DropMessage
             \/ \E s \in Turns :
                  \/ CheckTurn(s) \/ CheckSources(s) \/ BeginAppend(s)
                  \/ AnnounceReply(s) \/ AnnounceTitle(s)
    BY <1>1
       DEF Rename, DeleteConversation, SwitchGame, DropMessage,
           CheckTurn, CheckSources, BeginAppend, AnnounceReply, AnnounceTitle
  <1>2. ASSUME NEW w \in Workers,
               \/ Start(w) \/ TitleTask(w) \/ Kill(w) \/ Redeliver(w)
               \/ LoadReply(w) \/ Generate(w) \/ LoseConnection(w) \/ SoftTimeLimit(w)
               \/ SelectToComplete(w) \/ SelectToFail(w) \/ Release(w)
        PROVE  row' = row
    BY <1>2
       DEF Start, StartReply, StartTitle, TitleTask, LoadTitle, AskTitle, SelectTitle,
           RefineTitle, Kill, Redeliver, LoadReply, Generate, LoseConnection,
           SoftTimeLimit, SelectToComplete, SelectToFail, Release
  <1> QED
    BY <1>1, <1>2 DEF Next, Request, SendMessage, ReplyTask

(* Only a task that gave up waiting for the lock, or lost it, can turn a   *)
(* completed reply into a failed one.                                      *)
THEOREM AnswersAreKept == Spec => LockedKeepsAnswers
  <1>1. ASSUME IndInv, [Next]_vars, NEW t \in Turns,
               row[t].status = "completed", row'[t].status # "completed"
        PROVE  \E w \in Workers : at[w] = "write_failure" /\ lock # w
    <2> USE DEF IndInv, TypeOK, Announced, FailsOpenReplies, GoTo, Idle, ToFail
    <2>1. CASE row' = row
      BY <1>1, <2>1
    <2>2. ASSUME NEW s \in Turns, Append(s) PROVE FALSE
      BY <1>1, <2>2, Domains DEF Append, Early
    <2>3. ASSUME NEW w \in Workers, Complete(w) PROVE FALSE
      BY <1>1, <2>3 DEF Complete, CompletedFrom
    <2>4. ASSUME NEW w \in Workers, Fail(w)
          PROVE  at[w] = "write_failure" /\ lock # w
      <3>1. job[w].turn \in Turns
        BY <1>1, <2>4, JobsAreMessages DEF Fail
      <3>2. at[w] = "write_failure" /\ job[w].turn = t
        BY <1>1, <2>4, <3>1 DEF Fail
      <3> QED
        BY <1>1, <3>2
    <2>5. CASE UNCHANGED vars
      BY <1>1, <2>5 DEF vars
    <2> QED
      BY <1>1, <2>1, <2>2, <2>3, <2>4, <2>5, ReplyWriters
  <1>2. IndInv /\ [Next]_vars =>
            [\A t \in Turns :
                row[t].status = "completed" /\ row'[t].status # "completed" =>
                    \E w \in Workers : at[w] = "write_failure" /\ lock # w]_vars
    BY <1>1
  <1> QED
    BY <1>2, Invariance, PTL DEF Spec, LockedKeepsAnswers

-----------------------------------------------------------------------------
(* The conversation implements ReplyLifecycle.                             *)

(* A reply somebody may settle is stored.                                  *)
Waiting(t) ==
    \/ send[t] \in {"stored", "announced"}
    \/ \E m \in queue : m.turn = t
    \/ \E w \in Workers : at[w] # "idle" /\ job[w].turn = t

Stored == \A t \in Turns : Waiting(t) => row[t].status # "absent"

(* And none takes it back.                                                 *)
LEMMA RowsStay ==
    ASSUME IndInv, Next, NEW t \in Turns, row[t].status # "absent"
    PROVE  row'[t].status # "absent"
  <1> USE DEF IndInv, TypeOK
  <1>1. CASE row' = row
    BY <1>1
  <1>2. ASSUME NEW s \in Turns, Append(s) PROVE row'[t].status # "absent"
    BY <1>2, Domains DEF Append
  <1>3. ASSUME NEW w \in Workers, Complete(w) PROVE row'[t].status # "absent"
    BY <1>3 DEF Complete, CompletedFrom
  <1>4. ASSUME NEW w \in Workers, Fail(w) PROVE row'[t].status # "absent"
    <2>1. job[w].turn \in Turns
      BY <1>4, JobsAreMessages DEF Fail
    <2>2. FailedFrom(seen[w], row[t], code[w]).status \in {"failed", row[t].status}
      BY WrittenRows
    <2> QED
      BY <1>4, <2>1, <2>2 DEF Fail
  <1> QED
    BY <1>1, <1>2, <1>3, <1>4, ReplyWriters

(* Whoever waits for a reply was waiting for it before, except the request *)
(* that has just stored it.                                                *)
LEMMA WaitsOn ==
    ASSUME IndInv, Next, NEW t \in Turns, Waiting(t)'
    PROVE  Waiting(t) \/ Append(t)
  <1> USE DEF IndInv, TypeOK, Waiting
  <1>1. ASSUME NEW s \in Turns, CheckTurn(s) \/ Request(s)
        PROVE  Waiting(t) \/ Append(t)
    <2>1. CASE CheckTurn(s) \/ CheckSources(s) \/ BeginAppend(s)
      BY <2>1 DEF CheckTurn, CheckSources, BeginAppend, SendTo
    <2>2. CASE Append(s)
      BY <2>2 DEF Append, SendTo
    <2>3. CASE AnnounceReply(s) \/ AnnounceTitle(s)
      BY <2>3, Domains DEF AnnounceReply, AnnounceTitle, SendTo
    <2> QED
      BY <1>1, <2>1, <2>2, <2>3 DEF Request, SendMessage
  <1>2. CASE Rename \/ DeleteConversation \/ SwitchGame \/ DropMessage
    BY <1>2 DEF Rename, DeleteConversation, SwitchGame, DropMessage
  <1>3. ASSUME NEW w \in Workers, Start(w) PROVE Waiting(t)
    <2>1. ASSUME NEW m \in queue, StartReply(w, m) PROVE Waiting(t)
      <3>1. CASE lock # NoOne /\ m.locked < LOCK_BUSY_MAX_RETRIES
        <4>1. PICK n \in Messages : n = [m EXCEPT !.locked = @ + 1] /\ n.turn = m.turn
          BY <3>1, Retried
        <4>2. queue' = (queue \ {m}) \cup {n} /\ UNCHANGED <<send, at, job>>
          BY <2>1, <3>1, <4>1 DEF StartReply
        <4>3. n.turn = m.turn
          BY <4>1
        <4> QED
          BY <4>2, <4>3
      <3>2. CASE ~(lock # NoOne /\ m.locked < LOCK_BUSY_MAX_RETRIES)
        BY <2>1, <3>2 DEF StartReply
      <3> QED
        BY <3>1, <3>2
    <2>2. ASSUME NEW m \in queue, StartTitle(w, m) PROVE Waiting(t)
      BY <2>2 DEF StartTitle
    <2> QED
      BY <1>3, <2>1, <2>2 DEF Start
  <1>4. ASSUME NEW w \in Workers, at[w] # "idle",
               \A m \in queue' : m \in queue \/ m.turn = job[w].turn,
               UNCHANGED send,
               \A v \in Workers :
                   at'[v] # "idle" => at[v] # "idle" /\ job'[v] = job[v]
        PROVE  Waiting(t)
    BY <1>4
  <1>5. ASSUME NEW w \in Workers, ReplyTask(w) \/ TitleTask(w) \/ Kill(w) \/ Redeliver(w)
        PROVE  /\ UNCHANGED send
               /\ \A v \in Workers :
                    at'[v] # "idle" => at[v] # "idle" /\ job'[v] = job[v]
               /\ at[w] # "idle"
    <2>1. CASE LoadReply(w) \/ Generate(w) \/ LoseConnection(w) \/ SoftTimeLimit(w)
      BY <2>1 DEF LoadReply, Generate, LoseConnection, SoftTimeLimit
    <2>2. CASE SelectToComplete(w) \/ Complete(w) \/ SelectToFail(w) \/ Fail(w) \/ Release(w)
      BY <2>2 DEF SelectToComplete, Complete, SelectToFail, Fail, Release, EndFailure
    <2>3. CASE TitleTask(w)
      BY <2>3 DEF TitleTask, LoadTitle, AskTitle, SelectTitle, RefineTitle
    <2>4. CASE Kill(w) \/ Redeliver(w)
      BY <2>4 DEF Kill, Redeliver
    <2> QED
      BY <1>5, <2>1, <2>2, <2>3, <2>4 DEF ReplyTask
  <1>6. ASSUME NEW w \in Workers, ReplyTask(w) \/ TitleTask(w) \/ Kill(w) \/ Redeliver(w)
        PROVE  \A m \in queue' : m \in queue \/ m.turn = job[w].turn
    <2>1. CASE UNCHANGED queue
      BY <2>1
    <2>2. CASE Redeliver(w)
      BY <2>2 DEF Redeliver
    <2>3. CASE /\ job[w].external < EXTERNAL_ERROR_MAX_RETRIES
               /\ queue' = queue \cup {[job[w] EXCEPT !.external = @ + 1]}
      <3>1. job[w] \in Messages
        BY <1>5, <1>6, JobsAreMessages
      <3>2. PICK n \in Messages :
                n = [job[w] EXCEPT !.external = @ + 1] /\ n.turn = job[w].turn
        BY <2>3, <3>1, Retried
      <3>3. n.turn = job[w].turn
        BY <3>2
      <3> QED
        BY <2>3, <3>2, <3>3
    <2> QED
      BY <1>6, <2>1, <2>2, <2>3
         DEF ReplyTask, TitleTask, LoadReply, Generate, LoseConnection, SoftTimeLimit,
             SelectToComplete, Complete, SelectToFail, Fail, Release,
             LoadTitle, AskTitle, SelectTitle, RefineTitle, Kill
  <1> HIDE DEF IndInv, Waiting
  <1> QED
    BY <1>1, <1>2, <1>3, <1>4, <1>5, <1>6 DEF Next

LEMMA StoredKeeps == IndInv /\ Stored /\ [Next]_vars => Stored'
  <1> SUFFICES ASSUME IndInv, Stored, [Next]_vars PROVE Stored'
    OBVIOUS
  <1>1. CASE UNCHANGED vars
    BY <1>1 DEF vars, Stored, Waiting
  <1>2. ASSUME Next, NEW t \in Turns, Waiting(t)' PROVE row'[t].status # "absent"
    <2>1. CASE Waiting(t)
      BY <1>2, <2>1, RowsStay DEF Stored
    <2>2. CASE Append(t)
      BY <2>2, Domains DEF Append, IndInv, TypeOK
    <2> QED
      BY <1>2, <2>1, <2>2, WaitsOn
  <1> QED
    BY <1>1, <1>2 DEF Stored

LEMMA StoredInvariance == Spec => []Stored
  <1>1. Init => Stored
    BY DEF Init, Stored, Waiting
  <1> QED
    BY <1>1, StoredKeeps, Invariance, PTL DEF Spec

-----------------------------------------------------------------------------
(* How a step of one worker moves what the abstract reply lifecycle sees.  *)

Only(w) == \A v \in Workers \ {w} : at'[v] = at[v] /\ job'[v] = job[v]

LEMMA GivenUpMoves ==
    ASSUME IndInv, NEW w \in Workers, Only(w),
           \A v \in Workers \ {w} : (lock' # v) = (lock # v)
    PROVE  /\ ~GaveUp(w) /\ ~GaveUp(w)' => GivenUp' = GivenUp
           /\ ~GaveUp(w) /\ GaveUp(w)' => GivenUp' = GivenUp \cup {job'[w].turn}
           /\ GaveUp(w) /\ ~GaveUp(w)' =>
                GivenUp' = GivenUp \/ GivenUp' = GivenUp \ {job[w].turn}
           /\ GaveUp(w) /\ GaveUp(w)' /\ job'[w] = job[w] => GivenUp' = GivenUp
  <1> DEFINE Others == {job[v].turn : v \in {u \in Workers \ {w} : GaveUp(u)}}
  <1>1. \A v \in Workers \ {w} : GaveUp(v)' = GaveUp(v) /\ job'[v] = job[v]
    BY DEF Only, GaveUp
  <1>2. GivenUp = Others \cup (IF GaveUp(w) THEN {job[w].turn} ELSE {})
    BY DEF GivenUp
  <1>3. GivenUp' = Others \cup (IF GaveUp(w)' THEN {job'[w].turn} ELSE {})
    BY <1>1 DEF GivenUp
  <1> HIDE DEF Others, GivenUp, GaveUp
  <1> QED
    BY <1>2, <1>3

LEMMA HolderWorks ==
    ASSUME IndInv, NEW w \in Workers, lock = w
    PROVE  /\ at[w] \in GenSteps \cup FailSteps
           /\ Generating = job[w].turn /\ job[w].turn \in Turns
  <1>1. at[w] \in GenSteps \cup FailSteps
    BY DEF IndInv, LockOwnership
  <1>2. at[w] # "idle"
    BY <1>1
  <1>3. job[w].turn \in Turns
    BY <1>2, JobsAreMessages DEF IndInv
  <1> QED
    BY <1>1, <1>3, WorkersAssumption DEF Generating

LEMMA NobodyGenerates ==
    ASSUME IndInv
    PROVE  Generating = 0 <=> lock = NoOne
  <1>1. lock \in Workers \cup {NoOne}
    BY DEF IndInv, TypeOK
  <1>2. CASE lock \in Workers
    BY <1>2, HolderWorks, WorkersAssumption DEF Turns
  <1>3. CASE lock = NoOne
    BY <1>3 DEF Generating
  <1> QED
    BY <1>1, <1>2, <1>3

Mapping == [Replies!Next]_(Replies!vars)

(* A step that changes neither replies, nor the lock's turn, nor who gave  *)
(* up, is not seen.                                                        *)
LEMMA Unseen ==
    ASSUME UNCHANGED <<Shown, Generating, GivenUp>>
    PROVE  Mapping
  BY DEF Mapping, Replies!vars

LEMMA RequestMaps ==
    ASSUME IndInv,
           \/ \E t \in Turns : CheckTurn(t) \/ Request(t)
           \/ Rename \/ DeleteConversation \/ SwitchGame \/ DropMessage
    PROVE  Mapping
  <1>1. ASSUME NEW t \in Turns, Append(t) PROVE Mapping
    <2>1. Shown[t] = "absent" /\ Shown' = [Shown EXCEPT ![t] = "pending"]
      BY <1>1, Domains DEF Append, Shown, IndInv, TypeOK, Announced, Early
    <2>2. UNCHANGED <<Generating, GivenUp>>
      BY <1>1 DEF Append, Generating, GivenUp, GaveUp
    <2>3. Replies!Ask(t)
      BY <2>1, <2>2 DEF Replies!Ask
    <2> QED
      BY <2>3 DEF Mapping, Replies!Next
  <1>2. CASE UNCHANGED <<row, lock, at, job>>
    BY <1>2, Unseen DEF Shown, Generating, GivenUp, GaveUp
  <1>3. CASE \/ Rename \/ DeleteConversation \/ SwitchGame \/ DropMessage
             \/ \E t \in Turns : \/ CheckTurn(t) \/ CheckSources(t) \/ BeginAppend(t)
                                 \/ AnnounceReply(t) \/ AnnounceTitle(t)
    <2>1. UNCHANGED <<row, lock, at, job>>
      BY <1>3 DEF Rename, DeleteConversation, SwitchGame, DropMessage, CheckTurn,
             CheckSources, BeginAppend, AnnounceReply, AnnounceTitle
    <2> QED
      BY <1>2, <2>1
  <1> QED
    BY <1>1, <1>3 DEF Request, SendMessage

LEMMA StartMaps ==
    ASSUME IndInv, Stored, NEW w \in Workers, Start(w)
    PROVE  Mapping
  <1>1. ASSUME NEW m \in queue, StartReply(w, m) PROVE Mapping
    <2>0. m.turn \in Turns /\ Shown[m.turn] # "absent"
      BY DEF IndInv, TypeOK, Stored, Waiting, Messages, Shown
    <2>1. ~GaveUp(w) /\ lock # w
      BY <1>1 DEF StartReply, GaveUp, IndInv, LockOwnership
    <2>2. UNCHANGED Shown
      BY <1>1 DEF StartReply, Shown
    <2>3. CASE lock = NoOne
      <3>1. /\ lock' = w /\ at' = [at EXCEPT ![w] = "load"]
            /\ job' = [job EXCEPT ![w] = m]
        BY <1>1, <2>3 DEF StartReply
      <3>2. Generating = 0 /\ Generating' = m.turn
        BY <2>3, <3>1, WorkersAssumption DEF Generating, IndInv, TypeOK
      <3>3. ~GaveUp(w)' /\ Only(w)
        BY <3>1 DEF GaveUp, Only, IndInv, TypeOK
      <3>4. GivenUp' = GivenUp
        BY <2>1, <2>3, <3>1, <3>3, GivenUpMoves, WorkersAssumption
      <3>5. Replies!Begin(m.turn)
        BY <2>0, <2>2, <3>2, <3>4 DEF Replies!Begin
      <3> QED
        BY <2>0, <3>5 DEF Mapping, Replies!Next
    <2>4. CASE lock # NoOne /\ m.locked < LOCK_BUSY_MAX_RETRIES
      BY <1>1, <2>2, <2>4, Unseen DEF StartReply, Generating, GivenUp, GaveUp
    <2>5. CASE lock # NoOne /\ ~(m.locked < LOCK_BUSY_MAX_RETRIES)
      <3>1. /\ lock' = lock /\ at' = [at EXCEPT ![w] = "fail"]
            /\ job' = [job EXCEPT ![w] = m]
        BY <1>1, <2>5 DEF StartReply
      <3>2. Generating # 0 /\ Generating' = Generating
        BY <2>1, <2>5, <3>1, NobodyGenerates DEF Generating, IndInv, TypeOK
      <3>3. GaveUp(w)' /\ Only(w) /\ job'[w] = m
        BY <2>1, <3>1 DEF GaveUp, Only, IndInv, TypeOK
      <3>4. GivenUp' = GivenUp \cup {m.turn}
        BY <2>1, <3>1, <3>3, GivenUpMoves
      <3>5. Replies!GiveUp(m.turn)
        BY <2>0, <2>2, <3>2, <3>4 DEF Replies!GiveUp
      <3> QED
        BY <2>0, <3>5 DEF Mapping, Replies!Next
    <2> QED
      BY <2>3, <2>4, <2>5
  <1>2. ASSUME NEW m \in queue, StartTitle(w, m) PROVE Mapping
    <2>1. /\ UNCHANGED <<row, lock>> /\ at' = [at EXCEPT ![w] = "title_load"]
          /\ job' = [job EXCEPT ![w] = m]
          /\ at[w] = "idle" /\ lock # w
      BY <1>2 DEF StartTitle, IndInv, LockOwnership
    <2>2. Only(w) /\ ~GaveUp(w) /\ ~GaveUp(w)'
      BY <2>1 DEF Only, GaveUp, IndInv, TypeOK
    <2>3. GivenUp' = GivenUp
      BY <2>1, <2>2, GivenUpMoves
    <2>4. UNCHANGED <<Shown, Generating>>
      BY <2>1 DEF Shown, Generating, IndInv, TypeOK
    <2> QED
      BY <2>3, <2>4, Unseen
  <1> QED
    BY <1>1, <1>2 DEF Start

(* A worker that keeps its message and the lock as they are shows nothing  *)
(* but the reply it writes.                                                *)
LEMMA SameTurn ==
    ASSUME IndInv, NEW w \in Workers, Only(w), lock' = lock, job'[w] = job[w],
           GaveUp(w)' <=> GaveUp(w)
    PROVE  UNCHANGED <<Generating, GivenUp>>
  <1>1. UNCHANGED Generating
    BY DEF Generating, Only, IndInv, TypeOK
  <1>2. UNCHANGED GivenUp
    BY GivenUpMoves
  <1> QED
    BY <1>1, <1>2

(* The holder of the lock leaves it, done or to fail its reply.            *)
LEMMA LockLeft ==
    ASSUME IndInv, NEW w \in Workers, Only(w), lock = w, lock' = NoOne,
           GaveUp(w)' => job'[w].turn = job[w].turn, UNCHANGED row
    PROVE  Mapping
  <1>1. Generating = job[w].turn /\ job[w].turn \in Turns
    BY HolderWorks
  <1>2. Generating' = 0
    BY DEF Generating
  <1>3. ~GaveUp(w) /\ \A v \in Workers \ {w} : (lock' # v) = (lock # v)
    BY WorkersAssumption DEF GaveUp
  <1>4. GivenUp' \in {GivenUp, GivenUp \cup {job[w].turn}}
    BY <1>3, GivenUpMoves
  <1>5. Replies!End(job[w].turn)
    BY <1>1, <1>2, <1>4 DEF Replies!End, Shown
  <1> QED
    BY <1>1, <1>5 DEF Mapping, Replies!Next

(* Who gave up without the lock is done.                                   *)
LEMMA GivenUpSettled ==
    ASSUME IndInv, NEW w \in Workers, Only(w), lock' = lock, GaveUp(w), ~GaveUp(w)',
           job[w].turn \in Turns,
           Shown' \in {Shown, [Shown EXCEPT ![job[w].turn] = "failed"]}
    PROVE  Mapping
  <1>1. UNCHANGED Generating
    BY DEF Generating, GaveUp, Only, IndInv, TypeOK
  <1>2. GivenUp' = GivenUp \/ GivenUp' = GivenUp \ {job[w].turn}
    BY GivenUpMoves
  <1>3. job[w].turn \in GivenUp
    BY DEF GivenUp
  <1>4. Replies!FailGivenUp(job[w].turn)
    BY <1>1, <1>2, <1>3 DEF Replies!FailGivenUp
  <1> QED
    BY <1>4 DEF Mapping, Replies!Next

LEMMA CompleteMaps ==
    ASSUME IndInv, Stored, NEW w \in Workers, Complete(w)
    PROVE  Mapping
  <1> DEFINE t   == job[w].turn
             new == CompletedFrom(seen[w], row[t])
  <1>1. /\ lock = w /\ lock' = lock /\ job' = job /\ at[w] = "write"
        /\ t \in Turns /\ Generating = t
    BY HolderWorks DEF Complete, IndInv, LockOwnership
  <1>2. Only(w) /\ ~GaveUp(w) /\ ~GaveUp(w)'
    BY <1>1 DEF Complete, Only, GaveUp, IndInv, TypeOK
  <1>3. UNCHANGED <<Generating, GivenUp>>
    BY <1>1, <1>2, SameTurn
  <1>4. CASE Allowed(new)
    <2>0. new.status = "completed"
      BY DEF CompletedFrom
    <2>1. Shown' = [Shown EXCEPT ![t] = "completed"]
      <3>1. row' = [row EXCEPT ![t] = new] /\ row \in [Turns -> Rows]
        BY <1>4 DEF Complete, IndInv, TypeOK
      <3> HIDE DEF new
      <3> QED
        BY <1>1, <2>0, <3>1 DEF Shown
    <2>2. CASE Shown[t] \in {"pending", "failed"}
      <3>1. Replies!Answer(t)
        BY <1>1, <1>3, <2>1, <2>2 DEF Replies!Answer, Replies!Open
      <3> QED
        BY <1>1, <3>1 DEF Mapping, Replies!Next
    <2>3. CASE Shown[t] = "completed"
      BY <1>3, <2>1, <2>3, Unseen DEF Shown
    <2>4. Shown[t] # "absent"
      BY <1>1 DEF Shown, Stored, Waiting
    <2> QED
      BY <1>1, <2>2, <2>3, <2>4 DEF Shown, IndInv, TypeOK, Rows
  <1>5. CASE ~Allowed(new)
    BY <1>3, <1>5, Unseen DEF Complete, Shown
  <1> QED
    BY <1>4, <1>5

LEMMA EndFailureMoves ==
    ASSUME IndInv, NEW w \in Workers, at[w] \in FailSteps, EndFailure(w), UNCHANGED lock
    PROVE  /\ Only(w) /\ ~GaveUp(w)'
           /\ lock = w => ~GaveUp(w) /\ job' = job
           /\ lock # w => GaveUp(w)
  BY DEF EndFailure, Only, GaveUp, IndInv, TypeOK

LEMMA SelectToFailMaps ==
    ASSUME IndInv, NEW w \in Workers, SelectToFail(w)
    PROVE  Mapping
  <1>1. /\ UNCHANGED <<row, lock>> /\ at[w] = "fail" /\ job[w].turn \in Turns
    BY JobsAreMessages DEF SelectToFail, IndInv
  <1>2. UNCHANGED Shown
    BY <1>1 DEF Shown
  <1>3. CASE /\ at' = [at EXCEPT ![w] = "write_failure"] /\ job' = job
    <2>1. Only(w) /\ (GaveUp(w)' <=> GaveUp(w))
      BY <1>1, <1>3 DEF Only, GaveUp, IndInv, TypeOK
    <2> QED
      BY <1>1, <1>2, <1>3, <2>1, SameTurn, Unseen
  <1>4. CASE EndFailure(w)
    <2>1. CASE lock = w
      <3>1. UNCHANGED <<Generating, GivenUp>>
        BY <1>1, <1>4, <2>1, EndFailureMoves, SameTurn
      <3> QED
        BY <1>2, <3>1, Unseen
    <2>2. CASE lock # w
      BY <1>1, <1>2, <1>4, <2>2, EndFailureMoves, GivenUpSettled
    <2> QED
      BY <2>1, <2>2
  <1> QED
    BY <1>3, <1>4 DEF SelectToFail

LEMMA FailMaps ==
    ASSUME IndInv, Stored, NEW w \in Workers, Fail(w)
    PROVE  Mapping
  <1> DEFINE t == job[w].turn
  <1>1. /\ UNCHANGED lock /\ at[w] = "write_failure" /\ t \in Turns /\ EndFailure(w)
    BY JobsAreMessages DEF Fail, IndInv
  <1>2. FailedFrom(seen[w], row[t], code[w]).status \in {"failed", row[t].status}
    BY <1>1, WrittenRows DEF IndInv, TypeOK
  <1>3. Shown' \in {Shown, [Shown EXCEPT ![t] = "failed"]}
    BY <1>1, <1>2 DEF Fail, Shown, IndInv, TypeOK
  <1>4. CASE lock = w
    <2>1. UNCHANGED <<Generating, GivenUp>>
      BY <1>1, <1>4, EndFailureMoves, SameTurn
    <2>2. Generating = t
      BY <1>4, HolderWorks
    <2>3. Shown[t] \in {"pending", "failed"}
      BY <1>1, <1>4 DEF Shown, Stored, Waiting, IndInv, FailsOpenReplies, TypeOK, Rows
    <2>4. CASE Shown' = [Shown EXCEPT ![t] = "failed"]
      <3>1. Replies!Fail(t)
        BY <2>1, <2>2, <2>3, <2>4 DEF Replies!Fail, Replies!Open
      <3> QED
        BY <1>1, <3>1 DEF Mapping, Replies!Next
    <2>5. CASE Shown' = Shown
      BY <2>1, <2>5, Unseen
    <2> QED
      BY <1>3, <2>4, <2>5
  <1>5. CASE lock # w
    BY <1>1, <1>3, <1>5, EndFailureMoves, GivenUpSettled
  <1> QED
    BY <1>4, <1>5

LEMMA ReplyMaps ==
    ASSUME IndInv, Stored, NEW w \in Workers, ReplyTask(w)
    PROVE  Mapping
  <1> USE WorkersAssumption
  <1>1. CASE LoadReply(w) \/ SelectToComplete(w)
    <2>1. /\ UNCHANGED <<row, lock, job>> /\ Only(w) /\ lock = w
          /\ ~GaveUp(w) /\ ~GaveUp(w)'
      BY <1>1
         DEF LoadReply, SelectToComplete, Only, GaveUp, IndInv, TypeOK, LockOwnership
    <2> QED
      BY <2>1, SameTurn, Unseen DEF Shown
  <1>2. CASE Generate(w)
    <2>1. /\ UNCHANGED <<row, lock, job>> /\ Only(w) /\ lock = w
          /\ ~GaveUp(w) /\ ~GaveUp(w)'
      BY <1>2 DEF Generate, Only, GaveUp, IndInv, TypeOK, LockOwnership
    <2> QED
      BY <2>1, SameTurn, Unseen DEF Shown
  <1>3. CASE LoseConnection(w)
    <2>1. lock = w /\ lock' = NoOne /\ UNCHANGED row /\ Only(w)
      BY <1>3 DEF LoseConnection, Only, IndInv, TypeOK, LockOwnership
    <2>2. GaveUp(w)' => job'[w].turn = job[w].turn
      BY <1>3 DEF LoseConnection, GaveUp, IndInv, TypeOK
    <2> QED
      BY <2>1, <2>2, LockLeft
  <1>4. CASE SoftTimeLimit(w)
    <2>1. /\ lock = w /\ lock' \in {w, NoOne} /\ UNCHANGED <<row, job>> /\ Only(w)
          /\ ~GaveUp(w)
      BY <1>4 DEF SoftTimeLimit, Only, GaveUp, IndInv, TypeOK, LockOwnership
    <2>2. CASE lock' = w
      <3>1. ~GaveUp(w)'
        BY <2>2 DEF GaveUp
      <3> QED
        BY <2>1, <2>2, <3>1, SameTurn, Unseen DEF Shown
    <2>3. CASE lock' = NoOne
      BY <2>1, <2>3, LockLeft
    <2> QED
      BY <2>1, <2>2, <2>3
  <1>5. CASE Release(w)
    <2>1. lock = w /\ lock' = NoOne /\ UNCHANGED row /\ Only(w) /\ ~GaveUp(w)'
      BY <1>5 DEF Release, Only, GaveUp, IndInv, TypeOK, LockOwnership
    <2> QED
      BY <2>1, LockLeft
  <1>6. CASE Complete(w) \/ SelectToFail(w) \/ Fail(w)
    BY <1>6, CompleteMaps, SelectToFailMaps, FailMaps
  <1> QED
    BY <1>1, <1>2, <1>3, <1>4, <1>5, <1>6 DEF ReplyTask

(* The title is no part of the replies, and its task holds no lock.        *)
LEMMA TitleMaps ==
    ASSUME IndInv, NEW w \in Workers, TitleTask(w)
    PROVE  Mapping
  <1>1. at[w] \in TitleSteps /\ lock # w /\ ~GaveUp(w)
    BY DEF TitleTask, LoadTitle, AskTitle, SelectTitle, RefineTitle, GaveUp, IndInv,
           LockOwnership
  <1>2. UNCHANGED <<row, lock>> /\ Only(w) /\ ~GaveUp(w)'
    BY <1>1 DEF TitleTask, LoadTitle, AskTitle, SelectTitle, RefineTitle, GaveUp, Only,
                IndInv, TypeOK
  <1>3. UNCHANGED <<Shown, Generating>>
    BY <1>1, <1>2 DEF Shown, Generating, Only, IndInv, TypeOK
  <1>4. GivenUp' = GivenUp
    BY <1>1, <1>2, GivenUpMoves
  <1> QED
    BY <1>3, <1>4, Unseen

LEMMA FaultMaps ==
    ASSUME IndInv, NEW w \in Workers, Kill(w) \/ Redeliver(w)
    PROVE  Mapping
  <1>1. CASE Redeliver(w)
    BY <1>1, Unseen DEF Redeliver, Shown, Generating, GivenUp, GaveUp
  <1>2. CASE Kill(w)
    <2>1. UNCHANGED row /\ Only(w) /\ ~GaveUp(w)' /\ at[w] # "idle"
      BY <1>2 DEF Kill, Only, GaveUp, IndInv, TypeOK
    <2>2. CASE lock = w
      BY <1>2, <2>1, <2>2, LockLeft DEF Kill
    <2>3. CASE lock # w
      <3>1. lock' = lock
        BY <1>2, <2>3 DEF Kill
      <3>2. CASE GaveUp(w)
        <4>1. job[w].turn \in Turns
          BY <2>1, JobsAreMessages DEF IndInv
        <4> QED
          BY <2>1, <3>1, <3>2, <4>1, GivenUpSettled DEF Shown
      <3>3. CASE ~GaveUp(w)
        <4>1. GivenUp' = GivenUp
          BY <2>1, <3>1, <3>3, GivenUpMoves
        <4>2. UNCHANGED <<Shown, Generating>>
          BY <2>1, <2>3, <3>1 DEF Shown, Generating, Only, IndInv, TypeOK
        <4> QED
          BY <4>1, <4>2, Unseen
      <3> QED
        BY <3>2, <3>3
    <2> QED
      BY <2>2, <2>3
  <1> QED
    BY <1>1, <1>2

LEMMA NextMaps == IndInv /\ Stored /\ [Next]_vars => Mapping
  <1> SUFFICES ASSUME IndInv, Stored, [Next]_vars PROVE Mapping
    OBVIOUS
  <1>1. CASE UNCHANGED vars
    BY <1>1, Unseen DEF vars, Shown, Generating, GivenUp, GaveUp
  <1> QED
    BY <1>1, RequestMaps, StartMaps, ReplyMaps, TitleMaps, FaultMaps DEF Next

LEMMA InitMaps == Init => Replies!Init
  BY Domains DEF Init, Replies!Init, Shown, Generating, GivenUp, GaveUp

(* Whatever the order of the tasks, their retries, repeated messages and   *)
(* deaths, the owner sees what ReplyLifecycle promises: a reply is answered*)
(* only while its turn is the one being generated, and only who gave up on *)
(* a turn, after every retry, can take its answer back.                    *)
THEOREM RepliesAreImplemented == Spec => ImplementsReplies
  <1>1. IndInv /\ Stored /\ [Next]_vars => [Replies!Next]_(Replies!vars)
    BY NextMaps DEF Mapping
  <1> QED
    BY InitMaps, <1>1, Invariance, StoredInvariance, PTL
       DEF Spec, ImplementsReplies, Replies!Spec
=============================================================================
