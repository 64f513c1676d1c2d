---------------------------- MODULE ReplyLifecycle ----------------------------
(***************************************************************************)
(* What a conversation promises its owner about the replies, with no       *)
(* mention of tasks, messages or rows: one reply is generated at a time, a *)
(* reply is answered only while it is generated, and an answer is final    *)
(* unless somebody gave up on its turn without waiting for the others.     *)
(*                                                                         *)
(* Conversations is the detailed specification that implements this one.   *)
(***************************************************************************)
CONSTANTS
    Turns,          \* the questions of the conversation
    NoTurn          \* not a turn: nothing is generated

VARIABLES
    reply,          \* what the owner sees of each reply
    generating,     \* the turn whose reply is being generated
    givenUp         \* turns somebody is failing without waiting

vars == <<reply, generating, givenUp>>

Open == {"pending", "failed"}

Init ==
    /\ reply = [t \in Turns |-> "absent"]
    /\ generating = NoTurn
    /\ givenUp = {}

Ask(t) ==
    /\ reply[t] = "absent"
    /\ reply' = [reply EXCEPT ![t] = "pending"]
    /\ UNCHANGED <<generating, givenUp>>

Begin(t) ==
    /\ generating = NoTurn /\ reply[t] # "absent"
    /\ generating' = t
    /\ UNCHANGED <<reply, givenUp>>

Answer(t) ==
    /\ generating = t /\ reply[t] \in Open
    /\ reply' = [reply EXCEPT ![t] = "completed"]
    /\ UNCHANGED <<generating, givenUp>>

Fail(t) ==
    /\ generating = t /\ reply[t] \in Open
    /\ reply' = [reply EXCEPT ![t] = "failed"]
    /\ UNCHANGED <<generating, givenUp>>

(* The generation ends, or is left for somebody to fail it.                *)
End(t) ==
    /\ generating = t
    /\ generating' = NoTurn
    /\ givenUp' \in {givenUp, givenUp \cup {t}}
    /\ UNCHANGED reply

(* Another reply is still being generated after every retry.               *)
GiveUp(t) ==
    /\ generating # NoTurn /\ reply[t] # "absent"
    /\ givenUp' = givenUp \cup {t}
    /\ UNCHANGED <<reply, generating>>

(* Who gave up fails the reply, even one answered meanwhile, or leaves it. *)
FailGivenUp(t) ==
    /\ t \in givenUp
    /\ reply' \in {reply, [reply EXCEPT ![t] = "failed"]}
    /\ givenUp' \in {givenUp, givenUp \ {t}}
    /\ UNCHANGED generating

Next ==
    \E t \in Turns :
        \/ Ask(t) \/ Begin(t) \/ Answer(t) \/ Fail(t) \/ End(t)
        \/ GiveUp(t) \/ FailGivenUp(t)

Spec == Init /\ [][Next]_vars
=============================================================================
