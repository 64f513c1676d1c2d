--------------------------- MODULE MCConversations ---------------------------
(* TLC instance of Conversations: two workers of the "gpu" queue, so that  *)
(* the lock matters, and up to two questions of one conversation.          *)
EXTENDS Conversations, TLC

CONSTANTS w1, w2

MCWorkers == {w1, w2}

(* Two workers, both questions and every fault at once are millions of     *)
(* states.  The behaviours explored start where part of that is spent:     *)
(* one question to a conversation its owner has named, with MaxFaults      *)
(* faults to come; two questions to it; or the first question of a         *)
(* conversation without a title, which its owner may name.                 *)
Beginning(questions, named, spent) ==
    /\ deleted = FALSE
    /\ playable = TRUE
    /\ title = IF named THEN OwnerTitle ELSE NoTitle
    /\ send = [t \in Turns |-> IF t <= questions THEN "new" ELSE "done"]
    /\ sawNoTitle = [t \in Turns |-> FALSE]
    /\ row = [t \in Turns |-> Absent]
    /\ queue = {}
    /\ lock = NoOne
    /\ at = [w \in Workers |-> "idle"]
    /\ job = [w \in Workers |-> NoJob]
    /\ seen = [w \in Workers |-> Absent]
    /\ code = [w \in Workers |-> "none"]
    /\ renames = IF named THEN MaxRenames ELSE 0
    /\ faults = spent

MCInit ==
    \/ Beginning(1, TRUE, 0)
    \/ Beginning(2, TRUE, MaxFaults)
    \/ Beginning(1, FALSE, MaxFaults)

MCFairSpec == MCInit /\ [][Next]_vars /\ Fairness
=============================================================================
