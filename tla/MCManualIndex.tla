---------------------------- MODULE MCManualIndex ----------------------------
(* TLC instance of ManualIndex: two pages, two worker slots. *)
EXTENDS ManualIndex, TLC

CONSTANTS p1, p2, w1, w2

MCPages   == {p1, p2}
MCWorkers == {w1, w2}

(* Edits, reprocess requests and faults at once are millions of states.    *)
(* The behaviours explored start with a page of each kind, both with text, *)
(* where part of that is spent: MaxEdits edits and nothing that fails, or  *)
(* MaxReprocess requests among MaxFaults faults.                           *)
MCInit ==
    /\ page = [p \in Pages |-> IF p = p1 THEN "good" ELSE "doubtful"]
    /\ stored = Pages
    /\ texts = [p \in Pages |-> 1]
    /\ deleted = FALSE
    /\ status \in ResolvedStatuses
    /\ index = Chunks
    /\ lock = NoOne
    /\ editing = None
    /\ queue = {}
    /\ job = [w \in Workers |-> None]
    /\ late = {}
    /\ inventory = None
    /\ \/ edits = 0 /\ reprocessed = MaxReprocess /\ faults = MaxFaults
       \/ edits = MaxEdits /\ reprocessed = 0 /\ faults = 0

MCFairSpec == MCInit /\ [][Next]_vars /\ Fairness
=============================================================================
