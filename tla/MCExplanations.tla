--------------------------- MODULE MCExplanations ---------------------------
(* TLC instance of Explanations: two users and two manuals of a game, one  *)
(* shared and one that only its owner cites, two sections and two workers. *)
EXTENDS Explanations, TLC

CONSTANTS ana, eva, rules, notes, w1, w2

MCUsers == {ana, eva}
MCManuals == {rules, notes}
MCShared == {rules}
MCOwner == (rules :> ana) @@ (notes :> eva)
MCWorkers == {w1, w2}

(* All the changes of the manuals with all the faults are millions of      *)
(* states.  The behaviours explored start where part of that is spent: a   *)
(* manual changes or appears, nothing fails and one worker runs, as it is  *)
(* deployed; or the shared manual is all there is and stays, so that both  *)
(* users want the same explanation, and faults and two workers meet.       *)
MCInit ==
    /\ \/ /\ changes = 0 /\ faults = MaxFaults
          /\ status \in [Manuals -> {"active", "out"}]
          /\ \A m \in Shared : status[m] = "active"
          /\ at = (w1 :> "idle") @@ (w2 :> "off")
       \/ /\ changes = MaxChanges /\ faults = 0
          /\ status = [m \in Manuals |-> IF m \in Shared THEN "active" ELSE "out"]
          /\ at = [w \in Workers |-> "idle"]
    /\ text = [m \in Manuals |-> 0]
    /\ indexed = [m \in Manuals |-> 0]
    /\ unsynced = [m \in Manuals |-> 0]
    /\ rows = <<>>
    /\ step = [u \in Users |-> "idle"]
    /\ asked = [u \in Users |-> {}]
    /\ found = [u \in Users |-> <<>>]
    /\ queue = {}
    /\ job = [w \in Workers |-> <<>>]
    /\ locked = [w \in Workers |-> FALSE]
    /\ pool = [w \in Workers |-> {}]
    /\ done = [w \in Workers |-> <<>>]

MCSpec == MCInit /\ [][Next]_vars
MCFairSpec == MCSpec /\ Fairness
=============================================================================
