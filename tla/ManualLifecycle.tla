--------------------------- MODULE ManualLifecycle ---------------------------
(***************************************************************************)
(* What the processing of one manual promises its readers, with no mention *)
(* of tasks, locks or workers: every page is settled before a verdict is   *)
(* published, and the verdict follows from the pages.                      *)
(*                                                                         *)
(* ManualPipeline is the detailed specification that implements this one.  *)
(***************************************************************************)
CONSTANT Pages          \* the pages of the manual

VARIABLES
    status,     \* Manual.status
    deleted,    \* Manual.deleted_at IS NOT NULL
    todo,       \* pages whose processing has not ended
    text,       \* pages with text chunks stored in Postgres
    doubt       \* settled pages that failed or were read with low confidence

vars == <<status, deleted, todo, text, doubt>>

Verdicts == {"active", "pending_review", "failed"}

(* Manual.status once every page is settled. *)
Verdict ==
    IF text = {} THEN "failed"
    ELSE IF doubt # {} THEN "pending_review"
    ELSE "active"

Init ==
    /\ status = "indexing"
    /\ deleted = FALSE
    /\ todo = Pages
    /\ text = {}
    /\ doubt = {}

(* Some pages end, each with or without text and with or without doubts.   *)
(* The pages of a manual deleted meanwhile may still end.                  *)
Settle ==
    /\ status \in {"indexing", "hidden"}
    /\ \E S \in SUBSET todo :
         /\ S # {}
         /\ todo' = todo \ S
         /\ doubt \subseteq doubt' /\ doubt' \subseteq doubt \cup S
         /\ text \ S \subseteq text' /\ text' \subseteq text \cup S
    /\ UNCHANGED <<status, deleted>>

(* The manual is closed: its verdict is the one its pages deserve, or      *)
(* "failed" if the search index could not take its chunks. A deletion that *)
(* commits meanwhile does not stop a verdict on its way.                   *)
Close ==
    /\ todo = {}
    /\ status \in {"indexing", "hidden"}
    /\ status' \in {Verdict, "failed"}
    /\ UNCHANGED <<deleted, todo, text, doubt>>

(* The owner asks for one page or for the whole manual again.  The text of *)
(* a page stays until its new result replaces it.                          *)
Reprocess ==
    /\ ~deleted
    /\ status \in Verdicts
    /\ status' = "indexing"
    /\ \E S \in SUBSET Pages :
         /\ S # {}
         /\ todo' = S
         /\ doubt' = doubt \ S
    /\ UNCHANGED <<deleted, text>>

(* The owner deletes the manual. *)
Remove ==
    /\ ~deleted
    /\ deleted' = TRUE
    /\ status' = "hidden"
    /\ UNCHANGED <<todo, text, doubt>>

Next == Settle \/ Close \/ Reprocess \/ Remove

Spec == Init /\ [][Next]_vars
=============================================================================
