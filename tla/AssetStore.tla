------------------------------ MODULE AssetStore ------------------------------
(***************************************************************************)
(* What can be opened of the files of an account, with no mention of       *)
(* directories, markers, transactions or the hourly task: a manual and a   *)
(* page image appear whole and once, the same manual is never there twice, *)
(* and what is deleted never comes back.                                   *)
(*                                                                         *)
(* AssetBatches is the detailed specification that implements this one.    *)
(***************************************************************************)
CONSTANTS
    Manuals,        \* uploads, a manual each
    Images,         \* images of pages, rendered later
    ManualOf,       \* the manual of each image
    Source,         \* what each manual is: its game and its file
    Contents        \* the files each of them is made of

VARIABLES
    shown,          \* files that can be opened of each one
    gone,           \* those that can never be opened again
    asked           \* those the deletion of the account has to take

vars == <<shown, gone, asked>>

Assets == Manuals \cup Images

Published(a) == shown[a] # {} \/ a \in gone

Init ==
    /\ shown = [a \in Assets |-> {}]
    /\ gone = {}
    /\ asked = {}

Appear(a) ==
    /\ ~Published(a)
    /\ shown' = [shown EXCEPT ![a] = Contents[a]]
    /\ UNCHANGED <<gone, asked>>

PublishManual(m) ==
    /\ \A n \in Manuals : Source[n] = Source[m] => shown[n] = {}
    /\ Appear(m)

(* An image of a deleted manual is gone, and never appears. *)
PublishImage(i) == Published(ManualOf[i]) /\ Appear(i)

Remove(as) ==
    /\ shown' = [a \in Assets |-> IF a \in as THEN {} ELSE shown[a]]
    /\ gone' = gone \cup as

(* A manual takes its images with it, all in one step. *)
DeleteManual(m) ==
    /\ Published(m)
    /\ Remove({m} \cup {i \in Images : ManualOf[i] = m})
    /\ asked' = {a \in asked : shown'[a] # {}}

(* The deletion of the account takes at least what could be opened when it *)
(* was asked for; what appeared since may go or stay.                      *)
AskForAccount == asked' = {a \in Assets : shown[a] # {}} /\ UNCHANGED <<shown, gone>>

DeleteAccount ==
    /\ \E as \in SUBSET Assets :
         /\ asked \subseteq as
         /\ \A a \in as : Published(a) \/ (a \in Images /\ ManualOf[a] \in as)
         /\ Remove(as)
    /\ asked' = {}

Desist == asked' = {} /\ UNCHANGED <<shown, gone>>

Next ==
    \/ \E m \in Manuals : PublishManual(m) \/ DeleteManual(m)
    \/ \E i \in Images : PublishImage(i)
    \/ AskForAccount \/ DeleteAccount \/ Desist

Spec == Init /\ [][Next]_vars
=============================================================================
