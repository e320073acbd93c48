---------------------------- MODULE RunContract ----------------------------
(***************************************************************************)
(* What one analysis run promises, independent of how the graph loops.     *)
(* A run works, and then either settles once - publishing a set of claims  *)
(* under the label complete or partial - or is aborted, in which case it   *)
(* carries no label and whatever subset of claims had been promoted when   *)
(* the write node was interrupted.                                         *)
(***************************************************************************)
CONSTANTS Tasks,          \* the (competitor, field) pairs a claim can be about
          Covers(_)       \* does a set of tasks cover the required fields?

VARIABLES stage, label, published

vars == <<stage, label, published>>

Init == /\ stage = "working"
        /\ label = "none"
        /\ published = {}

\* The only way to be labelled complete is to publish a covering set.
Settle == /\ stage = "working"
          /\ stage' = "settled"
          /\ label' \in {"complete", "partial"}
          /\ published' \in SUBSET Tasks
          /\ label' = "complete" => Covers(published')

Abort == /\ stage = "working"
         /\ stage' = "aborted"
         /\ published' \in SUBSET Tasks
         /\ UNCHANGED label

Next == Settle \/ Abort

Spec == Init /\ [][Next]_vars /\ WF_vars(Next)
=============================================================================
