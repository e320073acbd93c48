--------------------------- MODULE ClaimRegister ---------------------------
(***************************************************************************)
(* What a reader of the claims table is promised: each task has at most    *)
(* one visible version, and a new one becomes visible only by replacing    *)
(* the version its author had in front of them.  A write prepared against  *)
(* a version that is no longer visible never shows.                        *)
(***************************************************************************)
CONSTANTS Tasks, Versions, Nothing

VARIABLES visible,   \* the version of each task that readers are shown
          basis      \* the version each written version was prepared against

vars == <<visible, basis>>

Init == /\ visible = [t \in Tasks |-> Nothing]
        /\ basis = [v \in {} |-> Nothing]

\* v is new; it shows if and only if it was prepared against what t shows.
Submit(t, v, b) ==
  /\ v \in Versions \ DOMAIN basis
  /\ b \in DOMAIN basis \cup {Nothing}
  /\ basis' = [w \in DOMAIN basis \cup {v} |-> IF w = v THEN b ELSE basis[w]]
  /\ visible' = [visible EXCEPT ![t] = IF b = visible[t] THEN v ELSE @]

Next == \E t \in Tasks, v \in Versions : \E b \in Versions \cup {Nothing} :
          Submit(t, v, b)

Spec == Init /\ [][Next]_vars
=============================================================================
