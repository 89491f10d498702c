---------------------------- MODULE Calculation -----------------------------
(* A calculation that krayt makes in one go: its input is the initial state of *)
(* a behaviour without steps, and what it promises is an invariant.            *)
VARIABLE input  \* a record; "of" says which calculation it is for

Given(inputs) == input \in inputs /\ [][FALSE]_input
=============================================================================
