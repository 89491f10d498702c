----------------------------- MODULE MCAskBridge -----------------------------
(* Small instances of AskBridge for TLC. *)
EXTENDS AskBridge, TLC

\* Questions are interchangeable; used by runs that check safety only.
Symmetry == Permutations(Ask)
=============================================================================
