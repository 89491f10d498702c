------------------------------ MODULE AskChannel ------------------------------
(***************************************************************************)
(* What the ask_human channel promises a sandboxed agent, without threads:  *)
(* a question is refused at once or kept open; while it is open, answers    *)
(* may be offered for it; it is closed once, with an answer that was        *)
(* offered for it or with the no-answer sentinel; and no more than          *)
(* MaxPending questions are open at a time.                                 *)
(***************************************************************************)
EXTENDS Naturals, FiniteSets

CONSTANTS
  Ask,         \* the questions
  MaxPending   \* how many may be open at a time

VARIABLES
  phase,    \* "unasked", "open" or "closed"
  offered,  \* the kinds of answer accepted for each question
  reply     \* what the agent was told

vars == <<phase, offered, reply>>

NoAnswer == "none"
Kinds    == {"human", "timeout"}
Open     == {a \in Ask : phase[a] = "open"}

Init ==
  /\ phase = [a \in Ask |-> "unasked"]
  /\ offered = [a \in Ask |-> {}]
  /\ reply = [a \in Ask |-> "nothing"]

OpenQuestion(a) ==
  /\ phase[a] = "unasked"
  /\ Cardinality(Open) < MaxPending
  /\ phase' = [phase EXCEPT ![a] = "open"]
  /\ UNCHANGED <<offered, reply>>

RefuseQuestion(a) ==
  /\ phase[a] = "unasked"
  /\ Cardinality(Open) = MaxPending
  /\ phase' = [phase EXCEPT ![a] = "closed"]
  /\ reply' = [reply EXCEPT ![a] = NoAnswer]
  /\ UNCHANGED offered

\* An answer may be accepted just after the question closed: its caller looked
\* the question up before that.  It changes nothing the agent was told.
Offer(a, kind) ==
  /\ phase[a] # "unasked"
  /\ offered' = [offered EXCEPT ![a] = @ \cup {kind}]
  /\ UNCHANGED <<phase, reply>>

CloseQuestion(a) ==
  /\ phase[a] = "open"
  /\ phase' = [phase EXCEPT ![a] = "closed"]
  /\ \E r \in offered[a] \cup {NoAnswer} : reply' = [reply EXCEPT ![a] = r]
  /\ UNCHANGED offered

Next ==
  \E a \in Ask :
    \/ OpenQuestion(a) \/ RefuseQuestion(a) \/ CloseQuestion(a)
    \/ \E kind \in Kinds : Offer(a, kind)

Spec == Init /\ [][Next]_vars
=============================================================================
