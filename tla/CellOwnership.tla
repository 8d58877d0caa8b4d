--------------------------- MODULE CellOwnership ---------------------------
(* What the translation workspace promises about the ownership of a cell,   *)
(* one cell per key, environment and locale, whatever requests do it:       *)
(* once a person's text is in a cell, only another text a person submitted  *)
(* replaces it, and only removing the locale takes it away.  A promotion    *)
(* submits, cell by cell, the texts people wrote in another environment.    *)
(* README.md:23-30 of the repository states the rule, and                   *)
(* domain/translations/invariants.ts:3-6 calls it the system-level          *)
(* invariant.  TranslationCells implements this specification.              *)

CONSTANTS
  Cells,      \* every (key, environment, locale)
  Values,     \* the texts a cell may hold
  Groups,     \* the sets of cells that go away together: those of one locale
  Absent      \* what an empty cell holds

VARIABLES
  content,    \* cell -> Absent, or who owns it and the text it holds
  pending     \* the <<cell, text>> pairs people have submitted and await

vars == <<content, pending>>

Human(v)   == [owner |-> "human", value |-> v]
Machine(v) == [owner |-> "machine", value |-> v]

Init ==
  /\ content = [c \in Cells |-> Absent]
  /\ pending = {}

\* A submission is answered in the step that writes, or stays awaited.
Answered(c, v) == pending' \in {pending, pending \ {<<c, v>>}}

Submit(c, v) ==
  /\ pending' = pending \cup {<<c, v>>}
  /\ UNCHANGED content

\* A submission ends without a write of its own.
Withdraw(c, v) ==
  /\ pending' = pending \ {<<c, v>>}
  /\ UNCHANGED content

\* A person's text lands: it must be one that was submitted for that cell.
HumanWrite(c, v) ==
  /\ <<c, v>> \in pending
  /\ content' = [content EXCEPT ![c] = Human(v)]
  /\ Answered(c, v)

\* Code sync, automatic AI, or an accepted suggestion on a cell nobody owns.
MachineWrite(c, v) ==
  /\ \A w \in Values : content[c] # Human(w)
  /\ content' = [content EXCEPT ![c] = Machine(v)]
  /\ Answered(c, v)

Erase(group) ==
  /\ content' = [c \in Cells |-> IF c \in group THEN Absent ELSE content[c]]
  /\ UNCHANGED pending

Next ==
  \/ \E c \in Cells, v \in Values :
       Submit(c, v) \/ Withdraw(c, v) \/ HumanWrite(c, v) \/ MachineWrite(c, v)
  \/ \E group \in Groups : Erase(group)

Spec == Init /\ [][Next]_vars
============================================================================
