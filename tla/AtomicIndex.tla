----------------------------- MODULE AtomicIndex -----------------------------
(***************************************************************************)
(* What the index directory promises, with no file in sight: one complete  *)
(* generation is visible, it is replaced in one step by its successor, and *)
(* a power loss brings back the visible generation or an earlier one that  *)
(* was not yet followed by a durable commit.                               *)
(***************************************************************************)
EXTENDS Integers

CONSTANTS
  Ids,       \* segment identifiers
  Contents   \* what a segment may hold

VARIABLES
  visible,    \* the generation readers see
  survivors   \* the generations a power loss may bring back

avars == <<visible, survivors>>

\* A generation: its number and the content of each segment it selects.
Empty == [generation |-> 0, segments |-> <<>>]

Init == visible = Empty /\ survivors = {Empty}

\* The successor of generation g: the segments in keep and one new one, whose
\* identifier follows those g selects.
Successor(g, keep, id, c) ==
  [generation |-> g.generation + 1,
   segments |-> [i \in keep \cup {id} |-> IF i = id THEN c ELSE g.segments[i]]]

\* Index, update, remove, or compact: one atomic switch.
Publish ==
  \E keep \in SUBSET DOMAIN visible.segments, id \in Ids, c \in Contents :
    /\ \A i \in DOMAIN visible.segments : i < id
    /\ visible' = Successor(visible, keep, id, c)
    /\ survivors' = survivors \cup {visible'}

\* The visible generation becomes durable.
MakeDurable ==
  survivors' = {visible} /\ UNCHANGED visible

PowerLoss ==
  \E g \in survivors : visible' = g /\ survivors' = {g}

Next == Publish \/ MakeDurable \/ PowerLoss

Spec == Init /\ [][Next]_avars
=============================================================================
