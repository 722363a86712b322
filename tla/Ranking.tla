------------------------------ MODULE Ranking -------------------------------
(***************************************************************************)
(* Selecting the best top_k of the documents that match (rank_documents,   *)
(* src/query/search.cpp): candidates arrive one by one and the worst of    *)
(* those kept gives way.  Scores are integers; a path stands for its place *)
(* in the order of strings.                                                *)
(***************************************************************************)
EXTENDS Integers, FiniteSets

\* Mutant of BetterRank: equal scores are not told apart.
BugBetterRank(left, right) == left.score > right.score

\* better_rank
BetterRank(left, right) ==
  \/ left.score > right.score
  \/ left.score = right.score /\ left.path < right.path

\* The top of the heap: the worst that is kept.
Worst(top) == CHOOSE c \in top : \A other \in top : ~ BetterRank(c, other)

HasRoom(top, k) == Cardinality(top) < k

\* What is kept of top when c arrives.
Offer(top, c, k) ==
  IF HasRoom(top, k) THEN top \cup {c}
  ELSE IF BetterRank(c, Worst(top)) THEN (top \ {Worst(top)}) \cup {c}
  ELSE top

-----------------------------------------------------------------------------
(* What the selection is for. *)

\* Candidates are different documents, which have different paths.
Ranked(s) ==
  /\ IsFiniteSet(s)
  /\ \A c \in s : c.score \in Int /\ c.path \in Int
  /\ \A c, d \in s : c.path = d.path => c = d

\* top is the best k of seen.
Best(top, seen, k) ==
  /\ top \subseteq seen
  /\ Cardinality(top) = (IF Cardinality(seen) < k THEN Cardinality(seen) ELSE k)
  /\ \A c \in top, d \in seen \ top : BetterRank(c, d)
=============================================================================
