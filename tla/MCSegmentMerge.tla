--------------------------- MODULE MCSegmentMerge ---------------------------
(* Two terms of which one is the prefix of the other, documents of up to two *)
(* tokens; a document has its path from its place in the list, so that paths *)
(* of different length follow each other.                                    *)
EXTENDS SegmentMerge

CONSTANTS MaxTokens, MaxDocs

A == <<1>>
AB == <<1, 2>>
B == <<2>>

Texts == BoundedSeq({A, AB}, MaxTokens)
Path(i) == IF i = 2 THEN <<7, 8>> ELSE <<6 + i>>

Lists(texts, n) ==
  UNION {{[i \in 1 .. k |-> [path |-> Path(i), live |-> TRUE, text |-> v[i]]] :
            v \in [1 .. k -> texts]} : k \in 1 .. n}

\* Flushed batches are not empty.
MCBatches ==
  {<<a, b>> : a, b \in Lists(Texts, MaxDocs)} \cup
  {<<a, b, c>> : a, b, c \in Lists({<<>>, <<A>>, <<B, AB>>}, 1)}

\* A delta may hold tombstones.
MCSingles ==
  Lists({<<A, AB>>, <<B, B>>, <<AB>>}, 2) \cup
  {<<d, [path |-> <<9>>, live |-> FALSE, text |-> <<>>]>> :
     d \in {l[1] : l \in Lists(Texts, 1)}}
=============================================================================
