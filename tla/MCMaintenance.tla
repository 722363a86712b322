--------------------------- MODULE MCMaintenance ---------------------------
(* Values for Maintenance: two contents of equal size and one of another.   *)
EXTENDS Maintenance

CONSTANTS p1, p2, c1, c2, c3

\* As "a.txt" and "a/b": '.' comes before '/', but component "a" before "a.txt".
MCPathOrder == <<p1, p2>>
MCScanOrder == <<p2, p1>>

MCSize == [c \in Texts |-> IF c = c3 THEN 2 ELSE 1]
=============================================================================
