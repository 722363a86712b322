---------------------------- MODULE MCFullBuild ----------------------------
(* Small builds: up to five files of three kinds, budgets around the sizes *)
(* at which waves, commits, flushes, merges and publications stop fitting. *)
EXTENDS FullBuild

CONSTANTS MaxFiles

Small == [grow |-> <<1, 2>>, kept |-> 1, disk |-> 1]
Large == [grow |-> <<1, 4>>, kept |-> 6, disk |-> 3]

\* Every scan of at most two files; longer ones of small files, one with a
\* large one among them.
MCScans ==
  BoundedSeq({Small, Large}, 2) \cup
  {[i \in 1 .. n |-> Small] : n \in {3, MaxFiles}} \cup
  {<<Small, Small, Large>>, <<Small, Large, Small, Small>>}

MCOptions ==
  [memory : {4, 9, 13, 24}, temporary : {1, 17, 40}, flush : {1, 4},
   workers : {2}, fanIn : {2}, elsewhere : {FALSE}] \cup
  [memory : {24}, temporary : {1, 5, 12, 40}, flush : {1},
   workers : {3}, fanIn : {3}, elsewhere : {TRUE}]
=============================================================================
