----------------------------- MODULE Visibility -----------------------------
(***************************************************************************)
(* How the active segments of a generation become one logical index        *)
(* (src/storage/index_directory.cpp: combine_document_tables,              *)
(* combine_loaded_sets and build_visibility_plan).  A segment is a table   *)
(* of records, each a live document or a tombstone.  The newest record of  *)
(* a path wins; live winners get contiguous global identifiers, and their  *)
(* postings are appended under those.                                      *)
(*                                                                         *)
(* The three loops run over segments in SegmentId order and over the       *)
(* records of each in DocumentId order.  A record is named by its location *)
(* <<segment, position>>; global identifiers start from 0 as in the code.  *)
(***************************************************************************)
EXTENDS Integers, Sequences

CONSTANTS
  Paths,   \* document paths
  Terms,   \* index terms
  Inputs   \* the lists of active segments to load

Records == [path : Paths, live : BOOLEAN, terms : SUBSET Terms]
Segments == [positions : BOOLEAN, docs : Seq(Records)]

ASSUME InputAssumption == Inputs \subseteq Seq(Segments)

VARIABLES
  segs,      \* the segments being loaded
  phase,     \* the loop that is running
  cur,       \* the last location it has dealt with
  winners,   \* path -> location of its newest record so far
  docs,      \* the visible documents: their locations in global order
  remaps,    \* location -> global identifier
  postings   \* term -> global identifiers

vars == <<segs, phase, cur, winners, docs, remaps, postings>>

NoWinner == <<0, 0>>
Dropped == -1       \* kDroppedDocument

-----------------------------------------------------------------------------
(* Locations. *)

Locations(S) == UNION {{s} \X DOMAIN S[s].docs : s \in DOMAIN S}

Record(S, l) == S[l[1]].docs[l[2]]

Before(k, l) == k[1] < l[1] \/ (k[1] = l[1] /\ k[2] < l[2])

\* The loop is at segment cur[1] and the next record is at position cur[2] + 1.
InSegment(S) == cur[1] <= Len(S)
Here == <<cur[1], cur[2] + 1>>
HasRecord(S) == InSegment(S) /\ cur[2] < Len(S[cur[1]].docs)

Start == <<1, 0>>

\* The inner loop ends: on to the next segment.
NextSegment ==
  /\ phase \in {"winners", "plan", "postings"}
  /\ InSegment(segs) /\ ~ HasRecord(segs)
  /\ cur' = <<cur[1] + 1, 0>>
  /\ UNCHANGED <<segs, phase, winners, docs, remaps, postings>>

\* The outer loop ends: on to the next loop.
NextLoop(from, to) ==
  /\ phase = from /\ ~ InSegment(segs)
  /\ phase' = to /\ cur' = Start
  /\ UNCHANGED <<segs, winners, docs, remaps, postings>>

-----------------------------------------------------------------------------
(* The loops. *)

\* Every active segment must store positions, or none.
SameCapability(S) == \A s \in DOMAIN S : S[s].positions = S[1].positions

CheckCapability ==
  /\ phase = "check"
  /\ phase' = IF segs # <<>> /\ SameCapability(segs) THEN "winners" ELSE "failed"
  /\ UNCHANGED <<segs, cur, winners, docs, remaps, postings>>

\* Mutant of Winner: the first record of a path stays the winner.
BugFirstWins(old, l) == IF old = NoWinner THEN l ELSE old

\* winners[path] = ...: a later record replaces an earlier one.
Winner(old, l) == l

RecordWinner ==
  /\ phase = "winners" /\ HasRecord(segs)
  /\ LET p == Record(segs, Here).path IN
       winners' = [winners EXCEPT ![p] = Winner(winners[p], Here)]
  /\ cur' = Here
  /\ UNCHANGED <<segs, phase, docs, remaps, postings>>

\* Mutant of Keeps: a tombstone does not hide its path.
BugKeepTombstone(l) == winners[Record(segs, l).path] = l

\* The record is the winner of its path and is not a tombstone.
Keeps(l) == winners[Record(segs, l).path] = l /\ Record(segs, l).live

\* Mutant of GlobalId: the identifier within the segment.
BugLocalId(l) == l[2] - 1

\* DocumentStore::add: the next identifier.
GlobalId(l) == Len(docs)

PlanRecord ==
  /\ phase = "plan" /\ HasRecord(segs)
  /\ IF Keeps(Here)
     THEN /\ docs' = Append(docs, Here)
          /\ remaps' = [remaps EXCEPT ![Here] = GlobalId(Here)]
     ELSE UNCHANGED <<docs, remaps>>
  /\ cur' = Here
  /\ UNCHANGED <<segs, phase, winners, postings>>

\* add_posting requires strictly increasing identifiers.
Accepts(list, id) == list = <<>> \/ list[Len(list)] < id

\* The postings of one record; a record that is not visible is skipped.  The
\* code goes through a segment term by term, and through the records of each
\* term in the same order: a term's list grows by the same identifiers.
AppendPostings ==
  /\ phase = "postings" /\ HasRecord(segs)
  /\ LET id == remaps[Here]
         terms == IF id = Dropped THEN {} ELSE Record(segs, Here).terms
     IN IF \A t \in terms : Accepts(postings[t], id)
        THEN /\ postings' = [t \in Terms |-> IF t \in terms
                                             THEN Append(postings[t], id)
                                             ELSE postings[t]]
             /\ UNCHANGED phase
        ELSE phase' = "failed" /\ UNCHANGED postings
  /\ cur' = Here
  /\ UNCHANGED <<segs, winners, docs, remaps>>

-----------------------------------------------------------------------------
Init ==
  /\ segs \in Inputs
  /\ phase = "check"
  /\ cur = Start
  /\ winners = [p \in Paths |-> NoWinner]
  /\ docs = <<>>
  /\ remaps = [l \in Locations(segs) |-> Dropped]
  /\ postings = [t \in Terms |-> <<>>]

Next ==
  \/ CheckCapability
  \/ NextSegment
  \/ RecordWinner \/ NextLoop("winners", "plan")
  \/ PlanRecord \/ NextLoop("plan", "postings")
  \/ AppendPostings \/ NextLoop("postings", "done")

Spec == Init /\ [][Next]_vars

-----------------------------------------------------------------------------
(* Properties. *)

TypeOK ==
  /\ segs \in Seq(Segments)
  /\ phase \in {"check", "winners", "plan", "postings", "done", "failed"}
  /\ cur \in (Nat \ {0}) \X Nat
  /\ winners \in [Paths -> Locations(segs) \cup {NoWinner}]
  /\ docs \in Seq(Locations(segs))
  /\ remaps \in [Locations(segs) -> {Dropped} \cup Nat]
  /\ postings \in [Terms -> Seq(Nat)]

\* The newest record of its path: none follows it.
Newest(S, l) ==
  \A k \in Locations(S) : Record(S, k).path = Record(S, l).path => ~ Before(l, k)

Visible(S) == {l \in Locations(S) : Record(S, l).live /\ Newest(S, l)}

\* What is loaded is exactly the newest live record of every path, each once,
\* whatever mixture of updates and tombstones the segments hold: a deleted
\* path does not come back, and an overwritten version is not found.
VisibleExactly ==
  phase = "done" =>
    /\ {docs[k] : k \in DOMAIN docs} = Visible(segs)
    /\ \A j, k \in DOMAIN docs : j < k => Before(docs[j], docs[k])

\* A term's posting list names the visible documents that contain it, by the
\* identifiers of the combined table, each once and in increasing order.
PostingsExact ==
  phase = "done" =>
    \A t \in Terms :
      /\ {docs[postings[t][k] + 1] : k \in DOMAIN postings[t]}
           = {l \in Visible(segs) : t \in Record(segs, l).terms}
      /\ \A j, k \in DOMAIN postings[t] : j < k => postings[t][j] < postings[t][k]

\* Loading fails only for segments of different position capabilities: remapped
\* identifiers never violate the order add_posting insists on.
OnlyMixedRejected ==
  phase = "failed" => segs = <<>> \/ ~ SameCapability(segs)
=============================================================================
