---------------------------- MODULE QueryProofs -----------------------------
(***************************************************************************)
(* Theorems about what a query is answered from and what its answer shows. *)
(*                                                                         *)
(* Visibility, for any lists of segments of any length: the loops compute  *)
(* exactly the newest live record of every path and the postings of those  *)
(* records, and never trip over the order of postings.                     *)
(*                                                                         *)
(* Ranking: the heap of rank_documents keeps the best top_k of the         *)
(* candidates it has seen, and which these are does not depend on the      *)
(* order of arrival: for any number of candidates, any scores, any top_k.  *)
(*                                                                         *)
(* Results: whatever the evaluator found, the hits are the best top_k of   *)
(* the matches, in order, and every snippet is a line of its file, whole   *)
(* or cut between two characters as late as there is room for.             *)
(***************************************************************************)
EXTENDS Visibility, Results, FiniteSetTheorems, WellFoundedInduction, SumLemmas, TLAPS

-----------------------------------------------------------------------------
(* Visibility. *)

\* Location l is one of those up to c.
Past(l, c) == l[1] < c[1] \/ (l[1] = c[1] /\ l[2] <= c[2])

\* Every location is past this one.
End == <<Len(segs) + 1, 0>>

CursorOK ==
  /\ cur \in (Nat \ {0}) \X Nat
  /\ InSegment(segs) => cur[2] <= Len(segs[cur[1]].docs)

\* The first loop has dealt with the records up to c.
WinnersUpTo(c) ==
  \A p \in Paths :
    /\ winners[p] # NoWinner =>
         /\ winners[p] \in Locations(segs) /\ Past(winners[p], c)
         /\ Record(segs, winners[p]).path = p
    /\ \A l \in Locations(segs) :
         Past(l, c) /\ Record(segs, l).path = p =>
           winners[p] # NoWinner /\ ~ Before(winners[p], l)

\* The second loop has dealt with the records up to c.
PlanUpTo(c) ==
  /\ \A k \in DOMAIN docs :
       /\ docs[k] \in Locations(segs) /\ Past(docs[k], c) /\ Keeps(docs[k])
       /\ remaps[docs[k]] = k - 1
  /\ \A j, k \in DOMAIN docs : j < k => Before(docs[j], docs[k])
  /\ \A l \in Locations(segs) :
       IF Past(l, c) /\ Keeps(l)
       THEN remaps[l] + 1 \in DOMAIN docs /\ docs[remaps[l] + 1] = l
       ELSE remaps[l] = Dropped

\* The third loop has dealt with the records up to c.
PostingsUpTo(c) ==
  \A t \in Terms :
    /\ \A k \in DOMAIN postings[t] :
         /\ postings[t][k] + 1 \in DOMAIN docs
         /\ Past(docs[postings[t][k] + 1], c)
         /\ t \in Record(segs, docs[postings[t][k] + 1]).terms
    /\ \A j, k \in DOMAIN postings[t] : j < k => postings[t][j] < postings[t][k]
    /\ \A l \in Locations(segs) :
         Past(l, c) /\ Keeps(l) /\ t \in Record(segs, l).terms =>
           \E k \in DOMAIN postings[t] : postings[t][k] = remaps[l]

NoPostings == \A t \in Terms : postings[t] = <<>>
NoPlan == docs = <<>> /\ \A l \in Locations(segs) : remaps[l] = Dropped
NoWinners == \A p \in Paths : winners[p] = NoWinner

IInv ==
  /\ TypeOK /\ CursorOK /\ OnlyMixedRejected
  /\ phase = "check" => cur = Start /\ NoWinners /\ NoPlan /\ NoPostings
  /\ phase = "winners" => WinnersUpTo(cur) /\ NoPlan /\ NoPostings
  /\ phase = "plan" => WinnersUpTo(End) /\ PlanUpTo(cur) /\ NoPostings
  /\ phase = "postings" => WinnersUpTo(End) /\ PlanUpTo(End) /\ PostingsUpTo(cur)
  /\ phase = "done" => WinnersUpTo(End) /\ PlanUpTo(End) /\ PostingsUpTo(End)

-----------------------------------------------------------------------------
(* Locations and the cursor. *)

LEMMA LocationParts ==
  ASSUME NEW S \in Seq(Segments), NEW l \in Locations(S)
  PROVE  /\ l = <<l[1], l[2]>>
         /\ l[1] \in 1 .. Len(S) /\ l[2] \in 1 .. Len(S[l[1]].docs)
         /\ l[1] \in Nat \ {0} /\ l[2] \in Nat \ {0}
         /\ S[l[1]] \in Segments /\ Record(S, l) \in Records
  <1>1. PICK s \in DOMAIN S : l \in {s} \X DOMAIN S[s].docs
    BY DEF Locations
  <1>2. s \in 1 .. Len(S) /\ S[s] \in Segments
    OBVIOUS
  <1>3. S[s].docs \in Seq(Records)
    BY <1>2 DEF Segments
  <1>4. l[1] = s /\ l[2] \in 1 .. Len(S[s].docs) /\ l = <<l[1], l[2]>>
    BY <1>1, <1>3
  <1>5. Record(S, l) \in Records
    BY <1>3, <1>4 DEF Record
  <1>. QED
    BY <1>2, <1>3, <1>4, <1>5

LEMMA CursorParts ==
  ASSUME TypeOK
  PROVE  /\ cur = <<cur[1], cur[2]>> /\ cur[1] \in Nat \ {0} /\ cur[2] \in Nat
         /\ InSegment(segs) =>
              /\ cur[1] \in 1 .. Len(segs) /\ segs[cur[1]] \in Segments
              /\ segs[cur[1]].docs \in Seq(Records)
  <1>1. cur = <<cur[1], cur[2]>> /\ cur[1] \in Nat \ {0} /\ cur[2] \in Nat
    BY DEF TypeOK
  <1>2. segs \in Seq(Segments) /\ Len(segs) \in Nat
    BY DEF TypeOK
  <1>3. InSegment(segs) => cur[1] \in 1 .. Len(segs)
    BY <1>1, <1>2 DEF InSegment
  <1>4. InSegment(segs) => segs[cur[1]] \in Segments
    BY <1>2, <1>3
  <1>. QED
    BY <1>1, <1>3, <1>4 DEF Segments

LEMMA HereLocation ==
  ASSUME TypeOK, HasRecord(segs)
  PROVE  /\ Here \in Locations(segs) /\ Record(segs, Here) \in Records
         /\ Here \in (Nat \ {0}) \X Nat
         /\ Here[1] = cur[1] /\ Here[2] <= Len(segs[cur[1]].docs)
         /\ Here # NoWinner
         /\ ~ Past(Here, cur) /\ Past(Here, Here)
         /\ \A l \in Locations(segs) : Past(l, Here) <=> Past(l, cur) \/ l = Here
         /\ \A l \in Locations(segs) : Past(l, cur) => Before(l, Here)
  <1>1. cur[1] \in 1 .. Len(segs) /\ segs[cur[1]].docs \in Seq(Records)
    BY CursorParts DEF HasRecord
  <1>2. /\ cur[1] \in Nat \ {0} /\ cur[2] \in Nat
        /\ Here[1] = cur[1] /\ Here[2] = cur[2] + 1
    BY CursorParts DEF Here
  <1>3. Here[2] \in 1 .. Len(segs[cur[1]].docs)
    BY <1>1, <1>2 DEF HasRecord
  <1>4. Here \in {cur[1]} \X DOMAIN segs[cur[1]].docs
    BY <1>1, <1>2, <1>3 DEF Here
  <1>5. Here \in Locations(segs)
    <2>1. cur[1] \in DOMAIN segs
      BY <1>1 DEF TypeOK
    <2>. QED
      BY <1>4, <2>1 DEF Locations
  <1>6. Record(segs, Here) \in Records
    BY <1>5, LocationParts DEF TypeOK
  <1>7. ~ Past(Here, cur) /\ Past(Here, Here)
    BY <1>2 DEF Past
  <1>8. Here \in (Nat \ {0}) \X Nat /\ Here # NoWinner
    BY <1>2 DEF Here, NoWinner
  <1>9. ASSUME NEW l \in Locations(segs)
        PROVE  /\ Past(l, Here) <=> Past(l, cur) \/ l = Here
               /\ Past(l, cur) => Before(l, Here)
    <2>1. l = <<l[1], l[2]>> /\ l[1] \in Nat /\ l[2] \in Nat
      BY LocationParts DEF TypeOK
    <2>2. l = Here <=> l[1] = cur[1] /\ l[2] = cur[2] + 1
      BY <2>1 DEF Here
    <2>3. Past(l, Here) <=> Past(l, cur) \/ l = Here
      BY <1>2, <2>1, <2>2 DEF Past
    <2>. QED
      BY <1>2, <2>1, <2>3 DEF Past, Before
  <1>. QED
    BY <1>2, <1>3, <1>5, <1>6, <1>7, <1>8, <1>9

LEMMA NextSegmentPast ==
  ASSUME TypeOK, CursorOK, InSegment(segs), ~ HasRecord(segs)
  PROVE  \A l \in Locations(segs) : Past(l, <<cur[1] + 1, 0>>) <=> Past(l, cur)
  <1> SUFFICES ASSUME NEW l \in Locations(segs)
               PROVE  Past(l, <<cur[1] + 1, 0>>) <=> Past(l, cur)
    OBVIOUS
  <1>1. /\ l = <<l[1], l[2]>> /\ l[1] \in Nat /\ l[2] \in Nat \ {0}
        /\ l[2] \in 1 .. Len(segs[l[1]].docs)
    BY LocationParts DEF TypeOK
  <1>2. cur[1] \in Nat /\ cur[2] \in Nat /\ segs[cur[1]].docs \in Seq(Records)
    BY CursorParts
  <1>3. cur[2] = Len(segs[cur[1]].docs)
    <2>1. Len(segs[cur[1]].docs) \in Nat
      BY <1>2
    <2>. QED
      BY <1>2, <2>1 DEF HasRecord, CursorOK
  <1>4. l[1] = cur[1] => l[2] <= cur[2]
    BY <1>1, <1>3
  <1>5. Past(l, <<cur[1] + 1, 0>>) <=>
          l[1] < cur[1] + 1 \/ (l[1] = cur[1] + 1 /\ l[2] <= 0)
    BY DEF Past
  <1>6. Past(l, cur) <=> l[1] < cur[1] \/ (l[1] = cur[1] /\ l[2] <= cur[2])
    BY DEF Past
  <1>. QED
    BY <1>1, <1>2, <1>4, <1>5, <1>6

LEMMA LoopEnds ==
  ASSUME TypeOK
  PROVE  /\ \A l \in Locations(segs) : ~ Past(l, Start) /\ Past(l, End)
         /\ ~ InSegment(segs) => \A l \in Locations(segs) : Past(l, cur)
  <1>1. ASSUME NEW l \in Locations(segs)
        PROVE  /\ ~ Past(l, Start) /\ Past(l, End)
               /\ ~ InSegment(segs) => Past(l, cur)
    <2>1. /\ l = <<l[1], l[2]>> /\ l[1] \in 1 .. Len(segs)
          /\ l[2] \in Nat \ {0}
      BY LocationParts DEF TypeOK
    <2>2. cur[1] \in Nat /\ Len(segs) \in Nat
      BY DEF TypeOK
    <2>. QED
      BY <2>1, <2>2 DEF Past, Before, Start, End, InSegment
  <1>. QED
    BY <1>1

LEMMA BeforeOrder ==
  ASSUME NEW S \in Seq(Segments), NEW k \in Locations(S), NEW l \in Locations(S)
  PROVE  /\ ~ Before(l, l)
         /\ Before(k, l) => ~ Before(l, k)
         /\ Before(k, l) \/ k = l \/ Before(l, k)
  <1>1. /\ k = <<k[1], k[2]>> /\ k[1] \in Nat /\ k[2] \in Nat
        /\ l = <<l[1], l[2]>> /\ l[1] \in Nat /\ l[2] \in Nat
    BY LocationParts
  <1>2. k[1] = l[1] /\ k[2] = l[2] => k = l
    BY <1>1
  <1>. QED
    BY <1>1, <1>2 DEF Before

\* The loop invariants depend on the cursor only through the locations past it.
LEMMA SamePast ==
  ASSUME NEW c, NEW d, TypeOK,
         \A l \in Locations(segs) : Past(l, c) <=> Past(l, d)
  PROVE  /\ WinnersUpTo(c) => WinnersUpTo(d)
         /\ PlanUpTo(c) => PlanUpTo(d)
         /\ PostingsUpTo(c) => PostingsUpTo(d)
  <1>1. WinnersUpTo(c) => WinnersUpTo(d)
    BY DEF WinnersUpTo
  <1>2. \A k \in DOMAIN docs : docs[k] \in Locations(segs)
    BY DEF TypeOK
  <1>3. PlanUpTo(c) => PlanUpTo(d)
    BY <1>2 DEF PlanUpTo
  <1>4. PostingsUpTo(c) => PostingsUpTo(d)
    BY <1>2 DEF PostingsUpTo
  <1>. QED
    BY <1>1, <1>3, <1>4

-----------------------------------------------------------------------------
(* The invariant holds initially and every action preserves it. *)

LEMMA InitIInv == Init => IInv
  <1> SUFFICES ASSUME Init PROVE IInv
    OBVIOUS
  <1>1. segs \in Seq(Segments)
    BY InputAssumption DEF Init
  <1>2. TypeOK
    <2>1. cur \in (Nat \ {0}) \X Nat
      BY DEF Init, Start
    <2>2. winners \in [Paths -> Locations(segs) \cup {NoWinner}]
      BY DEF Init
    <2>3. remaps \in [Locations(segs) -> {Dropped} \cup Nat]
      BY DEF Init
    <2>4. docs \in Seq(Locations(segs)) /\ postings \in [Terms -> Seq(Nat)]
      BY DEF Init
    <2>. QED
      BY <1>1, <2>1, <2>2, <2>3, <2>4 DEF Init, TypeOK
  <1>3. CursorOK
    <2>1. cur[1] = 1 /\ cur[2] = 0 /\ cur \in (Nat \ {0}) \X Nat
      BY DEF Init, Start
    <2>2. InSegment(segs) => segs[cur[1]].docs \in Seq(Records)
      BY <1>2, CursorParts
    <2>. QED
      BY <2>1, <2>2 DEF CursorOK
  <1>4. cur = Start /\ NoWinners /\ NoPlan /\ NoPostings
    BY DEF Init, NoWinners, NoPlan, NoPostings
  <1>. QED
    BY <1>2, <1>3, <1>4 DEF IInv, Init, OnlyMixedRejected

LEMMA CheckCapabilityIInv == IInv /\ CheckCapability => IInv'
  <1> SUFFICES ASSUME IInv, CheckCapability PROVE IInv'
    OBVIOUS
  <1>1. cur = Start /\ NoWinners /\ NoPlan /\ NoPostings /\ TypeOK
    BY DEF IInv, CheckCapability
  <1>2. TypeOK' /\ CursorOK' /\ (NoPlan /\ NoPostings)'
    BY <1>1 DEF IInv, CheckCapability, TypeOK, CursorOK, InSegment, NoPlan, NoPostings
  <1>3. OnlyMixedRejected'
    BY DEF CheckCapability, OnlyMixedRejected
  <1>4. WinnersUpTo(cur)
    BY <1>1, LoopEnds DEF WinnersUpTo, NoWinners
  <1>5. WinnersUpTo(cur)'
    BY <1>4 DEF CheckCapability, WinnersUpTo
  <1>6. phase' \in {"winners", "failed"}
    BY DEF CheckCapability
  <1>. QED
    BY <1>2, <1>3, <1>5, <1>6 DEF IInv

LEMMA NextSegmentIInv == IInv /\ NextSegment => IInv'
  <1> SUFFICES ASSUME IInv, NextSegment PROVE IInv'
    OBVIOUS
  <1> DEFINE d == <<cur[1] + 1, 0>>
  <1>1. TypeOK /\ CursorOK /\ cur[1] \in Nat \ {0}
    BY CursorParts DEF IInv
  <1>2. cur' = d /\ d \in (Nat \ {0}) \X Nat /\ d[2] = 0
    BY <1>1 DEF NextSegment
  <1>3. TypeOK'
    BY <1>1, <1>2 DEF TypeOK, NextSegment
  <1>4. CursorOK'
    <2>1. segs \in Seq(Segments) /\ segs' = segs
      BY <1>1 DEF TypeOK, NextSegment
    <2>2. ASSUME NEW s \in 1 .. Len(segs)
          PROVE  0 <= Len(segs[s].docs)
      <3>1. segs[s] \in Segments
        BY <2>1
      <3>2. segs[s].docs \in Seq(Records)
        BY <3>1 DEF Segments
      <3>. QED
        BY <3>2
    <2>3. d[1] \in Nat \ {0} /\ Len(segs) \in Nat
      BY <1>2, <2>1
    <2>. QED
      BY <1>2, <2>1, <2>2, <2>3 DEF CursorOK, InSegment
  <1>5. \A l \in Locations(segs) : Past(l, cur) <=> Past(l, d)
    BY <1>1, NextSegmentPast DEF NextSegment
  <1> HIDE DEF d
  <1>6. /\ WinnersUpTo(cur) => WinnersUpTo(d)
        /\ PlanUpTo(cur) => PlanUpTo(d)
        /\ PostingsUpTo(cur) => PostingsUpTo(d)
    BY <1>1, <1>5, SamePast
  <1>7. /\ WinnersUpTo(d) => WinnersUpTo(cur)'
        /\ WinnersUpTo(End) => WinnersUpTo(End)'
    BY <1>2 DEF NextSegment, WinnersUpTo, End
  <1>8. /\ PlanUpTo(d) => PlanUpTo(cur)'
        /\ PlanUpTo(End) => PlanUpTo(End)'
    BY <1>2 DEF NextSegment, PlanUpTo, Keeps, End
  <1>9. PostingsUpTo(d) => PostingsUpTo(cur)'
    BY <1>2 DEF NextSegment, PostingsUpTo, Keeps
  <1>10. /\ NoPlan => NoPlan'
         /\ NoPostings => NoPostings'
    BY DEF NextSegment, NoPlan, NoPostings
  <1>11. phase \in {"winners", "plan", "postings"} /\ phase' = phase
    BY DEF NextSegment
  <1>12. OnlyMixedRejected'
    BY <1>11 DEF OnlyMixedRejected
  <1>. QED
    BY <1>3, <1>4, <1>6, <1>7, <1>8, <1>9, <1>10, <1>11, <1>12 DEF IInv

\* The cursor after a record.
LEMMA HereCursor ==
  ASSUME TypeOK, HasRecord(segs), cur' = Here, segs' = segs
  PROVE  CursorOK'
  <1>1. Here \in (Nat \ {0}) \X Nat /\ Here[1] = cur[1] /\ Here[2] <= Len(segs[cur[1]].docs)
    BY HereLocation
  <1>. QED
    BY <1>1 DEF CursorOK

LEMMA StartCursor ==
  ASSUME TypeOK, cur' = Start, segs' = segs
  PROVE  CursorOK'
  <1>1. segs \in Seq(Segments)
    BY DEF TypeOK
  <1>2. InSegment(segs)' => segs[1].docs \in Seq(Records)
    <2>1. InSegment(segs)' => 1 \in 1 .. Len(segs)
      BY <1>1 DEF InSegment, Start
    <2>2. InSegment(segs)' => segs[1] \in Segments
      BY <1>1, <2>1
    <2>. QED
      BY <2>2 DEF Segments
  <1>3. Start[1] = 1 /\ Start[2] = 0 /\ Start \in (Nat \ {0}) \X Nat
    BY DEF Start
  <1>4. InSegment(segs)' => 0 <= Len(segs[1].docs)
    BY <1>2
  <1>. QED
    BY <1>3, <1>4 DEF CursorOK

LEMMA RecordWinnerIInv == IInv /\ RecordWinner => IInv'
  <1> SUFFICES ASSUME IInv, RecordWinner PROVE IInv'
    OBVIOUS
  <1> DEFINE q == Record(segs, Here).path
  <1>1. /\ TypeOK /\ HasRecord(segs) /\ WinnersUpTo(cur) /\ NoPlan /\ NoPostings
        /\ cur' = Here /\ segs' = segs /\ phase = "winners" /\ phase' = phase
    BY DEF IInv, RecordWinner
  <1>2. /\ Here \in Locations(segs) /\ Here \in (Nat \ {0}) \X Nat
        /\ Here # NoWinner /\ Past(Here, Here) /\ q \in Paths
        /\ \A l \in Locations(segs) : Past(l, Here) <=> Past(l, cur) \/ l = Here
        /\ \A l \in Locations(segs) : Past(l, cur) => Before(l, Here)
    BY <1>1, HereLocation DEF Records
  <1>3. segs \in Seq(Segments) /\ winners \in [Paths -> Locations(segs) \cup {NoWinner}]
    BY <1>1 DEF TypeOK
  <1>4. winners' = [winners EXCEPT ![q] = Here]
    BY DEF RecordWinner, Winner
  <1>5. TypeOK'
    BY <1>1, <1>2, <1>4 DEF RecordWinner, TypeOK
  <1>6. CursorOK'
    BY <1>1, HereCursor
  <1>7. WinnersUpTo(cur)'
    <2>1. ASSUME NEW p \in Paths
          PROVE  /\ winners'[p] # NoWinner =>
                      /\ winners'[p] \in Locations(segs) /\ Past(winners'[p], Here)
                      /\ Record(segs, winners'[p]).path = p
                 /\ \A l \in Locations(segs) :
                      Past(l, Here) /\ Record(segs, l).path = p =>
                        winners'[p] # NoWinner /\ ~ Before(winners'[p], l)
      <3>1. CASE p = q
        <4>1. winners'[p] = Here
          BY <1>2, <1>3, <1>4, <3>1
        <4>2. \A l \in Locations(segs) : Past(l, Here) => ~ Before(Here, l)
          BY <1>2, <1>3, BeforeOrder
        <4>. QED
          BY <1>2, <3>1, <4>1, <4>2
      <3>2. CASE p # q
        <4>1. winners'[p] = winners[p]
          BY <1>3, <1>4, <3>2
        <4>2. WinnersUpTo(cur)
          BY <1>1
        <4>. QED
          BY <1>2, <3>2, <4>1, <4>2 DEF WinnersUpTo
      <3>. QED
        BY <3>1, <3>2
    <2>. QED
      BY <1>1, <2>1 DEF WinnersUpTo
  <1>8. (NoPlan /\ NoPostings /\ OnlyMixedRejected)'
    BY <1>1 DEF RecordWinner, NoPlan, NoPostings, OnlyMixedRejected
  <1>. QED
    BY <1>1, <1>5, <1>6, <1>7, <1>8 DEF IInv

LEMMA WinnersDoneIInv == IInv /\ NextLoop("winners", "plan") => IInv'
  <1> SUFFICES ASSUME IInv, NextLoop("winners", "plan") PROVE IInv'
    OBVIOUS
  <1>1. /\ TypeOK /\ WinnersUpTo(cur) /\ NoPlan /\ NoPostings /\ phase' = "plan"
        /\ cur' = Start /\ UNCHANGED <<segs, winners, docs, remaps, postings>>
        /\ ~ InSegment(segs)
    BY DEF IInv, NextLoop
  <1>2. TypeOK' /\ OnlyMixedRejected'
    BY <1>1 DEF TypeOK, OnlyMixedRejected, Start
  <1>3. WinnersUpTo(End)
    BY <1>1, LoopEnds, SamePast
  <1>4. PlanUpTo(Start)
    BY <1>1, LoopEnds DEF NoPlan, PlanUpTo
  <1>5. CursorOK'
    BY <1>1, StartCursor
  <1>6. WinnersUpTo(End)' /\ PlanUpTo(cur)' /\ NoPostings'
    BY <1>1, <1>3, <1>4 DEF WinnersUpTo, PlanUpTo, Keeps, End, NoPostings
  <1>. QED
    BY <1>1, <1>2, <1>5, <1>6 DEF IInv

LEMMA PlanDoneIInv == IInv /\ NextLoop("plan", "postings") => IInv'
  <1> SUFFICES ASSUME IInv, NextLoop("plan", "postings") PROVE IInv'
    OBVIOUS
  <1>1. /\ TypeOK /\ WinnersUpTo(End) /\ PlanUpTo(cur) /\ NoPostings
        /\ phase' = "postings" /\ cur' = Start
        /\ UNCHANGED <<segs, winners, docs, remaps, postings>> /\ ~ InSegment(segs)
    BY DEF IInv, NextLoop
  <1>2. TypeOK' /\ OnlyMixedRejected'
    BY <1>1 DEF TypeOK, OnlyMixedRejected, Start
  <1>3. PlanUpTo(End)
    BY <1>1, LoopEnds, SamePast
  <1>4. PostingsUpTo(Start)
    BY <1>1, LoopEnds DEF NoPostings, PostingsUpTo
  <1>5. CursorOK'
    BY <1>1, StartCursor
  <1>6. WinnersUpTo(End)' /\ PlanUpTo(End)' /\ PostingsUpTo(cur)'
    BY <1>1, <1>3, <1>4 DEF WinnersUpTo, PlanUpTo, PostingsUpTo, Keeps, End
  <1>. QED
    BY <1>1, <1>2, <1>5, <1>6 DEF IInv

LEMMA PostingsDoneIInv == IInv /\ NextLoop("postings", "done") => IInv'
  <1> SUFFICES ASSUME IInv, NextLoop("postings", "done") PROVE IInv'
    OBVIOUS
  <1>1. /\ TypeOK /\ WinnersUpTo(End) /\ PlanUpTo(End) /\ PostingsUpTo(cur)
        /\ phase' = "done" /\ cur' = Start
        /\ UNCHANGED <<segs, winners, docs, remaps, postings>> /\ ~ InSegment(segs)
    BY DEF IInv, NextLoop
  <1>2. TypeOK' /\ OnlyMixedRejected'
    BY <1>1 DEF TypeOK, OnlyMixedRejected, Start
  <1>3. PostingsUpTo(End)
    BY <1>1, LoopEnds, SamePast
  <1>4. CursorOK'
    BY <1>1, StartCursor
  <1>5. WinnersUpTo(End)' /\ PlanUpTo(End)' /\ PostingsUpTo(End)'
    BY <1>1, <1>3 DEF WinnersUpTo, PlanUpTo, PostingsUpTo, Keeps, End
  <1>. QED
    BY <1>1, <1>2, <1>4, <1>5 DEF IInv

LEMMA PlanRecordIInv == IInv /\ PlanRecord => IInv'
  <1> SUFFICES ASSUME IInv, PlanRecord PROVE IInv'
    OBVIOUS
  <1>1. /\ TypeOK /\ HasRecord(segs) /\ WinnersUpTo(End) /\ PlanUpTo(cur) /\ NoPostings
        /\ cur' = Here /\ phase = "plan"
        /\ UNCHANGED <<segs, phase, winners, postings>>
    BY DEF IInv, PlanRecord
  <1>2. /\ Here \in Locations(segs) /\ Here \in (Nat \ {0}) \X Nat
        /\ ~ Past(Here, cur) /\ Past(Here, Here)
        /\ \A l \in Locations(segs) : Past(l, Here) <=> Past(l, cur) \/ l = Here
        /\ \A l \in Locations(segs) : Past(l, cur) => Before(l, Here)
    BY <1>1, HereLocation
  <1>3. /\ docs \in Seq(Locations(segs)) /\ Len(docs) \in Nat
        /\ remaps \in [Locations(segs) -> {Dropped} \cup Nat]
    BY <1>1 DEF TypeOK
  <1>4. CursorOK'
    BY <1>1, HereCursor
  <1>5. /\ WinnersUpTo(End)' /\ NoPostings' /\ OnlyMixedRejected'
        /\ \A l : Keeps(l)' <=> Keeps(l)
    BY <1>1 DEF WinnersUpTo, End, NoPostings, OnlyMixedRejected, Keeps
  <1>6. CASE Keeps(Here)
    <2>1. /\ docs' = Append(docs, Here)
          /\ remaps' = [remaps EXCEPT ![Here] = Len(docs)]
      BY <1>6 DEF PlanRecord, GlobalId
    <2>2. TypeOK'
      BY <1>1, <1>2, <1>3, <2>1 DEF TypeOK
    <2>3. /\ DOMAIN docs' = 1 .. Len(docs) + 1 /\ DOMAIN docs = 1 .. Len(docs)
          /\ docs'[Len(docs) + 1] = Here
          /\ \A k \in DOMAIN docs : docs'[k] = docs[k]
      BY <1>2, <1>3, <2>1
    <2>4. /\ remaps'[Here] = Len(docs)
          /\ \A l \in Locations(segs) : l # Here => remaps'[l] = remaps[l]
      BY <1>2, <1>3, <2>1
    <2>5. ASSUME NEW k \in DOMAIN docs'
          PROVE  /\ docs'[k] \in Locations(segs) /\ Past(docs'[k], Here)
                 /\ Keeps(docs'[k]) /\ remaps'[docs'[k]] = k - 1
      <3>1. CASE k = Len(docs) + 1
        BY <1>2, <1>3, <1>6, <2>3, <2>4, <3>1
      <3>2. CASE k # Len(docs) + 1
        <4>1. k \in DOMAIN docs /\ docs'[k] = docs[k]
          BY <1>3, <2>3, <3>2
        <4>2. /\ docs[k] \in Locations(segs) /\ Past(docs[k], cur)
              /\ Keeps(docs[k]) /\ remaps[docs[k]] = k - 1
          BY <1>1, <4>1 DEF PlanUpTo
        <4>. QED
          BY <1>2, <2>4, <4>1, <4>2
      <3>. QED
        BY <3>1, <3>2
    <2>6. ASSUME NEW j \in DOMAIN docs', NEW k \in DOMAIN docs', j < k
          PROVE  Before(docs'[j], docs'[k])
      <3>1. j \in DOMAIN docs /\ docs'[j] = docs[j]
        BY <1>3, <2>3, <2>6
      <3>2. CASE k = Len(docs) + 1
        <4>1. docs[j] \in Locations(segs) /\ Past(docs[j], cur)
          BY <1>1, <3>1 DEF PlanUpTo
        <4>. QED
          BY <1>2, <2>3, <3>1, <3>2, <4>1
      <3>3. CASE k # Len(docs) + 1
        <4>1. k \in DOMAIN docs /\ docs'[k] = docs[k]
          BY <1>3, <2>3, <3>3
        <4>. QED
          BY <1>1, <2>6, <3>1, <4>1 DEF PlanUpTo
      <3>. QED
        BY <3>2, <3>3
    <2>7. ASSUME NEW l \in Locations(segs)
          PROVE  IF Past(l, Here) /\ Keeps(l)
                 THEN remaps'[l] + 1 \in DOMAIN docs' /\ docs'[remaps'[l] + 1] = l
                 ELSE remaps'[l] = Dropped
      <3>1. CASE l = Here
        BY <1>2, <1>3, <1>6, <2>3, <2>4, <3>1
      <3>2. CASE l # Here
        <4>1. remaps'[l] = remaps[l] /\ (Past(l, Here) <=> Past(l, cur))
          BY <1>2, <2>4, <3>2
        <4>2. IF Past(l, cur) /\ Keeps(l)
              THEN remaps[l] + 1 \in DOMAIN docs /\ docs[remaps[l] + 1] = l
              ELSE remaps[l] = Dropped
          BY <1>1 DEF PlanUpTo
        <4>3. \A k \in DOMAIN docs : k \in DOMAIN docs'
          BY <1>3, <2>3
        <4>. QED
          BY <2>3, <4>1, <4>2, <4>3
      <3>. QED
        BY <3>1, <3>2
    <2>8. PlanUpTo(cur)'
      BY <1>1, <1>5, <2>5, <2>6, <2>7 DEF PlanUpTo
    <2>. QED
      BY <1>1, <1>4, <1>5, <2>2, <2>8 DEF IInv
  <1>7. CASE ~ Keeps(Here)
    <2>1. UNCHANGED <<docs, remaps>>
      BY <1>7 DEF PlanRecord
    <2>2. TypeOK'
      BY <1>1, <1>2, <2>1 DEF TypeOK
    <2>3. \A l \in Locations(segs) : Past(l, Here) /\ Keeps(l) <=> Past(l, cur) /\ Keeps(l)
      BY <1>2, <1>7
    <2>4. PlanUpTo(cur)'
      BY <1>1, <1>2, <1>5, <2>1, <2>3 DEF PlanUpTo
    <2>. QED
      BY <1>1, <1>4, <1>5, <2>2, <2>4 DEF IInv
  <1>. QED
    BY <1>6, <1>7

LEMMA AppendPostingsIInv == IInv /\ AppendPostings => IInv'
  <1> SUFFICES ASSUME IInv, AppendPostings PROVE IInv'
    OBVIOUS
  <1> DEFINE id == remaps[Here]
             found == IF id = Dropped THEN {} ELSE Record(segs, Here).terms
  <1>1. /\ TypeOK /\ HasRecord(segs) /\ WinnersUpTo(End) /\ PlanUpTo(End)
        /\ PostingsUpTo(cur) /\ cur' = Here /\ phase = "postings"
        /\ UNCHANGED <<segs, winners, docs, remaps>>
    BY DEF IInv, AppendPostings
  <1>2. /\ Here \in Locations(segs) /\ Here \in (Nat \ {0}) \X Nat
        /\ Record(segs, Here) \in Records
        /\ ~ Past(Here, cur) /\ Past(Here, Here)
        /\ \A l \in Locations(segs) : Past(l, Here) <=> Past(l, cur) \/ l = Here
        /\ \A l \in Locations(segs) : Past(l, cur) => Before(l, Here)
    BY <1>1, HereLocation
  <1>3. /\ segs \in Seq(Segments) /\ docs \in Seq(Locations(segs))
        /\ Len(docs) \in Nat /\ DOMAIN docs = 1 .. Len(docs)
        /\ remaps \in [Locations(segs) -> {Dropped} \cup Nat]
        /\ postings \in [Terms -> Seq(Nat)]
    BY <1>1 DEF TypeOK
  <1>4. /\ Past(Here, End)
        /\ IF Keeps(Here)
           THEN id + 1 \in DOMAIN docs /\ docs[id + 1] = Here
           ELSE id = Dropped
    BY <1>1, <1>2, LoopEnds DEF PlanUpTo
  <1>5. id \in {Dropped} \cup Nat
    BY <1>2, <1>3
  <1>6. Keeps(Here) <=> id # Dropped
    BY <1>3, <1>4 DEF Dropped
  <1>7. ASSUME NEW t \in found
        PROVE  \A k \in DOMAIN postings[t] : postings[t][k] < id
    <2>1. t \in Terms /\ id + 1 \in DOMAIN docs /\ docs[id + 1] = Here /\ id \in Nat
      BY <1>2, <1>4, <1>5, <1>6, <1>7 DEF Records
    <2> SUFFICES ASSUME NEW k \in DOMAIN postings[t]
                 PROVE  postings[t][k] < id
      OBVIOUS
    <2> DEFINE m == postings[t][k]
    <2>2. m \in Nat
      BY <1>3, <2>1
    <2>3. m + 1 \in DOMAIN docs /\ Past(docs[m + 1], cur)
      BY <1>1, <2>1 DEF PostingsUpTo
    <2>4. docs[m + 1] \in Locations(segs)
      BY <1>3, <2>3
    <2>5. Before(docs[m + 1], Here) /\ ~ Before(Here, docs[m + 1])
      BY <1>2, <1>3, <2>3, <2>4, BeforeOrder
    <2>6. m # id
      BY <1>2, <2>1, <2>3
    <2>7. id + 1 < m + 1 => Before(docs[id + 1], docs[m + 1])
      BY <1>1, <2>1, <2>3 DEF PlanUpTo
    <2>. QED
      BY <2>1, <2>2, <2>5, <2>6, <2>7
  <1>8. \A t \in found : Accepts(postings[t], id)
    <2> SUFFICES ASSUME NEW t \in found PROVE Accepts(postings[t], id)
      OBVIOUS
    <2>1. t \in Terms
      BY <1>2 DEF Records
    <2>2. postings[t] \in Seq(Nat)
      BY <1>3, <2>1
    <2>3. postings[t] # <<>> => Len(postings[t]) \in DOMAIN postings[t]
      BY <2>2
    <2>. QED
      BY <1>7, <2>3 DEF Accepts
  <1>9. /\ postings' = [t \in Terms |-> IF t \in found
                                        THEN Append(postings[t], id)
                                        ELSE postings[t]]
        /\ phase' = phase
    BY <1>8 DEF AppendPostings
  <1>10. \A t \in found : id \in Nat
    BY <1>5
  <1>11. TypeOK'
    <2>1. postings' \in [Terms -> Seq(Nat)]
      BY <1>3, <1>9, <1>10
    <2>. QED
      BY <1>1, <1>2, <1>9, <2>1 DEF TypeOK
  <1>12. CursorOK'
    BY <1>1, HereCursor
  <1>13. /\ WinnersUpTo(End)' /\ PlanUpTo(End)' /\ OnlyMixedRejected'
         /\ \A l : Keeps(l)' <=> Keeps(l)
    BY <1>1, <1>9 DEF WinnersUpTo, PlanUpTo, End, OnlyMixedRejected, Keeps
  <1> HIDE DEF found
  <1>14. ASSUME NEW t \in Terms
         PROVE  /\ \A k \in DOMAIN postings'[t] :
                     /\ postings'[t][k] + 1 \in DOMAIN docs
                     /\ Past(docs[postings'[t][k] + 1], Here)
                     /\ t \in Record(segs, docs[postings'[t][k] + 1]).terms
                /\ \A j, k \in DOMAIN postings'[t] :
                     j < k => postings'[t][j] < postings'[t][k]
                /\ \A l \in Locations(segs) :
                     Past(l, Here) /\ Keeps(l) /\ t \in Record(segs, l).terms =>
                       \E k \in DOMAIN postings'[t] : postings'[t][k] = remaps[l]
    <2>1. /\ \A k \in DOMAIN postings[t] :
               /\ postings[t][k] + 1 \in DOMAIN docs
               /\ Past(docs[postings[t][k] + 1], cur)
               /\ t \in Record(segs, docs[postings[t][k] + 1]).terms
          /\ \A j, k \in DOMAIN postings[t] : j < k => postings[t][j] < postings[t][k]
          /\ \A l \in Locations(segs) :
               Past(l, cur) /\ Keeps(l) /\ t \in Record(segs, l).terms =>
                 \E k \in DOMAIN postings[t] : postings[t][k] = remaps[l]
      BY <1>1 DEF PostingsUpTo
    <2>2. \A k \in DOMAIN postings[t] : Past(docs[postings[t][k] + 1], Here)
      BY <1>2, <1>3, <2>1
    <2>3. CASE t \in found
      <3> DEFINE n == Len(postings[t])
      <3>1. postings[t] \in Seq(Nat) /\ n \in Nat /\ id \in Nat
        BY <1>3, <1>10, <2>3
      <3>2. postings'[t] = Append(postings[t], id)
        BY <1>9, <2>3
      <3>3. /\ DOMAIN postings[t] = 1 .. n /\ DOMAIN postings'[t] = 1 .. n + 1
            /\ postings'[t][n + 1] = id
            /\ \A k \in 1 .. n : postings'[t][k] = postings[t][k]
        BY <3>1, <3>2
      <3>4. /\ id + 1 \in DOMAIN docs /\ docs[id + 1] = Here
            /\ t \in Record(segs, Here).terms
        BY <1>4, <1>6, <2>3 DEF found
      <3>5. \A k \in DOMAIN postings'[t] :
              /\ postings'[t][k] + 1 \in DOMAIN docs
              /\ Past(docs[postings'[t][k] + 1], Here)
              /\ t \in Record(segs, docs[postings'[t][k] + 1]).terms
        <4> SUFFICES ASSUME NEW k \in 1 .. n + 1
                     PROVE  /\ postings'[t][k] + 1 \in DOMAIN docs
                            /\ Past(docs[postings'[t][k] + 1], Here)
                            /\ t \in Record(segs, docs[postings'[t][k] + 1]).terms
          BY <3>3
        <4>1. CASE k = n + 1
          BY <1>2, <3>3, <3>4, <4>1
        <4>2. CASE k # n + 1
          <5>1. k \in 1 .. n
            BY <3>1, <4>2
          <5>. QED
            BY <2>1, <2>2, <3>3, <5>1
        <4>. QED
          BY <4>1, <4>2
      <3>6. \A j, k \in DOMAIN postings'[t] : j < k => postings'[t][j] < postings'[t][k]
        <4> SUFFICES ASSUME NEW j \in 1 .. n + 1, NEW k \in 1 .. n + 1, j < k
                     PROVE  postings'[t][j] < postings'[t][k]
          BY <3>3
        <4>1. j \in 1 .. n
          BY <3>1
        <4>2. CASE k = n + 1
          <5>1. postings[t][j] < id
            BY <1>7, <2>3, <3>3, <4>1 DEF found
          <5>. QED
            BY <3>3, <4>1, <4>2, <5>1
        <4>3. CASE k # n + 1
          <5>1. k \in 1 .. n
            BY <3>1, <4>3
          <5>. QED
            BY <2>1, <3>3, <4>1, <5>1
        <4>. QED
          BY <4>2, <4>3
      <3>7. ASSUME NEW l \in Locations(segs),
                   Past(l, Here), Keeps(l), t \in Record(segs, l).terms
            PROVE  \E k \in DOMAIN postings'[t] : postings'[t][k] = remaps[l]
        <4>1. CASE l = Here
          <5>1. n + 1 \in DOMAIN postings'[t]
            BY <3>1, <3>3
          <5>. QED
            BY <3>3, <4>1, <5>1
        <4>2. CASE l # Here
          <5>1. PICK k \in DOMAIN postings[t] : postings[t][k] = remaps[l]
            BY <1>2, <2>1, <3>7, <4>2
          <5>2. k \in DOMAIN postings'[t] /\ postings'[t][k] = postings[t][k]
            BY <3>1, <3>3
          <5>. QED
            BY <5>1, <5>2
        <4>. QED
          BY <4>1, <4>2
      <3>. QED
        BY <3>5, <3>6, <3>7
    <2>4. CASE t \notin found
      <3>1. postings'[t] = postings[t]
        BY <1>9, <2>4
      <3>2. Keeps(Here) => t \notin Record(segs, Here).terms
        BY <1>6, <2>4 DEF found
      <3>3. \A l \in Locations(segs) :
              Past(l, Here) /\ Keeps(l) /\ t \in Record(segs, l).terms => Past(l, cur)
        BY <1>2, <3>2
      <3>. QED
        BY <2>1, <2>2, <3>1, <3>3
    <2>. QED
      BY <2>3, <2>4
  <1>15. PostingsUpTo(cur)'
    BY <1>1, <1>13, <1>14 DEF PostingsUpTo
  <1>. QED
    BY <1>1, <1>9, <1>11, <1>12, <1>13, <1>15 DEF IInv

LEMMA NextIInv == IInv /\ [Next]_vars => IInv'
  <1> SUFFICES ASSUME IInv, [Next]_vars PROVE IInv'
    OBVIOUS
  <1>1. CASE CheckCapability
    BY <1>1, CheckCapabilityIInv
  <1>2. CASE NextSegment
    BY <1>2, NextSegmentIInv
  <1>3. CASE RecordWinner
    BY <1>3, RecordWinnerIInv
  <1>4. CASE NextLoop("winners", "plan")
    BY <1>4, WinnersDoneIInv
  <1>5. CASE PlanRecord
    BY <1>5, PlanRecordIInv
  <1>6. CASE NextLoop("plan", "postings")
    BY <1>6, PlanDoneIInv
  <1>7. CASE AppendPostings
    BY <1>7, AppendPostingsIInv
  <1>8. CASE NextLoop("postings", "done")
    BY <1>8, PostingsDoneIInv
  <1>9. CASE UNCHANGED vars
    <2>1. UNCHANGED <<segs, phase, cur, winners, docs, remaps, postings>>
      BY <1>9 DEF vars
    <2>2. TypeOK => TypeOK'
      BY <2>1 DEF TypeOK
    <2>3. CursorOK /\ OnlyMixedRejected => CursorOK' /\ OnlyMixedRejected'
      BY <2>1 DEF CursorOK, InSegment, OnlyMixedRejected
    <2>4. NoWinners /\ NoPlan /\ NoPostings <=> (NoWinners /\ NoPlan /\ NoPostings)'
      BY <2>1 DEF NoWinners, NoPlan, NoPostings
    <2>5. NoPlan /\ NoPostings => NoPlan' /\ NoPostings'
      BY <2>1 DEF NoPlan, NoPostings
    <2>6. NoPostings => NoPostings'
      BY <2>1 DEF NoPostings
    <2>7. WinnersUpTo(cur) => WinnersUpTo(cur)'
      BY <2>1 DEF WinnersUpTo
    <2>8. WinnersUpTo(End) => WinnersUpTo(End)'
      BY <2>1 DEF WinnersUpTo, End
    <2>9. PlanUpTo(cur) => PlanUpTo(cur)'
      BY <2>1 DEF PlanUpTo, Keeps
    <2>10. PlanUpTo(End) => PlanUpTo(End)'
      BY <2>1 DEF PlanUpTo, Keeps, End
    <2>11. PostingsUpTo(cur) => PostingsUpTo(cur)'
      BY <2>1 DEF PostingsUpTo, Keeps
    <2>12. PostingsUpTo(End) => PostingsUpTo(End)'
      BY <2>1 DEF PostingsUpTo, Keeps, End
    <2>. QED
      BY <2>1, <2>2, <2>3, <2>4, <2>5, <2>6, <2>7, <2>8, <2>9, <2>10, <2>11, <2>12 DEF IInv
  <1>. QED
    BY <1>1, <1>2, <1>3, <1>4, <1>5, <1>6, <1>7, <1>8, <1>9 DEF Next

LEMMA SpecIInv == Spec => []IInv
  BY InitIInv, NextIInv, PTL DEF Spec

-----------------------------------------------------------------------------
(* What the invariant says when the loops have ended. *)

\* Keeps, the test of the second loop, recognises the visible records.
LEMMA KeepsVisible ==
  ASSUME TypeOK, WinnersUpTo(End), NEW l \in Locations(segs)
  PROVE  Keeps(l) <=> l \in Visible(segs)
  <1> DEFINE p == Record(segs, l).path
             w == winners[p]
  <1>1. segs \in Seq(Segments) /\ p \in Paths
    BY LocationParts DEF TypeOK, Records
  <1>2. \A k \in Locations(segs) : Past(k, End)
    BY LoopEnds
  <1>3. /\ w \in Locations(segs) /\ Record(segs, w).path = p
        /\ \A k \in Locations(segs) : Record(segs, k).path = p => ~ Before(w, k)
    BY <1>1, <1>2 DEF WinnersUpTo
  <1>4. w = l <=> Newest(segs, l)
    BY <1>1, <1>3, BeforeOrder DEF Newest
  <1>. QED
    BY <1>4 DEF Keeps, Visible

\* The documents loaded are the newest live records of the paths, in the order
\* of the segments: no deleted path returns (build_visibility_plan).
THEOREM VisibilityCorrect == Spec => []VisibleExactly
  <1>1. ASSUME IInv PROVE VisibleExactly
    <2> SUFFICES ASSUME phase = "done" PROVE VisibleExactly
      BY DEF VisibleExactly
    <2>1. TypeOK /\ WinnersUpTo(End) /\ PlanUpTo(End)
      BY <1>1 DEF IInv
    <2>2. \A l \in Locations(segs) : Past(l, End)
      BY <2>1, LoopEnds
    <2>3. \A k \in DOMAIN docs : docs[k] \in Visible(segs)
      BY <2>1, KeepsVisible DEF PlanUpTo
    <2>4. \A l \in Visible(segs) : \E k \in DOMAIN docs : docs[k] = l
      <3>1. \A l \in Visible(segs) : l \in Locations(segs)
        BY DEF Visible
      <3>. QED
        BY <2>1, <2>2, <3>1, KeepsVisible DEF PlanUpTo
    <2>5. {docs[k] : k \in DOMAIN docs} = Visible(segs)
      BY <2>3, <2>4
    <2>6. \A j, k \in DOMAIN docs : j < k => Before(docs[j], docs[k])
      BY <2>1 DEF PlanUpTo
    <2>. QED
      BY <2>5, <2>6 DEF VisibleExactly
  <1>. QED
    BY <1>1, SpecIInv, PTL

\* Every posting list names the visible documents that contain the term, by
\* their identifiers in the combined table, in increasing order
\* (append_remapped_postings).
THEOREM PostingsCorrect == Spec => []PostingsExact
  <1>1. ASSUME IInv PROVE PostingsExact
    <2> SUFFICES ASSUME phase = "done", NEW t \in Terms
                 PROVE  /\ {docs[postings[t][k] + 1] : k \in DOMAIN postings[t]}
                              = {l \in Visible(segs) : t \in Record(segs, l).terms}
                        /\ \A j, k \in DOMAIN postings[t] :
                             j < k => postings[t][j] < postings[t][k]
      BY DEF PostingsExact
    <2>1. TypeOK /\ WinnersUpTo(End) /\ PlanUpTo(End) /\ PostingsUpTo(End)
      BY <1>1 DEF IInv
    <2>2. \A l \in Locations(segs) : Past(l, End)
      BY <2>1, LoopEnds
    <2>3. \A k \in DOMAIN postings[t] :
            /\ docs[postings[t][k] + 1] \in Visible(segs)
            /\ t \in Record(segs, docs[postings[t][k] + 1]).terms
      <3>1. \A k \in DOMAIN docs : docs[k] \in Visible(segs)
        BY <2>1, KeepsVisible DEF PlanUpTo
      <3>. QED
        BY <2>1, <3>1 DEF PostingsUpTo
    <2>4. ASSUME NEW l \in Visible(segs), t \in Record(segs, l).terms
          PROVE  \E k \in DOMAIN postings[t] : docs[postings[t][k] + 1] = l
      <3>1. l \in Locations(segs) /\ Keeps(l)
        BY <2>1, KeepsVisible DEF Visible
      <3>2. docs[remaps[l] + 1] = l
        BY <2>1, <2>2, <3>1 DEF PlanUpTo
      <3>3. PICK k \in DOMAIN postings[t] : postings[t][k] = remaps[l]
        BY <2>1, <2>2, <2>4, <3>1 DEF PostingsUpTo
      <3>. QED
        BY <3>2, <3>3
    <2>. QED
      BY <2>1, <2>3, <2>4 DEF PostingsUpTo
  <1>. QED
    BY <1>1, SpecIInv, PTL

\* Remapped identifiers always satisfy add_posting's ordering check: loading
\* fails only for segments that do not all store positions or all omit them.
THEOREM RemappingAccepted == Spec => [](TypeOK /\ OnlyMixedRejected)
  <1>1. IInv => TypeOK /\ OnlyMixedRejected
    BY DEF IInv
  <1>. QED
    BY <1>1, SpecIInv, PTL

-----------------------------------------------------------------------------
(* Ranking. *)

\* Of two candidates exactly one ranks before the other (better_rank).
LEMMA RankTotal ==
  ASSUME NEW s, Ranked(s), NEW c \in s, NEW d \in s, c # d
  PROVE  /\ BetterRank(c, d) \/ BetterRank(d, c)
         /\ ~ (BetterRank(c, d) /\ BetterRank(d, c))
  BY DEF Ranked, BetterRank

\* Ranking before is transitive (better_rank).
LEMMA RankTransitive ==
  ASSUME NEW s, Ranked(s), NEW c \in s, NEW d \in s, NEW e \in s,
         BetterRank(c, d), BetterRank(d, e)
  PROVE  BetterRank(c, e)
  BY DEF Ranked, BetterRank

\* No candidate ranks before itself (better_rank).
LEMMA RankIrreflexive ==
  ASSUME NEW s, Ranked(s), NEW c \in s
  PROVE  ~ BetterRank(c, c)
  BY DEF Ranked, BetterRank

\* A part of a set of candidates is one (rank_documents).
LEMMA RankedSubset ==
  ASSUME NEW s, Ranked(s), NEW t, t \subseteq s
  PROVE  Ranked(t) /\ IsFiniteSet(t)
  BY FS_Subset DEF Ranked

\* The top of a heap that is not empty is well defined, and all others rank
\* before it (rank_documents).
LEMMA WorstRanksLast ==
  ASSUME NEW s, Ranked(s), s # {}
  PROVE  /\ Worst(s) \in s
         /\ \A d \in s : d # Worst(s) => BetterRank(d, Worst(s))
<1> DEFINE After(c) == {d \in s : BetterRank(c, d)}
           T == {After(c) : c \in s}
<1>1. IsWellFoundedOn(StrictSubsetOrdering(s), SUBSET s)
  BY FS_StrictSubsetOrderingWellFounded, FS_FiniteSubsetsOfFinite DEF Ranked
<1>2. T \subseteq SUBSET s /\ T # {}
  OBVIOUS
<1>3. PICK a \in T : \A b \in T : ~ (<<b, a>> \in StrictSubsetOrdering(s))
  <2> HIDE DEF T
  <2> QED BY <1>1, <1>2, WFMin
<1>4. PICK c \in s : a = After(c)
  BY <1>3
<1>5. \A d \in s : ~ BetterRank(c, d)
  <2> SUFFICES ASSUME NEW d \in s, BetterRank(c, d) PROVE FALSE
    OBVIOUS
  <2>1. After(d) \subseteq After(c)
    BY RankTransitive
  <2>2. d \in After(c) /\ d \notin After(d)
    BY RankIrreflexive
  <2>3. <<After(d), After(c)>> \in StrictSubsetOrdering(s)
    BY <2>1, <2>2 DEF StrictSubsetOrdering
  <2> QED
    BY <2>3, <1>3, <1>4
<1>6. Worst(s) \in s /\ \A d \in s : ~ BetterRank(Worst(s), d)
  BY <1>5 DEF Worst
<1> QED
  BY <1>6, RankTotal

\* One turn of the loop of rank_documents: if the best k of the candidates
\* seen so far are kept, then so they are with one more.
THEOREM OfferKeepsBest ==
  ASSUME NEW k \in Nat \ {0}, NEW seen, NEW kept, NEW c, c \notin seen,
         Ranked(seen \cup {c}), Best(kept, seen, k)
  PROVE  Best(Offer(kept, c, k), seen \cup {c}, k)
<1> DEFINE all == seen \cup {c}
           w == Worst(kept)
<1>1. Ranked(kept) /\ IsFiniteSet(kept) /\ IsFiniteSet(seen)
  BY RankedSubset DEF Best
<1>2. /\ Cardinality(seen) \in Nat /\ Cardinality(kept) \in Nat
      /\ Cardinality(all) = Cardinality(seen) + 1
      /\ Cardinality(kept \cup {c}) = Cardinality(kept) + 1
      /\ Cardinality(kept) = (IF Cardinality(seen) < k THEN Cardinality(seen) ELSE k)
  BY <1>1, FS_CardinalityType, FS_AddElement DEF Best
<1>3. CASE HasRoom(kept, k)
  <2>1. Cardinality(kept) = Cardinality(seen) /\ Cardinality(seen) < k
    BY <1>2, <1>3 DEF HasRoom
  <2>2. kept = seen
    BY <2>1, <1>1, FS_Subset DEF Best
  <2>3. Offer(kept, c, k) = all
    BY <1>3, <2>2 DEF Offer
  <2>4. Cardinality(all) = (IF Cardinality(all) < k THEN Cardinality(all) ELSE k)
    BY <2>1, <1>2
  <2> QED
    BY <2>3, <2>4 DEF Best
<1>4. CASE ~ HasRoom(kept, k)
  <2>1. Cardinality(kept) = k /\ Cardinality(all) > k
    BY <1>2, <1>4 DEF HasRoom
  <2>2. kept # {}
    BY <2>1, FS_EmptySet
  <2>3. w \in kept /\ \A d \in kept : d # w => BetterRank(d, w)
    BY <2>2, <1>1, WorstRanksLast
  <2>4. kept \subseteq seen /\ \A d \in kept, e \in seen \ kept : BetterRank(d, e)
    BY DEF Best
  <2>5. CASE BetterRank(c, w)
    <3> DEFINE new == (kept \ {w}) \cup {c}
    <3>1. Offer(kept, c, k) = new
      BY <1>4, <2>5 DEF Offer
    <3>2. Cardinality(new) = k
      <4>1. IsFiniteSet(kept \ {w}) /\ Cardinality(kept \ {w}) = k - 1
        BY <2>1, <2>3, <1>1, FS_RemoveElement
      <4>2. c \notin kept \ {w}
        BY <2>4
      <4> QED
        BY <4>1, <4>2, FS_AddElement
    <3>3. ASSUME NEW d \in new, NEW e \in all \ new PROVE BetterRank(d, e)
      <4>1. e = w \/ e \in seen \ kept
        BY <3>3
      <4>2. BetterRank(d, w)
        BY <2>3, <2>5, <3>3
      <4>3. e \in seen \ kept => BetterRank(w, e)
        BY <2>3, <2>4
      <4> QED
        BY <4>1, <4>2, <4>3, <2>3, <2>4, RankTransitive
    <3>4. new \subseteq all
      BY <2>4
    <3> HIDE DEF new
    <3> QED
      BY <3>1, <3>2, <3>3, <3>4, <2>1, <1>2 DEF Best
  <2>6. CASE ~ BetterRank(c, w)
    <3>1. Offer(kept, c, k) = kept
      BY <1>4, <2>6 DEF Offer
    <3>2. BetterRank(w, c)
      <4>1. c # w /\ w \in all /\ c \in all
        BY <2>3, <2>4
      <4> QED
        BY <4>1, <2>6, RankTotal
    <3>3. ASSUME NEW d \in kept, NEW e \in all \ kept PROVE BetterRank(d, e)
      <4>1. e \in seen \ kept \/ e = c
        BY <3>3
      <4>2. BetterRank(d, c)
        BY <3>2, <2>3, <2>4, RankTransitive
      <4> QED
        BY <4>1, <4>2, <2>4
    <3> QED
      BY <3>1, <3>3, <2>1, <2>4, <1>2 DEF Best
  <2> QED
    BY <2>5, <2>6
<1> QED
  BY <1>3, <1>4

\* The best k of a set of candidates are determined by the set: the order in
\* which rank_documents meets them cannot show, even when scores are equal.
THEOREM BestUnique ==
  ASSUME NEW k \in Nat, NEW seen, Ranked(seen), NEW s, NEW t,
         Best(s, seen, k), Best(t, seen, k)
  PROVE  s = t
<1>1. IsFiniteSet(s) /\ IsFiniteSet(t)
  BY RankedSubset DEF Best
<1>2. Cardinality(s) = Cardinality(t) /\ s \subseteq seen /\ t \subseteq seen
  BY DEF Best
<1>3. SUFFICES ASSUME s # t PROVE FALSE
  OBVIOUS
<1>4. ~ (s \subseteq t) /\ ~ (t \subseteq s)
  BY <1>1, <1>2, <1>3, FS_Subset
<1>5. PICK c \in s \ t, d \in t \ s : TRUE
  BY <1>4
<1>6. BetterRank(c, d) /\ BetterRank(d, c)
  BY <1>2, <1>5 DEF Best
<1>7. c # d
  BY <1>5
<1> QED
  BY <1>2, <1>5, <1>6, <1>7, RankTotal

-----------------------------------------------------------------------------
(* Candidates. *)

\* The candidates of a set of documents.
Candidates(s) == {Candidate(d) : d \in s}

\* What is assumed of the index that is searched.
LEMMA IndexIs ==
  ASSUME search \in Searches
  PROVE  /\ Len(Index.docs) \in Nat /\ Universe(Index) = 1 .. Len(Index.docs)
         /\ \A d \in Universe(Index) :
              /\ Doc(d) = Index.docs[d] /\ Doc(d).path \in Int
              /\ Len(Doc(d).text) \in Nat /\ DOMAIN Doc(d).text = 1 .. Len(Doc(d).text)
         /\ \A c, d \in Universe(Index) : Doc(c).path = Doc(d).path => c = d
  <1>1. IsIndex(Index)
    BY ResultsAssumption DEF Index
  <1>2. ASSUME NEW d \in Universe(Index)
        PROVE  Len(Doc(d).text) \in Nat /\ DOMAIN Doc(d).text = 1 .. Len(Doc(d).text)
    <2>1. Doc(d).text \in Seq(ToSet(Doc(d).text))
      BY <1>1 DEF IsIndex, Universe, Doc
    <2> DEFINE x == Doc(d).text
    <2> HIDE DEF x
    <2>2. x \in Seq(ToSet(x)) => Len(x) \in Nat /\ DOMAIN x = 1 .. Len(x)
      BY LenProperties
    <2>. QED
      BY <2>1, <2>2 DEF x
  <1>. QED
    BY <1>1, <1>2 DEF IsIndex, Universe, Doc

\* Where a term occurs, and in which documents, is finite.
LEMMA OccursFinite ==
  ASSUME search \in Searches, NEW d \in Universe(Index), NEW t
  PROVE  /\ Cardinality(Occurs(Index, d, t)) \in Nat
         /\ Cardinality(Postings(Index, t)) \in Nat
  <1>1. Occurs(Index, d, t) \subseteq 1 .. Len(Doc(d).text) /\ Len(Doc(d).text) \in Nat
    BY IndexIs DEF Occurs, Doc
  <1>2. Postings(Index, t) \subseteq 1 .. Len(Index.docs) /\ Len(Index.docs) \in Nat
    BY IndexIs DEF Postings
  <1>3. ASSUME NEW n \in Nat, NEW S \in SUBSET (1 .. n) PROVE Cardinality(S) \in Nat
    <2>1. IsFiniteSet(1 .. n)
      BY FS_Interval
    <2>. QED
      BY <2>1, FS_Subset, FS_CardinalityType
  <1>. QED
    BY <1>1, <1>2, <1>3

\* The terms that are in a document are finitely many, whatever is scored.
LEMMA TermsFinite ==
  ASSUME search \in Searches, NEW d \in Universe(Index), NEW scored
  PROVE  IsFiniteSet({t \in scored : Occurs(Index, d, t) # {}})
  <1> DEFINE T == {t \in scored : Occurs(Index, d, t) # {}}
             x == Doc(d).text
             P == {p \in DOMAIN x : x[p] \in scored}
             f == [p \in P |-> x[p]]
  <1>1. Len(x) \in Nat /\ DOMAIN x = 1 .. Len(x) /\ x = Index.docs[d].text
    BY IndexIs DEF Doc
  <1>2. IsFiniteSet(P)
    <2>1. IsFiniteSet(1 .. Len(x))
      BY <1>1, FS_Interval
    <2>. QED
      BY <1>1, <2>1, FS_Subset
  <1>3. \A t : t \in T <=> t \in scored /\ \E p \in DOMAIN x : x[p] = t
    BY <1>1 DEF Occurs
  <1>4. f \in Surjection(P, T)
    <2> HIDE DEF T, x
    <2>1. \A p \in P : x[p] \in T
      BY <1>3
    <2>2. \A t \in T : \E p \in P : x[p] = t
      BY <1>3
    <2>. QED
      BY <2>1, <2>2 DEF Surjection
  <1> HIDE DEF T, P, f
  <1>5. IsFiniteSet(T)
    BY <1>2, <1>4, FS_Surjection
  <1>. QED
    BY <1>5 DEF T

\* A score is a sum of finitely many contributions (score_document).
LEMMA ScoreType ==
  ASSUME search \in Searches, NEW d \in Universe(Index), NEW scored
  PROVE  Score(d, scored) \in Int
  <1> DEFINE T == {t \in scored : Occurs(Index, d, t) # {}}
             G(t) == Contribution(Cardinality(Occurs(Index, d, t)), Cardinality(Postings(Index, t)))
             g == [t \in T |-> G(t)]
  <1>1. IsFiniteSet(T)
    BY TermsFinite
  <1>2. \A t : G(t) \in Int
    <2>1. \A x, y, n \in Nat : x * (1 + n - y) \in Int
      OBVIOUS
    <2>2. Len(Index.docs) \in Nat
      BY IndexIs
    <2>3. \A t : Cardinality(Occurs(Index, d, t)) \in Nat /\ Cardinality(Postings(Index, t)) \in Nat
      BY OccursFinite
    <2>. QED
      BY <2>1, <2>2, <2>3 DEF Contribution
  <1>3. Score(d, scored) = SumOf(g)
    BY DEF Score, SumOf
  <1> HIDE DEF T, G
  <1>4. g \in [T -> Int]
    BY <1>2
  <1> HIDE DEF g
  <1>. QED
    BY <1>1, <1>3, <1>4, SumType

\* A candidate names its document.
LEMMA CandidateIs ==
  ASSUME NEW d
  PROVE  /\ Candidate(d).id = d /\ Candidate(d).score = Score(d, terms)
         /\ Candidate(d).path = Doc(d).path
  BY DEF Candidate

\* Documents and their candidates correspond.
LEMMA CandidatesBijection ==
  ASSUME NEW s
  PROVE  [d \in s |-> Candidate(d)] \in Bijection(s, Candidates(s))
  <1> DEFINE f == [d \in s |-> Candidate(d)]
  <1>1. f \in [s -> Candidates(s)]
    BY DEF Candidates
  <1>2. \A c, d \in s : f[c] = f[d] => c = d
    BY CandidateIs
  <1>3. \A c \in Candidates(s) : \E d \in s : f[d] = c
    BY DEF Candidates
  <1>4. DOMAIN f = s
    OBVIOUS
  <1> HIDE DEF f
  <1>5. IsInjective(f)
    BY <1>2, <1>4 DEF IsInjective
  <1>6. f \in Bijection(s, Candidates(s))
    BY <1>1, <1>3, <1>5 DEF Bijection, Injection, Surjection
  <1>. QED
    BY <1>6 DEF f

\* The matches are different documents with different paths, and as many
\* candidates.
LEMMA RankedMatches ==
  ASSUME search \in Searches, NEW s \in SUBSET Universe(Index)
  PROVE  /\ IsFiniteSet(s) /\ Ranked(Candidates(s))
         /\ Cardinality(Candidates(s)) = Cardinality(s) /\ Cardinality(s) \in Nat
  <1>1. IsFiniteSet(s)
    <2>1. IsFiniteSet(Universe(Index))
      BY IndexIs, FS_Interval
    <2>. QED
      BY <2>1, FS_Subset
  <1>2. IsFiniteSet(Candidates(s)) /\ Cardinality(Candidates(s)) = Cardinality(s)
    <2>1. ExistsBijection(s, Candidates(s))
      BY CandidatesBijection DEF ExistsBijection
    <2>. QED
      BY <1>1, <2>1, FS_Bijection
  <1>3. \A c \in Candidates(s) : \E d \in s : c = Candidate(d)
    BY DEF Candidates
  <1>4. \A d \in s : Candidate(d).score \in Int /\ Candidate(d).path \in Int
    <2>1. \A d \in s : d \in Universe(Index)
      OBVIOUS
    <2>. QED
      BY <2>1, CandidateIs, ScoreType, IndexIs
  <1>5. \A c, d \in s : Candidate(c).path = Candidate(d).path => c = d
    <2>1. \A d \in s : d \in Universe(Index)
      OBVIOUS
    <2>. QED
      BY <2>1, CandidateIs, IndexIs
  <1>6. Ranked(Candidates(s))
    BY <1>2, <1>3, <1>4, <1>5 DEF Ranked
  <1>. QED
    BY <1>1, <1>2, <1>6, FS_CardinalityType

-----------------------------------------------------------------------------
(* The order of the hits. *)

\* h lists s by better_rank.
Lists(h, s) ==
  /\ h \in Bijection(1 .. Cardinality(s), s)
  /\ \A j, k \in DOMAIN h : j < k => BetterRank(h[j], h[k])

\* Candidates can be put in order: the worst comes last (rank_documents).
LEMMA ListExists ==
  ASSUME NEW s, Ranked(s)
  PROVE  \E h : Lists(h, s)
  <1> DEFINE T == {n \in Nat : \A r \in SUBSET s : Cardinality(r) = n => \E h : Lists(h, r)}
  <1>0. ASSUME NEW r \in SUBSET s PROVE Ranked(r) /\ IsFiniteSet(r) /\ Cardinality(r) \in Nat
    BY RankedSubset, FS_CardinalityType
  <1>1. 0 \in T
    <2> SUFFICES ASSUME NEW r \in SUBSET s, Cardinality(r) = 0 PROVE \E h : Lists(h, r)
      OBVIOUS
    <2>1. r = {}
      BY <1>0, FS_EmptySet
    <2>2. Cardinality(r) = 0 /\ 1 .. 0 = {}
      OBVIOUS
    <2> DEFINE h == [k \in {} |-> k]
    <2>3. h \in [{} -> {}] /\ DOMAIN h = {}
      OBVIOUS
    <2>4. Lists(h, r)
      BY <2>1, <2>2, <2>3 DEF Lists, Bijection, Injection, Surjection, IsInjective
    <2>. QED
      BY <2>4
  <1>2. ASSUME NEW n \in Nat, n \in T PROVE n + 1 \in T
    <2> SUFFICES ASSUME NEW r \in SUBSET s, Cardinality(r) = n + 1 PROVE \E h : Lists(h, r)
      OBVIOUS
    <2> DEFINE w == Worst(r)
               q == r \ {w}
    <2>1. r # {} /\ Ranked(r) /\ IsFiniteSet(r)
      BY <1>0, FS_EmptySet
    <2>2. w \in r /\ \A d \in r : d # w => BetterRank(d, w)
      BY <2>1, WorstRanksLast
    <2>3. Cardinality(q) = n /\ q \in SUBSET s
      BY <2>1, <2>2, FS_RemoveElement
    <2>4. PICK g : Lists(g, q)
      BY <1>2, <2>3
    <2> DEFINE h == [k \in 1 .. n + 1 |-> IF k = n + 1 THEN w ELSE g[k]]
    <2> HIDE DEF w
    <2>5. g \in [1 .. n -> q] /\ DOMAIN g = 1 .. n
      BY <2>3, <2>4 DEF Lists, Bijection, Injection
    <2>6. /\ \A j, k \in 1 .. n : g[j] = g[k] => j = k
          /\ \A d \in q : \E k \in 1 .. n : g[k] = d
          /\ \A j, k \in 1 .. n : j < k => BetterRank(g[j], g[k])
      BY <2>3, <2>4, <2>5 DEF Lists, Bijection, Injection, Surjection, IsInjective
    <2>7. \A k \in 1 .. n + 1 : k = n + 1 \/ k \in 1 .. n
      OBVIOUS
    <2>8. \A k \in 1 .. n : g[k] \in r /\ g[k] # w /\ k # n + 1 /\ k \in 1 .. n + 1
      BY <2>5
    <2>9. h \in [1 .. n + 1 -> r] /\ DOMAIN h = 1 .. n + 1
      BY <2>2, <2>7, <2>8
    <2>10. /\ h[n + 1] = w /\ n + 1 \in 1 .. n + 1
           /\ \A k \in 1 .. n : h[k] = g[k]
      BY <2>8
    <2> HIDE DEF h
    <2>11. IsInjective(h)
      BY <2>6, <2>7, <2>8, <2>9, <2>10 DEF IsInjective
    <2>12. ASSUME NEW d \in r PROVE \E k \in 1 .. n + 1 : h[k] = d
      <3>1. CASE d = w
        BY <2>10, <3>1
      <3>2. CASE d # w
        <4>1. PICK k \in 1 .. n : g[k] = d
          BY <2>6, <3>2
        <4>. QED
          BY <2>8, <2>10, <4>1
      <3>. QED
        BY <3>1, <3>2
    <2>13. ASSUME NEW j \in 1 .. n + 1, NEW k \in 1 .. n + 1, j < k PROVE BetterRank(h[j], h[k])
      <3>1. j \in 1 .. n
        BY <2>13
      <3>2. CASE k = n + 1
        BY <2>2, <2>8, <2>10, <3>1, <3>2
      <3>3. CASE k \in 1 .. n
        BY <2>6, <2>10, <2>13, <3>1, <3>3
      <3>. QED
        BY <2>7, <3>2, <3>3
    <2>14. Lists(h, r)
      BY <2>9, <2>11, <2>12, <2>13 DEF Lists, Bijection, Injection, Surjection
    <2>. QED
      BY <2>14
  <1> HIDE DEF T
  <1>3. \A n \in Nat : n \in T
    BY <1>1, <1>2, NatInductive
  <1>4. Cardinality(s) \in T
    BY <1>0, <1>3
  <1>. QED
    BY <1>4 DEF T

\* The hits are all that is kept, each once, better ones first
\* (rank_documents).
LEMMA SortedLists ==
  ASSUME NEW s, Ranked(s)
  PROVE  Lists(Sorted(s), s)
  <1> DEFINE B == Bijection(1 .. Cardinality(s), s)
             InOrder(h) == \A j, k \in DOMAIN h : j < k => ~ BetterRank(h[k], h[j])
  <1>1. ASSUME NEW h \in B
        PROVE  /\ DOMAIN h = 1 .. Cardinality(s) /\ Cardinality(s) \in Nat
               /\ \A j \in DOMAIN h : h[j] \in s
               /\ \A j, k \in DOMAIN h : h[j] = h[k] => j = k
    <2>1. IsFiniteSet(s)
      BY DEF Ranked
    <2>. QED
      BY <2>1, FS_CardinalityType DEF Bijection, Injection, IsInjective
  <1>2. \E h \in B : InOrder(h)
    <2>1. PICK h : Lists(h, s)
      BY ListExists
    <2>2. h \in B /\ \A j, k \in DOMAIN h : j < k => BetterRank(h[j], h[k])
      BY <2>1 DEF Lists
    <2>3. ASSUME NEW j \in DOMAIN h, NEW k \in DOMAIN h, j < k PROVE ~ BetterRank(h[k], h[j])
      <3>1. h[j] # h[k]
        BY <1>1, <2>2, <2>3
      <3>. QED
        BY <1>1, <2>2, <2>3, <3>1, RankTotal
    <2>. QED
      BY <2>2, <2>3
  <1>3. Sorted(s) = CHOOSE h \in B : InOrder(h)
    BY DEF Sorted
  <1> DEFINE h == Sorted(s)
  <1>4. h \in B /\ InOrder(h)
    BY <1>2, <1>3
  <1> HIDE DEF h, B
  <1>5. ASSUME NEW j \in DOMAIN h, NEW k \in DOMAIN h, j < k PROVE BetterRank(h[j], h[k])
    <2>1. h[j] # h[k] /\ h[j] \in s /\ h[k] \in s
      BY <1>1, <1>4, <1>5
    <2>. QED
      BY <1>4, <1>5, <2>1, RankTotal
  <1>. QED
    BY <1>4, <1>5 DEF Lists, h, B

-----------------------------------------------------------------------------
(* Ranking, step by step. *)

\* The set of identifiers that is ranked so far.
RankedSoFar == matches \ rest

\* The heap holds the best of the matches it was offered; the hits list it.
RankingInv ==
  /\ search \in Searches
  /\ matches \subseteq Universe(Index) /\ rest \subseteq matches
  /\ pc \in {"rank", "present"} => search.top_k > 0
  /\ pc = "query" => top = {}
  /\ pc = "rank" => Best(top, Candidates(RankedSoFar), search.top_k)
  /\ pc \in {"present", "done"} /\ search.top_k > 0 =>
       Best(top, Candidates(matches), search.top_k) /\ hits = Sorted(top)

\* Before anything is offered, nothing is the best (rank_documents).
LEMMA NothingIsBest ==
  ASSUME NEW k \in Nat
  PROVE  Best({}, {}, k)
  BY FS_EmptySet DEF Best

\* The candidates do not change while they are ranked.
LEMMA CandidatesStay ==
  ASSUME UNCHANGED <<search, terms>>
  PROVE  /\ Index' = Index /\ \A d : Candidate(d)' = Candidate(d)
         /\ \A s : Candidates(s)' = Candidates(s)
  <1>1. Index' = Index
    BY DEF Index
  <1>2. ASSUME NEW d PROVE Candidate(d)' = Candidate(d)
    <2> DEFINE T == {t \in terms : Occurs(Index, d, t) # {}}
               g == [t \in T |-> Contribution(Cardinality(Occurs(Index, d, t)), Cardinality(Postings(Index, t)))]
    <2>1. g' = g
      BY <1>1 DEF Contribution
    <2>2. Score(d, terms) = SumOf(g)
      BY DEF Score, SumOf
    <2>3. Score(d, terms)' = SumOf(g)'
      BY DEF Score, SumOf
    <2>4. Score(d, terms)' = Score(d, terms)
      <3> HIDE DEF g
      <3>. QED
        BY <2>1, <2>2, <2>3
    <2>5. Doc(d)' = Doc(d)
      BY <1>1 DEF Doc
    <2>. QED
      BY <2>4, <2>5 DEF Candidate
  <1>. QED
    BY <1>1, <1>2 DEF Candidates

\* The next match is one of those left (rank_documents).
LEMMA NextMatch ==
  ASSUME search \in Searches, rest \subseteq Universe(Index), rest # {}
  PROVE  Min(rest) \in rest
  <1>1. rest \in SUBSET Nat
    BY IndexIs
  <1>2. \E m \in rest : \A k \in rest : m <= k
    BY <1>1, NatLeast
  <1>. QED
    BY <1>2 DEF Min

\* At the start nothing is ranked.
LEMMA RankingInit == ResultsInit => RankingInv
  BY DEF ResultsInit, RankingInv, Universe

\* The loop starts with an empty heap (rank_documents).
LEMMA RankingAnswered ==
  ASSUME RankingInv, NEW found \in SUBSET Universe(Index), NEW scored, Answered(found, scored)
  PROVE  RankingInv'
  <1>1. search.top_k \in Nat
    BY ResultsAssumption DEF RankingInv
  <1>2. Universe(Index)' = Universe(Index)
    BY DEF Answered, Index
  <1>3. RankedSoFar' = {}
    BY DEF Answered, RankedSoFar
  <1>4. Candidates(RankedSoFar)' = {}
    BY <1>3 DEF Candidates
  <1>5. Best({}, {}, search.top_k)
    BY <1>1, NothingIsBest
  <1>6. top' = {} /\ search' = search
    BY DEF Answered, RankingInv
  <1>. QED
    BY <1>2, <1>4, <1>5, <1>6 DEF Answered, RankingInv

\* One match more has been offered (rank_documents).
LEMMA RankingRank ==
  ASSUME RankingInv, Rank
  PROVE  RankingInv'
  <1> DEFINE m == Min(rest)
             k == search.top_k
             seen == Candidates(RankedSoFar)
             c == Candidate(m)
  <1>1. /\ search \in Searches /\ matches \subseteq Universe(Index) /\ rest \subseteq matches
        /\ pc = "rank" /\ rest # {} /\ k > 0 /\ Best(top, seen, k)
    BY DEF RankingInv, Rank
  <1>2. k \in Nat \ {0}
    BY <1>1, ResultsAssumption
  <1>3. m \in rest
    BY <1>1, NextMatch
  <1>4. RankedSoFar' = RankedSoFar \cup {m} /\ m \notin RankedSoFar
    BY <1>1, <1>3 DEF Rank, RankedSoFar
  <1>5. /\ Index' = Index /\ \A s : Candidates(s)' = Candidates(s)
    BY CandidatesStay DEF Rank
  <1>6. Candidates(RankedSoFar)' = seen \cup {c}
    <2>1. Candidates(RankedSoFar)' = {Candidate(d) : d \in RankedSoFar \cup {m}}
      BY <1>4, CandidatesStay DEF Rank, Candidates
    <2>. QED
      BY <2>1 DEF Candidates
  <1>7. c \notin seen
    BY <1>4, CandidateIs DEF Candidates
  <1>8. Ranked(seen \cup {c})
    <2>1. RankedSoFar \cup {m} \in SUBSET Universe(Index)
      BY <1>1, <1>3 DEF RankedSoFar
    <2>2. seen \cup {c} = Candidates(RankedSoFar \cup {m})
      BY DEF Candidates
    <2>. QED
      BY <1>1, <2>1, <2>2, RankedMatches
  <1>9. Best(Offer(top, c, k), seen \cup {c}, k)
    BY <1>1, <1>2, <1>7, <1>8, OfferKeepsBest
  <1>10. top' = Offer(top, c, k) /\ search' = search
    BY DEF Rank
  <1>11. Best(top', Candidates(RankedSoFar)', search'.top_k)
    BY <1>6, <1>9, <1>10
  <1> HIDE DEF m, seen, c
  <1>. QED
    BY <1>1, <1>5, <1>11 DEF RankingInv, Rank

\* All matches have been offered (rank_documents).
LEMMA RankingSort ==
  ASSUME RankingInv, Sort
  PROVE  RankingInv'
  <1>1. /\ pc = "rank" /\ rest = {} /\ search.top_k > 0
        /\ Best(top, Candidates(RankedSoFar), search.top_k) /\ RankedSoFar = matches
    BY DEF RankingInv, Sort, RankedSoFar
  <1>2. Index' = Index /\ \A s : Candidates(s)' = Candidates(s)
    BY CandidatesStay DEF Sort
  <1>3. pc' \in {"present", "done"} /\ hits' = Sorted(top) /\ Sorted(top)' = Sorted(top)
    BY DEF Sort, Sorted
  <1>4. Candidates(matches)' = Candidates(matches)
    BY <1>2 DEF Sort, Candidates
  <1>. QED
    BY <1>1, <1>2, <1>3, <1>4 DEF RankingInv, Sort

\* Neither presenting nor ending without an answer touches what is ranked.
LEMMA RankingRest ==
  ASSUME RankingInv,
         Present \/ (\E how \in {"rejected", "refused", "done"} : Unanswered(how)) \/ UNCHANGED resultVars
  PROVE  RankingInv'
  <1>1. UNCHANGED <<search, matches, terms, rest, top, hits>>
    BY DEF Present, Unanswered, resultVars
  <1>2. Index' = Index
    BY <1>1, CandidatesStay
  <1>3. Candidates(matches)' = Candidates(matches) /\ Candidates(RankedSoFar)' = Candidates(RankedSoFar)
    BY <1>1, CandidatesStay DEF Candidates, RankedSoFar
  <1>4. Sorted(top)' = Sorted(top)
    BY <1>1
  <1>5. CASE Present
    <2>1. pc = "present" /\ pc' \in {"present", "done"}
      BY <1>5 DEF Present
    <2>. QED
      BY <1>1, <1>2, <1>3, <1>4, <2>1 DEF RankingInv
  <1>6. CASE \E how \in {"rejected", "refused", "done"} : Unanswered(how)
    <2>1. pc' \in {"rejected", "refused", "done"} /\ (pc' = "done" => search.top_k = 0)
      BY <1>6 DEF Unanswered
    <2>2. search.top_k \in Nat
      BY ResultsAssumption DEF RankingInv
    <2>. QED
      BY <1>1, <1>2, <2>1, <2>2 DEF RankingInv
  <1>7. CASE UNCHANGED resultVars
    BY <1>1, <1>2, <1>3, <1>4, <1>7 DEF RankingInv, resultVars
  <1>. QED
    BY <1>5, <1>6, <1>7

\* RankingInv is inductive.
LEMMA RankingAlways == ResultsSpec => []RankingInv
  <1>1. RankingInv /\ [ResultsNext]_resultVars => RankingInv'
    <2> SUFFICES ASSUME RankingInv, [ResultsNext]_resultVars PROVE RankingInv'
      OBVIOUS
    <2>1. CASE \E found \in SUBSET Universe(Index), scored \in SUBSET QueryTerms : Answered(found, scored)
      BY <2>1, RankingAnswered
    <2>2. CASE Rank
      BY <2>2, RankingRank
    <2>3. CASE Sort
      BY <2>3, RankingSort
    <2>4. CASE Present \/ (\E how \in {"rejected", "refused", "done"} : Unanswered(how)) \/ UNCHANGED resultVars
      BY <2>4, RankingRest
    <2>. QED
      BY <2>1, <2>2, <2>3, <2>4 DEF ResultsNext
  <1>. QED
    BY <1>1, RankingInit, PTL DEF ResultsSpec

\* The hits of every search are the best of what matches, in order, for
\* indexes of any size, any scores and ties, and any top_k (rank_documents).
THEOREM BestAreShown == ResultsSpec => []BestShown
  <1>1. RankingInv => BestShown
    <2> SUFFICES ASSUME RankingInv, pc \in {"present", "done"}, search.top_k > 0
                 PROVE  BestShown
      BY DEF BestShown
    <2> DEFINE k == search.top_k
               n == Cardinality(top)
               C == Candidates(matches)
               shown == {hits[j].id : j \in DOMAIN hits}
               Precedes(c, d) ==
                 \/ Score(c, terms) > Score(d, terms)
                 \/ Score(c, terms) = Score(d, terms) /\ Doc(c).path < Doc(d).path
    <2>1. /\ search \in Searches /\ matches \in SUBSET Universe(Index)
          /\ Best(top, C, k) /\ hits = Sorted(top) /\ k \in Nat
      BY ResultsAssumption DEF RankingInv
    <2>2. IsFiniteSet(matches) /\ Ranked(C) /\ Cardinality(C) = Cardinality(matches) /\ Cardinality(matches) \in Nat
      BY <2>1, RankedMatches
    <2>3. top \subseteq C /\ Ranked(top) /\ IsFiniteSet(top)
      BY <2>1, <2>2, RankedSubset DEF Best
    <2>4. Lists(hits, top)
      BY <2>1, <2>3, SortedLists
    <2>5. /\ \A j \in DOMAIN hits : hits[j] \in top
          /\ \A c \in top : \E j \in DOMAIN hits : hits[j] = c
          /\ \A i, j \in DOMAIN hits : i < j => BetterRank(hits[i], hits[j])
      BY <2>4 DEF Lists, Bijection, Injection, Surjection
    <2>6. \A c, d : BetterRank(Candidate(c), Candidate(d)) <=> Precedes(c, d)
      BY CandidateIs DEF BetterRank
    <2>7. \A c \in C : c = Candidate(c.id) /\ c.id \in matches
      BY CandidateIs DEF Candidates
    <2>8. shown = {c.id : c \in top}
      BY <2>5
    <2>9. shown \subseteq matches /\ \A d \in shown : Candidate(d) \in top
      BY <2>3, <2>7, <2>8
    <2>10. top = Candidates(shown)
      BY <2>3, <2>7, <2>8, <2>9 DEF Candidates
    <2>11. Cardinality(shown) = n
      BY <2>1, <2>9, <2>10, RankedMatches
    <2>12. n = Min({k, Cardinality(matches)})
      <3>1. n = (IF Cardinality(matches) < k THEN Cardinality(matches) ELSE k)
        BY <2>1, <2>2 DEF Best
      <3>2. \A a, b \in Nat : Min({a, b}) = IF b < a THEN b ELSE a
        BY DEF Min
      <3>. QED
        BY <2>1, <2>2, <3>1, <3>2
    <2>13. ASSUME NEW c \in shown, NEW d \in matches \ shown PROVE Precedes(c, d)
      <3>1. Candidate(c) \in top /\ Candidate(d) \in C
        BY <2>9 DEF Candidates
      <3>2. Candidate(d) \notin top
        BY <2>8, CandidateIs
      <3>3. BetterRank(Candidate(c), Candidate(d))
        BY <2>1, <3>1, <3>2 DEF Best
      <3>. QED
        BY <2>6, <3>3
    <2>14. ASSUME NEW i \in DOMAIN hits, NEW j \in DOMAIN hits, i < j
           PROVE  Precedes(hits[i].id, hits[j].id)
      <3>1. hits[i] = Candidate(hits[i].id) /\ hits[j] = Candidate(hits[j].id)
        BY <2>3, <2>5, <2>7
      <3>2. BetterRank(hits[i], hits[j])
        BY <2>5, <2>14
      <3>. QED
        BY <2>6, <3>1, <3>2
    <2> HIDE DEF shown, n
    <2>. QED
      BY <2>9, <2>11, <2>12, <2>13, <2>14 DEF BestShown, shown
  <1>. QED
    BY <1>1, RankingAlways, PTL

-----------------------------------------------------------------------------
(* Lines. *)

\* What load_snippet has made of the characters so far.
Cuts == [line : Seq(Characters), lines : Seq(Seq(Characters))]

\* One character more (load_snippet).
LEMMA AddCharacterType ==
  ASSUME NEW s \in Cuts, NEW c \in Characters
  PROVE  AddCharacter(s, c) \in Cuts
  <1>1. s.line \in Seq(Characters) /\ s.lines \in Seq(Seq(Characters))
    BY DEF Cuts
  <1>2. CASE c # Newline
    <2>1. AddCharacter(s, c) = [s EXCEPT !.line = Append(@, c)]
      BY <1>2 DEF AddCharacter
    <2>2. Append(s.line, c) \in Seq(Characters)
      BY <1>1, AppendProperties
    <2>. QED
      BY <2>1, <2>2 DEF Cuts
  <1>3. CASE c = Newline
    <2> DEFINE l == IF s.line # <<>> /\ Last(s.line) = Return THEN Front(s.line) ELSE s.line
    <2>1. AddCharacter(s, c) = [line |-> <<>>, lines |-> Append(s.lines, l)]
      BY <1>3 DEF AddCharacter
    <2>2. l \in Seq(Characters)
      BY <1>1, FrontIs
    <2> HIDE DEF l
    <2>3. Append(s.lines, l) \in Seq(Seq(Characters)) /\ <<>> \in Seq(Characters)
      BY <1>1, <2>2, AppendProperties, EmptySeq
    <2>. QED
      BY <2>1, <2>3 DEF Cuts
  <1>. QED
    BY <1>2, <1>3

\* The equation of the loop over a file.
IsCut(f) ==
  f = [s \in Seq(Characters) |->
        IF s = <<>> THEN NoLines ELSE AddCharacter(f[Front(s)], Last(s))]

\* A file is cut into lines of its characters (load_snippet).
LEMMA LinesType ==
  ASSUME NEW file \in Seq(Characters)
  PROVE  LinesOf(file) \in Seq(Seq(Characters))
  <1> DEFINE S == Seq(Characters)
             V == Cuts
             D == S \ {<<>>}
             base == [s \in S |-> NoLines]
             d == [s \in D |-> Front(s)]
             c == [p \in S \X V |-> IF p[1] \in D THEN AddCharacter(p[2], Last(p[1])) ELSE NoLines]
             g == CHOOSE f : IsCut(f)
  <1>0. NoLines \in V
    BY EmptySeq DEF NoLines, Cuts
  <1>1. \A s \in D : Front(s) \in S /\ Last(s) \in Characters /\ Len(Front(s)) < Len(s)
    BY FrontIs
  <1>2. \A s \in D, v \in V : AddCharacter(v, Last(s)) \in V /\ c[<<s, v>>] = AddCharacter(v, Last(s))
    BY <1>1, AddCharacterType
  <1>3. Descends(Characters, V, D, base, d, c)
    <2>1. base \in [S -> V]
      BY <1>0
    <2>2. d \in [D -> S] /\ \A s \in D : Len(d[s]) < Len(s)
      <3> HIDE DEF D, S
      <3>. QED
        BY <1>1
    <2>3. c \in [S \X V -> V]
      <3> HIDE DEF V, D, S
      <3> SUFFICES ASSUME NEW s \in S, NEW v \in V
                   PROVE  (IF s \in D THEN AddCharacter(v, Last(s)) ELSE NoLines) \in V
        BY Zenon
      <3>. QED
        BY <1>0, <1>2 DEF V
    <2>4. D \in SUBSET S
      OBVIOUS
    <2> HIDE DEF V, D, base, d, c
    <2>. QED
      BY <2>1, <2>2, <2>3, <2>4 DEF Descends
  <1>4. (\A s \in S : base[s] = NoLines) /\ (\A s \in D : d[s] = Front(s))
    OBVIOUS
  <1> HIDE DEF V, base, d, c
  <1>5. PICK f \in [S -> V] :
          \A s \in S : f[s] = IF s \in D THEN c[<<s, f[d[s]]>>] ELSE base[s]
    BY <1>3, RecursionExists
  <1>6. \A s \in S : f[s] = IF s = <<>> THEN NoLines ELSE AddCharacter(f[Front(s)], Last(s))
    <2> SUFFICES ASSUME NEW s \in S
                 PROVE  f[s] = IF s = <<>> THEN NoLines ELSE AddCharacter(f[Front(s)], Last(s))
      OBVIOUS
    <2>1. CASE s \in D
      <3>1. f[Front(s)] \in V
        BY <1>1, <1>5, <2>1
      <3>. QED
        BY <1>2, <1>4, <1>5, <2>1, <3>1
    <2>2. CASE s \notin D
      BY <1>4, <1>5, <2>2
    <2>. QED
      BY <2>1, <2>2
  <1>7. IsCut(f)
    <2>1. f = [s \in S |-> f[s]]
      BY <1>5
    <2>. QED
      BY <1>6, <2>1 DEF IsCut
  <1>8. IsCut(g)
    BY <1>7
  <1>9. LinesOf(file) = IF g[file].line = <<>> THEN g[file].lines ELSE Append(g[file].lines, g[file].line)
    BY DEF LinesOf, IsCut
  <1> HIDE DEF g
  <1>10. \A s \in S : g[s] = IF s = <<>> THEN NoLines ELSE AddCharacter(g[Front(s)], Last(s))
    BY <1>8 DEF IsCut
  <1> DEFINE U == {s \in S : g[s] \in V}
  <1>11. ASSUME NEW s \in S, \A r \in S : Len(r) < Len(s) => r \in U
         PROVE  s \in U
    <2>1. CASE s = <<>>
      BY <1>0, <1>10, <2>1
    <2>2. CASE s # <<>>
      <3>1. g[Front(s)] \in V
        BY <1>1, <1>11, <2>2
      <3>2. g[s] \in V
        BY <1>2, <1>10, <2>2, <3>1
      <3>. QED
        BY <3>2
    <2>. QED
      BY <2>1, <2>2
  <1> HIDE DEF U
  <1>12. S \subseteq U
    BY <1>11, LengthInductive
  <1>13. g[file] \in Cuts
    BY <1>12 DEF U, V
  <1>14. g[file].line \in Seq(Characters) /\ g[file].lines \in Seq(Seq(Characters))
    BY <1>13 DEF Cuts
  <1> DEFINE l == g[file].line
             ll == g[file].lines
  <1> HIDE DEF l, ll
  <1>15. l \in Seq(Characters) /\ ll \in Seq(Seq(Characters))
    BY <1>14 DEF l, ll
  <1>16. Append(ll, l) \in Seq(Seq(Characters))
    BY <1>15, AppendProperties
  <1>. QED
    BY <1>9, <1>15, <1>16 DEF l, ll

-----------------------------------------------------------------------------
(* Snippets. *)

\* There is a last place to cut, at the latest before everything
\* (truncate_snippet).
LEMMA BoundaryIs ==
  ASSUME NEW line
  PROVE  /\ Boundary(line) \in 0 .. MaxSnippet - Len(Ellipsis)
         /\ Boundary(line) = 0 \/ line[Boundary(line) + 1] # Continuation
         /\ \A c \in Boundary(line) + 1 .. MaxSnippet - Len(Ellipsis) : line[c + 1] = Continuation
  <1> DEFINE m == MaxSnippet - Len(Ellipsis)
             Cut(b) == b = 0 \/ line[b + 1] # Continuation
             Good(b) == Cut(b) /\ \A c \in b + 1 .. m : line[c + 1] = Continuation
             A == {a \in 0 .. m : Cut(m - a)}
  <1>1. m \in Nat
    <2>1. Len(Ellipsis) = 3
      BY DEF Ellipsis
    <2>. QED
      BY <2>1, ResultsAssumption
  <1>2. Boundary(line) = CHOOSE b \in 0 .. m : Good(b)
    BY DEF Boundary
  <1> HIDE DEF m
  <1>3. m \in A
    BY <1>1
  <1>4. A \in SUBSET Nat
    OBVIOUS
  <1>5. PICK a \in A : \A k \in A : a <= k
    <2> HIDE DEF A
    <2>. QED
      BY <1>3, <1>4, NatLeast
  <1>6. m - a \in 0 .. m /\ Cut(m - a)
    BY <1>1, <1>5
  <1>7. ASSUME NEW c \in m - a + 1 .. m PROVE line[c + 1] = Continuation
    <2>1. m - c \in 0 .. m /\ m - c < a /\ m - (m - c) = c /\ a \in Int
      BY <1>1, <1>5
    <2>2. m - c \notin A
      <3> HIDE DEF A
      <3>. QED
        BY <1>1, <1>4, <1>5, <2>1
    <2>. QED
      BY <2>1, <2>2
  <1>8. \E b \in 0 .. m : Good(b)
    BY <1>6, <1>7
  <1> HIDE DEF Good
  <1>9. Boundary(line) \in 0 .. m /\ Good(Boundary(line))
    BY <1>2, <1>8
  <1>. QED
    BY <1>9 DEF Good, m

\* The files that were shown, each with its snippet.
Shots == {[file |-> file, shown |-> Snippet(file)] : file \in Files \cup {NoFile}}

\* Every snippet was made of a file and the terms that are scored.
SnippetInv ==
  /\ pc \in {"query", "rank"} => snippets = <<>>
  /\ snippets \in Seq(Shots)

\* Snippets depend on the file and the terms alone.
LEMMA ShotsStay ==
  ASSUME UNCHANGED terms
  PROVE  Shots' = Shots
  <1>1. ASSUME NEW file PROVE Snippet(file)' = Snippet(file)
    BY DEF Snippet, LineMatches
  <1>. QED
    BY <1>1 DEF Shots

\* SnippetInv is inductive.
LEMMA SnippetAlways == ResultsSpec => []SnippetInv
  <1>1. ResultsInit => SnippetInv
    BY EmptySeq DEF ResultsInit, SnippetInv
  <1>2. SnippetInv /\ [ResultsNext]_resultVars => SnippetInv'
    <2> SUFFICES ASSUME SnippetInv, [ResultsNext]_resultVars PROVE SnippetInv'
      OBVIOUS
    <2>1. ASSUME NEW found, NEW scored, Answered(found, scored) PROVE SnippetInv'
      BY <2>1, EmptySeq DEF Answered, SnippetInv
    <2>2. CASE Rank
      <3>1. Shots' = Shots
        BY <2>2, ShotsStay DEF Rank
      <3>. QED
        BY <2>2, <3>1 DEF Rank, SnippetInv
    <2>3. CASE Sort
      <3>1. Shots' = Shots
        BY <2>3, ShotsStay DEF Sort
      <3>. QED
        BY <2>3, <3>1 DEF Sort, SnippetInv
    <2>4. CASE Present
      <3>1. Shots' = Shots
        BY <2>4, ShotsStay DEF Present
      <3>2. pc' \in {"present", "done"}
        BY <2>4 DEF Present
      <3>3. CASE UNCHANGED snippets
        BY <3>1, <3>2, <3>3 DEF SnippetInv
      <3>4. ASSUME NEW file \in Files \cup {NoFile},
                   snippets' = Append(snippets, [file |-> file, shown |-> Snippet(file)])
            PROVE  SnippetInv'
        <4> DEFINE e == [file |-> file, shown |-> Snippet(file)]
        <4>1. e \in Shots
          BY DEF Shots
        <4> HIDE DEF e
        <4>2. Append(snippets, e) \in Seq(Shots)
          BY <4>1, AppendProperties DEF SnippetInv
        <4>. QED
          BY <3>1, <3>2, <3>4, <4>2 DEF SnippetInv, e
      <3>. QED
        BY <2>4, <3>3, <3>4 DEF Present
    <2>5. ASSUME NEW how \in {"rejected", "refused", "done"}, Unanswered(how) PROVE SnippetInv'
      <3>1. Shots' = Shots
        BY <2>5, ShotsStay DEF Unanswered
      <3>. QED
        BY <2>5, <3>1 DEF Unanswered, SnippetInv
    <2>6. CASE UNCHANGED resultVars
      <3>1. Shots' = Shots
        BY <2>6, ShotsStay DEF resultVars
      <3>. QED
        BY <2>6, <3>1 DEF resultVars, SnippetInv
    <2>. QED
      BY <2>1, <2>2, <2>3, <2>4, <2>5, <2>6 DEF ResultsNext
  <1>. QED
    BY <1>1, <1>2, PTL DEF ResultsSpec

\* Every snippet is a line of its file, whole if it is short enough, else cut
\* between two characters as late as possible, for files of any characters
\* and any limit (load_snippet, truncate_snippet).
THEOREM SnippetsAreCutWell == ResultsSpec => []SnippetsWellCut
  <1>1. SnippetInv => SnippetsWellCut
    <2> SUFFICES ASSUME SnippetInv, NEW k \in DOMAIN snippets, snippets[k].shown # NoSnippet
                 PROVE  LET text == snippets[k].shown.text
                            lines == LinesOf(snippets[k].file)
                            line == lines[snippets[k].shown.number]
                            CutsAt(n) == n = 0 \/ line[n + 1] # Continuation
                        IN /\ snippets[k].shown.number \in DOMAIN lines
                           /\ \/ text = line /\ Len(line) <= MaxSnippet
                              \/ \E n \in 0 .. MaxSnippet - Len(Ellipsis) :
                                   /\ text = SubSeq(line, 1, n) \o Ellipsis
                                   /\ CutsAt(n) /\ Len(line) > MaxSnippet
                                   /\ \A m \in n + 1 .. MaxSnippet - Len(Ellipsis) : ~ CutsAt(m)
      BY DEF SnippetsWellCut
    <2>1. snippets[k] \in Shots
      <3>1. snippets \in Seq(Shots) /\ DOMAIN snippets = 1 .. Len(snippets)
        BY LenProperties DEF SnippetInv
      <3>. QED
        BY <3>1, LenProperties
    <2>2. PICK file \in Files \cup {NoFile} : snippets[k] = [file |-> file, shown |-> Snippet(file)]
      BY <2>1 DEF Shots
    <2> DEFINE lines == LinesOf(file)
               found == {n \in DOMAIN lines : LineMatches(lines[n])}
               line == lines[Min(found)]
               b == Boundary(line)
    <2>3. Snippet(file) # NoSnippet
      BY <2>2
    <2>4. /\ file # NoFile /\ found # {}
          /\ Snippet(file) = [number |-> Min(found), text |-> Truncated(line)]
      BY <2>3 DEF Snippet
    <2>5. file \in Seq(Characters)
      BY <2>2, <2>4, ResultsAssumption
    <2>6. lines \in Seq(Seq(Characters))
      BY <2>5, LinesType
    <2> HIDE DEF lines
    <2>7. DOMAIN lines = 1 .. Len(lines) /\ Len(lines) \in Nat /\ \A n \in DOMAIN lines : lines[n] \in Seq(Characters)
      BY <2>6, LenProperties
    <2>8. Min(found) \in DOMAIN lines
      <3>1. found \in SUBSET Nat
        BY <2>7
      <3>2. \E n \in found : \A o \in found : n <= o
        <4> HIDE DEF found
        <4>. QED
          BY <2>4, <3>1, NatLeast
      <3>3. Min(found) \in found
        BY <3>2 DEF Min
      <3>. QED
        BY <3>3
    <2>9. line \in Seq(Characters)
      BY <2>7, <2>8
    <2> DEFINE number == Min(found)
    <2>10. Len(line) \in Nat /\ MaxSnippet \in Nat
      <3> HIDE DEF line
      <3>. QED
        BY <2>9, LenProperties, ResultsAssumption
    <2>11. /\ snippets[k].file = file /\ snippets[k].shown.number = number
           /\ snippets[k].shown.text = Truncated(line)
      BY <2>2, <2>4
    <2> HIDE DEF line
    <2>12. \/ Truncated(line) = line /\ Len(line) <= MaxSnippet
           \/ Truncated(line) = SubSeq(line, 1, b) \o Ellipsis /\ Len(line) > MaxSnippet
      <3>1. Len(line) <= MaxSnippet \/ Len(line) > MaxSnippet
        BY <2>10, SMT
      <3>2. Len(line) > MaxSnippet => ~ (Len(line) <= MaxSnippet)
        BY <2>10, SMT
      <3>3. Len(line) <= MaxSnippet => Truncated(line) = line
        BY Zenon DEF Truncated
      <3>4. ~ (Len(line) <= MaxSnippet) => Truncated(line) = SubSeq(line, 1, b) \o Ellipsis
        BY Zenon DEF Truncated
      <3>. QED
        BY <3>1, <3>2, <3>3, <3>4, Zenon
    <2>13. /\ b \in 0 .. MaxSnippet - Len(Ellipsis)
           /\ b = 0 \/ line[b + 1] # Continuation
           /\ \A m \in b + 1 .. MaxSnippet - Len(Ellipsis) : ~ (m = 0 \/ line[m + 1] # Continuation)
      <3>1. /\ b \in 0 .. MaxSnippet - Len(Ellipsis)
            /\ b = 0 \/ line[b + 1] # Continuation
            /\ \A m \in b + 1 .. MaxSnippet - Len(Ellipsis) : line[m + 1] = Continuation
        BY BoundaryIs
      <3>2. \A m \in b + 1 .. MaxSnippet - Len(Ellipsis) : m # 0
        BY <3>1
      <3>. QED
        BY <3>1, <3>2
    <2> HIDE DEF b, found, number
    <2>14. line = lines[number] /\ number \in DOMAIN lines /\ lines = LinesOf(file)
      BY <2>8 DEF line, number, lines
    <2>. QED
      BY <2>11, <2>12, <2>13, <2>14
  <1>. QED
    BY <1>1, SnippetAlways, PTL
=============================================================================
