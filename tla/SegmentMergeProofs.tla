------------------------- MODULE SegmentMergeProofs -------------------------
(***************************************************************************)
(* Theorems about SegmentMerge, for all lists of batches of documents: the *)
(* merged file is the one a single batch of all documents would be written *)
(* to, a written file is read back as it was, the reader accepts nothing   *)
(* that the writer would not have written, and the temporary space taken   *)
(* never exceeds what was reserved for it.                                 *)
(***************************************************************************)
EXTENDS SegmentMerge, SegmentFileProofs

-----------------------------------------------------------------------------
(* What Build makes of documents. *)

At(doc, t) == {p \in 0 .. Len(doc.text) - 1 : doc.text[p + 1] = t}

\* A parsed document.
LEMMA DocumentTyped ==
  ASSUME NEW doc \in Documents
  PROVE  /\ doc.path \in Seq(Nat) /\ doc.live \in BOOLEAN /\ doc.text \in Seq(Seq(Nat))
         /\ Len(doc.text) \in Nat /\ DOMAIN doc.text = 1 .. Len(doc.text)
         /\ \A k \in 1 .. Len(doc.text) : doc.text[k] \in Seq(Nat)
  <1>1. doc.path \in Seq(Nat) /\ doc.live \in BOOLEAN /\ doc.text \in Seq(Seq(Nat))
    BY DEF Documents
  <1>. QED
    BY ONLY <1>1, LenProperties, ElementOfSeq

\* The occurrences of a term are its positions in ascending order.
LEMMA OccurrencesAre ==
  ASSUME NEW doc \in Documents, NEW t
  PROVE  /\ Occurrences(doc, t) = Ascending(At(doc, t))
         /\ At(doc, t) \in SUBSET Nat /\ IsFiniteSet(At(doc, t))
         /\ Occurrences(doc, t) \in Seq(Nat) /\ Increasing(Occurrences(doc, t))
         /\ Len(Occurrences(doc, t)) = Cardinality(At(doc, t))
         /\ At(doc, t) = {Occurrences(doc, t)[i] : i \in 1 .. Len(Occurrences(doc, t))}
         /\ Occurrences(doc, t) = <<>> <=> \A k \in 1 .. Len(doc.text) : doc.text[k] # t
  <1> DEFINE S == At(doc, t)
             o == Occurrences(doc, t)
             n == Len(doc.text)
  <1>1. o = Ascending(S)
    BY DEF Occurrences, Sorted, Ascending, At
  <1>2. n \in Nat
    BY DocumentTyped
  <1>3. S \in SUBSET (0 .. n - 1) /\ \A p \in 0 .. n - 1 : p \in S <=> doc.text[p + 1] = t
    BY DEF At
  <1> HIDE DEF S, o, n
  <1>4. S \in SUBSET Nat /\ IsFiniteSet(S)
    <2>1. IsFiniteSet(0 .. n - 1)
      BY <1>2, FS_Interval
    <2>2. \A q \in 0 .. n - 1 : q \in Nat
      BY ONLY <1>2
    <2>3. S \in SUBSET Nat
      BY ONLY <1>3, <2>2
    <2>. QED
      BY ONLY <1>3, <2>1, <2>3, FS_Subset
  <1>5. /\ o \in Seq(S) /\ Len(o) = Cardinality(S)
        /\ Increasing(o) /\ S = {o[i] : i \in 1 .. Cardinality(S)}
    <2>1. S \in SUBSET Int
      BY <1>4
    <2>. QED
      BY <1>1, <1>4, <2>1, AscendingIs
  <1>6. o \in Seq(Nat) /\ Len(o) \in Nat
    BY <1>4, <1>5, LenProperties
  <1>7. o = <<>> <=> S = {}
    <2>1. o = <<>> => S = {}
      <3>1. o = <<>> => Len(o) = 0
        BY EmptySeq
      <3>. QED
        BY <1>5, <3>1
    <2>2. S = {} => o = <<>>
      <3>1. S = {} => Len(o) = 0
        BY <1>5, FS_EmptySet
      <3>. QED
        BY <1>6, <3>1, EmptySeq
    <2>. QED
      BY <2>1, <2>2
  <1>8. S = {} <=> \A k \in 1 .. n : doc.text[k] # t
    <2>1. \A k \in 1 .. n : k - 1 \in 0 .. n - 1 /\ (k - 1) + 1 = k
      BY <1>2
    <2>2. \A p \in 0 .. n - 1 : p + 1 \in 1 .. n
      BY <1>2
    <2>. QED
      BY ONLY <1>3, <2>1, <2>2
  <1>. QED
    BY <1>1, <1>4, <1>5, <1>6, <1>7, <1>8 DEF S, o, n

\* The documents of a list that hold t.
Holders(parsed, t) == {i \in DOMAIN parsed : \E k \in 1 .. Len(parsed[i].text) : parsed[i].text[k] = t}

PostingOf(parsed, positions, t, i) ==
  [doc |-> i - 1, freq |-> Len(Occurrences(parsed[i], t)),
   positions |-> IF positions THEN Occurrences(parsed[i], t) ELSE <<>>]

\* The documents that hold a term.
LEMMA HoldersAre ==
  ASSUME NEW parsed \in Seq(Documents), NEW t
  PROVE  /\ {i \in DOMAIN parsed : Occurrences(parsed[i], t) # <<>>} = Holders(parsed, t)
         /\ Holders(parsed, t) \in SUBSET (1 .. Len(parsed)) /\ Holders(parsed, t) \in SUBSET Nat
         /\ IsFiniteSet(Holders(parsed, t))
         /\ Len(parsed) \in Nat /\ DOMAIN parsed = 1 .. Len(parsed)
         /\ \A i \in 1 .. Len(parsed) : parsed[i] \in Documents
  <1>1. /\ Len(parsed) \in Nat /\ DOMAIN parsed = 1 .. Len(parsed)
        /\ \A i \in 1 .. Len(parsed) : parsed[i] \in Documents
    BY LenProperties, ElementOfSeq
  <1>2. \A i \in 1 .. Len(parsed) :
          Occurrences(parsed[i], t) = <<>> <=> \A k \in 1 .. Len(parsed[i].text) : parsed[i].text[k] # t
    BY <1>1, OccurrencesAre
  <1>3. Holders(parsed, t) \in SUBSET (1 .. Len(parsed)) /\ Holders(parsed, t) \in SUBSET Nat
    BY <1>1 DEF Holders
  <1>4. IsFiniteSet(Holders(parsed, t))
    <2>1. IsFiniteSet(1 .. Len(parsed))
      BY <1>1, FS_Interval
    <2>. QED
      BY <1>3, <2>1, FS_Subset
  <1>5. {i \in DOMAIN parsed : Occurrences(parsed[i], t) # <<>>} = Holders(parsed, t)
    BY <1>1, <1>2 DEF Holders
  <1>. QED
    BY <1>1, <1>3, <1>4, <1>5

\* A posting list has one posting for each of them, in order.
LEMMA PostingListIs ==
  ASSUME NEW parsed \in Seq(Documents), NEW p \in BOOLEAN, NEW t, NEW L, L = PostingList(parsed, p, t),
         NEW ids, ids = Ascending(Holders(parsed, t)), NEW n, n = Cardinality(Holders(parsed, t))
  PROVE  /\ n \in Nat
         /\ ids \in Seq(Nat) /\ Len(ids) = n /\ DOMAIN ids = 1 .. n /\ Increasing(ids)
         /\ Holders(parsed, t) = {ids[k] : k \in 1 .. n}
         /\ L \in Seq(Posting) /\ Len(L) = n /\ DOMAIN L = 1 .. n /\ L = [k \in 1 .. n |-> L[k]]
         /\ \A k \in 1 .. n : /\ ids[k] \in Holders(parsed, t)
                              /\ L[k] = PostingOf(parsed, p, t, ids[k])
  <1> DEFINE H == Holders(parsed, t)
  <1>0. Sorted({i \in DOMAIN parsed : Occurrences(parsed[i], t) # <<>>}, <) = ids
    <2>1. {i \in DOMAIN parsed : Occurrences(parsed[i], t) # <<>>} = H
      BY HoldersAre
    <2>. QED
      BY ONLY <2>1, ids = Ascending(H) DEF Sorted, Ascending
  <1>1. L = [k \in DOMAIN ids |-> PostingOf(parsed, p, t, ids[k])]
    BY <1>0 DEF PostingList, PostingOf
  <1>2. H \in SUBSET Nat /\ H \in SUBSET (1 .. Len(parsed)) /\ IsFiniteSet(H)
        /\ \A i \in 1 .. Len(parsed) : parsed[i] \in Documents
    BY HoldersAre
  <1>3. ids = Ascending(H) /\ n = Cardinality(H)
    OBVIOUS
  <1> HIDE DEF H
  <1>4. /\ n \in Nat /\ ids \in Seq(H) /\ Len(ids) = n /\ Increasing(ids) /\ H = {ids[k] : k \in 1 .. n}
    <2>1. H \in SUBSET Int
      BY <1>2
    <2>2. n \in Nat
      BY ONLY <1>2, <1>3, FS_CardinalityType
    <2>3. IsFiniteSet(H)
      BY ONLY <1>2
    <2>4. /\ Ascending(H) \in Seq(H) /\ Len(Ascending(H)) = Cardinality(H)
          /\ Increasing(Ascending(H)) /\ H = {Ascending(H)[k] : k \in 1 .. Cardinality(H)}
      BY ONLY <2>1, <2>3, AscendingIs
    <2>. QED
      BY ONLY <1>3, <2>2, <2>4
  <1>5. DOMAIN ids = 1 .. n /\ ids \in Seq(Nat) /\ \A k \in 1 .. n : ids[k] \in H
    <2>1. DOMAIN ids = 1 .. n /\ \A k \in 1 .. n : ids[k] \in H
      BY ONLY <1>4, LenProperties, ElementOfSeq
    <2>2. ids = [k \in 1 .. n |-> ids[k]]
      BY ONLY <1>4, LenProperties
    <2>3. \A k \in 1 .. n : ids[k] \in Nat
      BY ONLY <1>2, <2>1
    <2>. QED
      BY ONLY <1>4, <2>1, <2>2, <2>3, SeqIs
  <1>6. DOMAIN L = 1 .. n /\ L = [k \in 1 .. n |-> L[k]]
        /\ \A k \in 1 .. n : L[k] = PostingOf(parsed, p, t, ids[k])
    BY ONLY <1>1, <1>5
  <1>7. ASSUME NEW i \in H PROVE PostingOf(parsed, p, t, i) \in Posting
    <2>1. i - 1 \in Nat /\ parsed[i] \in Documents
      BY ONLY <1>2, i \in H
    <2>2. Occurrences(parsed[i], t) \in Seq(Nat)
      BY <2>1, OccurrencesAre
    <2>3. Len(Occurrences(parsed[i], t)) \in Nat /\ <<>> \in Seq(Nat)
      BY ONLY <2>2, LenProperties, EmptySeq
    <2>. QED
      BY ONLY <2>1, <2>2, <2>3 DEF PostingOf, Posting
  <1>8. L \in Seq(Posting) /\ Len(L) = n
    <2>1. \A k \in 1 .. n : L[k] \in Posting
      BY ONLY <1>5, <1>6, <1>7
    <2>. QED
      BY ONLY <1>4, <1>6, <2>1, SeqIs
  <1>. QED
    BY <1>4, <1>5, <1>6, <1>8 DEF H

\* The terms of a batch are those some document holds.
LEMMA TermsInAre ==
  ASSUME NEW parsed \in Seq(Documents)
  PROVE  /\ IsFiniteSet(TermsIn(parsed)) /\ TermsIn(parsed) \in SUBSET Seq(Nat)
         /\ \A t : t \in TermsIn(parsed) <=> Holders(parsed, t) # {}
  <1> DEFINE T(i) == {parsed[i].text[k] : k \in DOMAIN parsed[i].text}
             F == {T(i) : i \in DOMAIN parsed}
             n == Len(parsed)
  <1>1. n \in Nat /\ DOMAIN parsed = 1 .. n /\ \A i \in 1 .. n : parsed[i] \in Documents
    BY HoldersAre
  <1>2. ASSUME NEW i \in 1 .. n
        PROVE  /\ DOMAIN parsed[i].text = 1 .. Len(parsed[i].text) /\ Len(parsed[i].text) \in Nat
               /\ \A k \in 1 .. Len(parsed[i].text) : parsed[i].text[k] \in Seq(Nat)
    <2>1. parsed[i] \in Documents
      BY <1>1
    <2>. QED
      BY <2>1, DocumentTyped
  <1>3. TermsIn(parsed) = UNION F
    BY DEF TermsIn
  <1>4. \A i \in 1 .. n : IsFiniteSet(T(i))
    <2> SUFFICES ASSUME NEW i \in 1 .. n PROVE IsFiniteSet(T(i))
      OBVIOUS
    <2> DEFINE w == parsed[i].text
    <2>0. DOMAIN w = 1 .. Len(w) /\ Len(w) \in Nat
      BY <1>2
    <2>1. IsFiniteSet(DOMAIN w)
      <3> HIDE DEF w
      <3>1. IsFiniteSet(1 .. Len(w))
        BY ONLY <2>0, FS_Interval
      <3>. QED
        BY ONLY <2>0, <3>1
    <2>2. {w[k] : k \in DOMAIN w} = T(i)
      OBVIOUS
    <2>3. IsFiniteSet({w[k] : k \in DOMAIN w})
      <3> HIDE DEF w
      <3> DEFINE D == DOMAIN w
                 R == {w[k] : k \in D}
                 v == [k \in D |-> w[k]]
      <3>1. v \in Surjection(D, R)
        BY DEF Surjection
      <3>2. IsFiniteSet(D)
        BY <2>1
      <3>. QED
        BY ONLY <3>1, <3>2, FS_Surjection
    <2>. QED
      BY <2>2, <2>3
  <1>5. IsFiniteSet(F)
    <2> DEFINE v == [i \in 1 .. n |-> T(i)]
    <2>1. v \in Surjection(1 .. n, F)
      BY <1>1 DEF Surjection
    <2>2. IsFiniteSet(1 .. n)
      BY <1>1, FS_Interval
    <2>. QED
      BY ONLY <2>1, <2>2, FS_Surjection
  <1>6. IsFiniteSet(UNION F)
    <2>1. \A S \in F : IsFiniteSet(S)
      BY <1>1, <1>4
    <2> HIDE DEF F
    <2>. QED
      BY <1>5, <2>1, FS_UNION
  <1>7. UNION F \in SUBSET Seq(Nat)
    BY <1>1, <1>2
  <1>8. ASSUME NEW t PROVE t \in UNION F <=> Holders(parsed, t) # {}
    BY <1>1, <1>2 DEF Holders
  <1>. QED
    BY <1>3, <1>6, <1>7, <1>8

BuiltDoc(doc) == [path |-> doc.path, live |-> doc.live, tokens |-> Len(doc.text)]
BuiltTerms(parsed) == Alphabetic(TermsIn(parsed))

\* The terms of a built index, in order.
LEMMA BuiltTermsAre ==
  ASSUME NEW parsed \in Seq(Documents), NEW terms, terms = BuiltTerms(parsed)
  PROVE  /\ terms \in Seq(Seq(Nat)) /\ Rising(terms)
         /\ Len(terms) \in Nat /\ DOMAIN terms = 1 .. Len(terms)
         /\ TermsIn(parsed) = {terms[i] : i \in 1 .. Len(terms)}
         /\ \A i \in 1 .. Len(terms) : terms[i] \in Seq(Nat) /\ Holders(parsed, terms[i]) # {}
  <1> DEFINE S == TermsIn(parsed)
  <1>1. /\ IsFiniteSet(S) /\ S \in SUBSET Seq(Nat)
        /\ \A t : t \in S <=> Holders(parsed, t) # {}
    BY TermsInAre
  <1>2. terms = Alphabetic(S)
    BY DEF BuiltTerms
  <1> HIDE DEF S
  <1>3. /\ terms \in Seq(S) /\ Len(terms) = Cardinality(S)
        /\ Rising(terms) /\ S = {terms[i] : i \in 1 .. Cardinality(S)}
    <2>1. /\ Alphabetic(S) \in Seq(S) /\ Len(Alphabetic(S)) = Cardinality(S)
          /\ Rising(Alphabetic(S)) /\ S = {Alphabetic(S)[i] : i \in 1 .. Cardinality(S)}
      BY ONLY <1>1, AlphabeticIs
    <2>. QED
      BY ONLY <1>2, <2>1
  <1>4. Len(terms) \in Nat /\ DOMAIN terms = 1 .. Len(terms) /\ \A i \in 1 .. Len(terms) : terms[i] \in S
    BY ONLY <1>3, LenProperties, ElementOfSeq
  <1>5. \A i \in 1 .. Len(terms) : terms[i] \in Seq(Nat) /\ Holders(parsed, terms[i]) # {}
    BY ONLY <1>1, <1>4
  <1>6. terms \in Seq(Seq(Nat))
    <2>1. terms = [i \in 1 .. Len(terms) |-> terms[i]]
      BY ONLY <1>3, LenProperties
    <2>2. \A i \in 1 .. Len(terms) : terms[i] \in Seq(Nat)
      BY ONLY <1>5
    <2>. QED
      BY ONLY <1>4, <2>1, <2>2, SeqIs
  <1>. QED
    BY <1>3, <1>4, <1>5, <1>6 DEF S

\* The parts of a built index.
LEMMA BuildIs ==
  ASSUME NEW parsed \in Seq(Documents), NEW p \in BOOLEAN, NEW ix, ix = Build(parsed, p),
         NEW terms, terms = BuiltTerms(parsed), NEW n, n = Len(parsed), NEW m, m = Len(terms)
  PROVE  /\ ix \in Index /\ ix.positions = p
         /\ n \in Nat /\ m \in Nat
         /\ ix.docs = [i \in 1 .. n |-> BuiltDoc(parsed[i])] /\ Len(ix.docs) = n
         /\ DOMAIN ix.postings = 1 .. m /\ Len(ix.postings) = m
         /\ ix.postings = [i \in 1 .. m |-> [term |-> terms[i], list |-> PostingList(parsed, p, terms[i])]]
  <1>0. Sorted(TermsIn(parsed), Less) = terms
    BY ONLY terms = BuiltTerms(parsed) DEF BuiltTerms, Sorted, Alphabetic
  <1>1. /\ ix.positions = p
        /\ ix.docs = [i \in DOMAIN parsed |-> BuiltDoc(parsed[i])]
        /\ ix.postings = [i \in DOMAIN terms |-> [term |-> terms[i], list |-> PostingList(parsed, p, terms[i])]]
        /\ ix = [positions |-> ix.positions, docs |-> ix.docs, postings |-> ix.postings]
    BY ONLY <1>0, ix = Build(parsed, p) DEF Build, BuiltDoc
  <1>2. /\ n \in Nat /\ DOMAIN parsed = 1 .. n /\ \A i \in 1 .. n : parsed[i] \in Documents
    BY HoldersAre
  <1>3. m \in Nat /\ DOMAIN terms = 1 .. m /\ \A i \in 1 .. m : terms[i] \in Seq(Nat)
    BY BuiltTermsAre
  <1> DEFINE d == ix.docs
             q == ix.postings
  <1>4. DOMAIN d = 1 .. n /\ d = [i \in 1 .. n |-> d[i]] /\ \A i \in 1 .. n : d[i] = BuiltDoc(parsed[i])
    BY ONLY <1>1, <1>2
  <1>5. /\ DOMAIN q = 1 .. m /\ q = [i \in 1 .. m |-> q[i]]
        /\ \A i \in 1 .. m : q[i] = [term |-> terms[i], list |-> PostingList(parsed, p, terms[i])]
    BY ONLY <1>1, <1>3
  <1> HIDE DEF d, q
  <1>6. d \in Seq(Document) /\ Len(d) = n
    <2>1. ASSUME NEW i \in 1 .. n PROVE d[i] \in Document
      <3>1. parsed[i] \in Documents
        BY <1>2
      <3>2. parsed[i].path \in Seq(Nat) /\ parsed[i].live \in BOOLEAN /\ Len(parsed[i].text) \in Nat
        BY ONLY <3>1, DocumentTyped
      <3>. QED
        BY ONLY <1>4, <3>2, i \in 1 .. n DEF BuiltDoc, Document
    <2>. QED
      BY ONLY <1>2, <1>4, <2>1, SeqIs
  <1>7. q \in Seq(Entry) /\ Len(q) = m
    <2>1. ASSUME NEW i \in 1 .. m PROVE q[i] \in Entry
      <3>1. PostingList(parsed, p, terms[i]) \in Seq(Posting)
        BY PostingListIs
      <3>. QED
        BY ONLY <1>3, <1>5, <3>1, i \in 1 .. m DEF Entry
    <2>. QED
      BY ONLY <1>3, <1>5, <2>1, SeqIs
  <1>8. ix \in Index
    BY <1>1, <1>6, <1>7 DEF Index, d, q
  <1>. QED
    BY <1>1, <1>2, <1>3, <1>5, <1>6, <1>7, <1>8 DEF d, q

-----------------------------------------------------------------------------
(* Damages. *)

\* A damaged number is another number.
LEMMA NearNat ==
  ASSUME NEW n \in Nat, NEW m \in Near(n)
  PROVE  m \in Nat /\ m # n
  BY DEF Near

\* A sequence with one member replaced.
LEMMA ExceptTyped ==
  ASSUME NEW X, NEW s \in Seq(X), NEW i \in DOMAIN s, NEW x \in X
  PROVE  [s EXCEPT ![i] = x] \in Seq(X)
  <1> DEFINE t == [s EXCEPT ![i] = x]
             n == Len(s)
  <1>1. n \in Nat /\ DOMAIN s = 1 .. n /\ \A k \in 1 .. n : s[k] \in X
    BY LenProperties, ElementOfSeq
  <1>2. t = [k \in 1 .. n |-> t[k]] /\ \A k \in 1 .. n : t[k] \in X
    BY <1>1
  <1> HIDE DEF t, n
  <1>3. t \in Seq(X)
    BY ONLY <1>1, <1>2, SeqIs
  <1>. QED
    BY <1>3 DEF t

\* Damages keep types.
LEMMA ShiftedTyped ==
  ASSUME NEW s \in Seq(Nat), NEW t \in Shifted(s)
  PROVE  t \in Seq(Nat)
  <1>1. PICK i \in DOMAIN s : \E m \in Near(s[i]) : t = [s EXCEPT ![i] = m]
    BY DEF Shifted
  <1>2. PICK m \in Near(s[i]) : t = [s EXCEPT ![i] = m]
    BY <1>1
  <1>3. s[i] \in Nat
    BY LenProperties, ElementOfSeq
  <1>4. m \in Nat
    BY <1>3, NearNat
  <1>. QED
    BY ONLY <1>2, <1>4, ExceptTyped, s \in Seq(Nat), i \in DOMAIN s

\* ... also when the last entry is lost or repeated.
LEMMA ResizedTyped ==
  ASSUME NEW X, NEW s \in Seq(X), NEW t \in Resized(s)
  PROVE  t \in Seq(X)
  <1>1. s # <<>> /\ (t = Front(s) \/ t = Append(s, s[Len(s)]))
    BY DEF Resized
  <1>2. Len(s) \in Nat /\ Len(s) # 0 /\ \A k \in 1 .. Len(s) : s[k] \in X
    BY <1>1, LenProperties, ElementOfSeq, EmptySeq
  <1>3. CASE t = Front(s)
    <2>1. t = SubSeq(s, 0 + 1, 0 + (Len(s) - 1))
      BY <1>2, <1>3 DEF Front
    <2>2. Len(s) - 1 \in Nat /\ 0 + (Len(s) - 1) <= Len(s)
      BY ONLY <1>2
    <2> DEFINE d == Len(s) - 1
    <2>3. t = SubSeq(s, 0 + 1, 0 + d) /\ d \in Nat /\ 0 + d <= Len(s)
      BY <2>1, <2>2
    <2> HIDE DEF d
    <2>4. SubSeq(s, 0 + 1, 0 + d) \in Seq(X)
      BY ONLY <2>3, Piece, s \in Seq(X)
    <2>. QED
      BY <2>3, <2>4
  <1>4. CASE t = Append(s, s[Len(s)])
    <2>1. s[Len(s)] \in X
      BY ONLY <1>2
    <2>. QED
      BY ONLY <1>4, <2>1, AppendProperties, s \in Seq(X)
  <1>. QED
    BY <1>1, <1>3, <1>4

\* An altered entry is an entry: every altered field is a number.
LEMMA AlteredTyped ==
  ASSUME NEW X, NEW s \in Seq(X), NEW F,
         \A x \in X, d \in F : x[d] \in Nat /\ \A m \in Nat : [x EXCEPT ![d] = m] \in X,
         NEW t \in Altered(s, F)
  PROVE  t \in Seq(X)
  <1>1. PICK i \in DOMAIN s, d \in F : t \in OneAltered(s, i, d)
    BY ONLY t \in Altered(s, F) DEF Altered
  <1>2. PICK m \in Near(s[i][d]) : t = [s EXCEPT ![i] = [s[i] EXCEPT ![d] = m]]
    BY <1>1 DEF OneAltered
  <1>3. s[i] \in X
    BY LenProperties, ElementOfSeq
  <1>4. s[i][d] \in Nat
    BY <1>3
  <1>5. m \in Nat
    BY <1>4, NearNat
  <1>6. [s[i] EXCEPT ![d] = m] \in X
    BY <1>3, <1>5
  <1>. QED
    BY ONLY <1>2, <1>6, ExceptTyped, s \in Seq(X), i \in DOMAIN s

\* ... or a document changes its liveness.
LEMMA FlippedTyped ==
  ASSUME NEW s \in Seq(DocumentRow), NEW t \in Flipped(s)
  PROVE  t \in Seq(DocumentRow)
  <1>1. PICK i \in DOMAIN s : t = [s EXCEPT ![i].live = ~ @]
    BY DEF Flipped
  <1>2. s[i] \in DocumentRow
    BY LenProperties, ElementOfSeq
  <1> DEFINE x == [s[i] EXCEPT !.live = ~ s[i].live]
  <1>3. x \in DocumentRow
    BY <1>2 DEF DocumentRow
  <1>4. t = [s EXCEPT ![i] = x]
    BY <1>1
  <1> HIDE DEF x
  <1>. QED
    BY ONLY <1>3, <1>4, ExceptTyped, s \in Seq(DocumentRow), i \in DOMAIN s

\* A damaged body is typed.
LEMMA BodyDamagesTyped ==
  ASSUME NEW f \in SegmentFiles, NEW b \in BodyDamages(f)
  PROVE  Body(b)
  <1>1. /\ f.flags \in BOOLEAN /\ f.docs \in Seq(DocumentRow) /\ f.paths \in Seq(Nat)
        /\ f.terms \in Seq(TermRow) /\ f.names \in Seq(Nat)
        /\ f.posts \in Seq(PostingRow) /\ f.places \in Seq(Nat)
    BY FileTyped
  <1>2. \A x \in DocumentRow, d \in {"id", "tokens", "length", "offset"} :
          x[d] \in Nat /\ \A m \in Nat : [x EXCEPT ![d] = m] \in DocumentRow
    BY DEF DocumentRow
  <1>3. \A x \in TermRow, d \in {"offset", "length", "df", "start", "bytes"} :
          x[d] \in Nat /\ \A m \in Nat : [x EXCEPT ![d] = m] \in TermRow
    BY DEF TermRow
  <1>4. \A x \in PostingRow, d \in {"doc", "freq", "offset"} :
          x[d] \in Nat /\ \A m \in Nat : [x EXCEPT ![d] = m] \in PostingRow
    BY DEF PostingRow
  <1>5. ASSUME NEW v \in Altered(f.docs, {"id", "tokens", "length", "offset"}) \cup Flipped(f.docs) \cup Resized(f.docs)
        PROVE  v \in Seq(DocumentRow)
    <2>1. CASE v \in Altered(f.docs, {"id", "tokens", "length", "offset"})
      BY ONLY <1>1, <1>2, <2>1, AlteredTyped
    <2>2. CASE v \in Flipped(f.docs)
      BY ONLY <1>1, <2>2, FlippedTyped
    <2>3. CASE v \in Resized(f.docs)
      BY ONLY <1>1, <2>3, ResizedTyped
    <2>. QED
      BY <2>1, <2>2, <2>3
  <1>6. ASSUME NEW v \in Altered(f.terms, {"offset", "length", "df", "start", "bytes"}) \cup Resized(f.terms)
        PROVE  v \in Seq(TermRow)
    <2>1. CASE v \in Altered(f.terms, {"offset", "length", "df", "start", "bytes"})
      BY ONLY <1>1, <1>3, <2>1, AlteredTyped
    <2>3. CASE v \in Resized(f.terms)
      BY ONLY <1>1, <2>3, ResizedTyped
    <2>. QED
      BY <2>1, <2>3
  <1>7. ASSUME NEW v \in Altered(f.posts, {"doc", "freq", "offset"}) \cup Resized(f.posts)
        PROVE  v \in Seq(PostingRow)
    <2>1. CASE v \in Altered(f.posts, {"doc", "freq", "offset"})
      BY ONLY <1>1, <1>4, <2>1, AlteredTyped
    <2>3. CASE v \in Resized(f.posts)
      BY ONLY <1>1, <2>3, ResizedTyped
    <2>. QED
      BY <2>1, <2>3
  <1>8. \A s \in Seq(Nat) : \A v \in Shifted(s) \cup Resized(s) : v \in Seq(Nat)
    BY ShiftedTyped, ResizedTyped
  <1>9. \/ \E v \in Seq(DocumentRow) : b = [f EXCEPT !.docs = v]
        \/ \E v \in Seq(TermRow) : b = [f EXCEPT !.terms = v]
        \/ \E v \in Seq(PostingRow) : b = [f EXCEPT !.posts = v]
        \/ \E v \in Seq(Nat) : b = [f EXCEPT !.places = v]
        \/ \E v \in Seq(Nat) : b = [f EXCEPT !.paths = v]
        \/ \E v \in Seq(Nat) : b = [f EXCEPT !.names = v]
    <2>1. CASE b \in {[f EXCEPT !.docs = v] : v \in Altered(f.docs, {"id", "tokens", "length", "offset"})
                                  \cup Flipped(f.docs) \cup Resized(f.docs)}
      BY ONLY <1>5, <2>1
    <2>2. CASE b \in {[f EXCEPT !.terms = v] : v \in Altered(f.terms, {"offset", "length", "df", "start", "bytes"})
                                   \cup Resized(f.terms)}
      BY ONLY <1>6, <2>2
    <2>3. CASE b \in {[f EXCEPT !.posts = v] : v \in Altered(f.posts, {"doc", "freq", "offset"}) \cup Resized(f.posts)}
      BY ONLY <1>7, <2>3
    <2>4. CASE b \in {[f EXCEPT !.places = v] : v \in Shifted(f.places) \cup Resized(f.places)}
      BY ONLY <1>1, <1>8, <2>4
    <2>5. CASE b \in {[f EXCEPT !.paths = v] : v \in Shifted(f.paths) \cup Resized(f.paths)}
      BY ONLY <1>1, <1>8, <2>5
    <2>6. CASE b \in {[f EXCEPT !.names = v] : v \in Shifted(f.names) \cup Resized(f.names)}
      BY ONLY <1>1, <1>8, <2>6
    <2>. QED
      BY ONLY <2>1, <2>2, <2>3, <2>4, <2>5, <2>6, b \in BodyDamages(f) DEF BodyDamages
  <1>10. f = [flags |-> f.flags, size |-> f.size, offsets |-> f.offsets, lengths |-> f.lengths,
              docs |-> f.docs, paths |-> f.paths, terms |-> f.terms, names |-> f.names,
              posts |-> f.posts, places |-> f.places]
    BY DEF SegmentFiles
  <1>. QED
    BY ONLY <1>1, <1>9, <1>10 DEF Body

-----------------------------------------------------------------------------
(* A file that differs from a written one in one place of its header. *)

\* Sections and size belong together.
Whole(f) == f \in SegmentFiles /\ Cut(f) /\ f.size = HeaderSize + Sum(Sections(f))

\* One section length that differs changes the total.
LEMMA LengthsShifted ==
  ASSUME NEW a \in [1 .. 5 -> Nat], Len(a) = 5, NEW b \in Shifted(a)
  PROVE  b \in [1 .. 5 -> Nat] /\ Sum(b) # Sum(a) /\ b # a
  <1>1. PICK i \in 1 .. 5 : \E m \in Near(a[i]) : b = [a EXCEPT ![i] = m]
    BY DEF Shifted
  <1>2. PICK m \in Near(a[i]) : b = [a EXCEPT ![i] = m]
    BY <1>1
  <1>3. m \in Nat /\ m # a[i] /\ a[i] \in Nat
    <2>1. a[i] \in Nat
      OBVIOUS
    <2>. QED
      BY <2>1, NearNat
  <1>4. b \in [1 .. 5 -> Nat] /\ b[i] = m /\ \A k \in 1 .. 5 : k # i => b[k] = a[k]
    BY <1>2, <1>3
  <1>5. b = [k \in 1 .. 5 |-> b[k]] /\ a = [k \in 1 .. 5 |-> a[k]]
    BY <1>4
  <1>6. Sum(b) = SumTo(b, 5) /\ Sum(a) = SumTo(a, 5)
    BY ONLY <1>5, SumIs
  <1>7. \A s \in [1 .. 5 -> Nat] : SumTo(s, 5) = s[1] + s[2] + s[3] + s[4] + s[5]
    <2> SUFFICES ASSUME NEW s \in [1 .. 5 -> Nat] PROVE SumTo(s, 5) = s[1] + s[2] + s[3] + s[4] + s[5]
      OBVIOUS
    <2>1. /\ SumTo(s, 0) = 0 /\ SumTo(s, 0 + 1) = SumTo(s, 0) + s[0 + 1]
          /\ SumTo(s, 1 + 1) = SumTo(s, 1) + s[1 + 1]
          /\ SumTo(s, 2 + 1) = SumTo(s, 2) + s[2 + 1]
          /\ SumTo(s, 3 + 1) = SumTo(s, 3) + s[3 + 1]
          /\ SumTo(s, 4 + 1) = SumTo(s, 4) + s[4 + 1]
      BY ONLY SumToRec
    <2>2. s[1] \in Nat /\ s[2] \in Nat /\ s[3] \in Nat /\ s[4] \in Nat /\ s[5] \in Nat
      OBVIOUS
    <2>3. 0 + 1 = 1 /\ 1 + 1 = 2 /\ 2 + 1 = 3 /\ 3 + 1 = 4 /\ 4 + 1 = 5
      OBVIOUS
    <2>. QED
      BY ONLY <2>1, <2>2, <2>3
  <1>8. SumTo(b, 5) # SumTo(a, 5)
    <2>1. /\ a[1] \in Nat /\ a[2] \in Nat /\ a[3] \in Nat /\ a[4] \in Nat /\ a[5] \in Nat
          /\ b[1] \in Nat /\ b[2] \in Nat /\ b[3] \in Nat /\ b[4] \in Nat /\ b[5] \in Nat
      BY <1>4
    <2>2. /\ i = 1 \/ i = 2 \/ i = 3 \/ i = 4 \/ i = 5
      OBVIOUS
    <2>3. /\ SumTo(b, 5) = b[1] + b[2] + b[3] + b[4] + b[5]
          /\ SumTo(a, 5) = a[1] + a[2] + a[3] + a[4] + a[5]
      BY ONLY <1>4, <1>7, a \in [1 .. 5 -> Nat]
    <2> DEFINE x1 == a[1]
               x2 == a[2]
               x3 == a[3]
               x4 == a[4]
               x5 == a[5]
               y1 == b[1]
               y2 == b[2]
               y3 == b[3]
               y4 == b[4]
               y5 == b[5]
               x == SumTo(a, 5)
               y == SumTo(b, 5)
    <2>0. ASSUME x = y
          PROVE  /\ y1 + y2 + y3 + y4 + y5 = x1 + x2 + x3 + x4 + x5
                 /\ x1 \in Nat /\ x2 \in Nat /\ x3 \in Nat /\ x4 \in Nat /\ x5 \in Nat
                 /\ y1 \in Nat /\ y2 \in Nat /\ y3 \in Nat /\ y4 \in Nat /\ y5 \in Nat
      BY ONLY <2>0, <2>1, <2>3
    <2> SUFFICES ASSUME x = y PROVE FALSE
      OBVIOUS
    <2>9. y1 + y2 + y3 + y4 + y5 = x1 + x2 + x3 + x4 + x5
      BY ONLY <2>0, x = y
    <2>10. x1 \in Nat /\ x2 \in Nat /\ x3 \in Nat /\ x4 \in Nat /\ x5 \in Nat
      BY ONLY <2>0, x = y
    <2>11. y1 \in Nat /\ y2 \in Nat /\ y3 \in Nat /\ y4 \in Nat /\ y5 \in Nat
      BY ONLY <2>0, x = y
    <2>4. CASE i = 1
      <3>1. y2 = x2 /\ y3 = x3 /\ y4 = x4 /\ y5 = x5 /\ y1 # x1
        BY ONLY <1>3, <1>4, <2>4
      <3> HIDE DEF x, x1, x2, x3, x4, x5, y, y1, y2, y3, y4, y5
      <3>2. y1 + x2 + x3 + x4 + x5 = x1 + x2 + x3 + x4 + x5
        BY ONLY <2>9, <3>1
      <3>3. y1 = x1
        BY ONLY <2>10, <2>11, <3>2
      <3>. QED
        BY ONLY <3>1, <3>3
    <2>5. CASE i = 2
      <3>1. y1 = x1 /\ y3 = x3 /\ y4 = x4 /\ y5 = x5 /\ y2 # x2
        BY ONLY <1>3, <1>4, <2>5
      <3> HIDE DEF x, x1, x2, x3, x4, x5, y, y1, y2, y3, y4, y5
      <3>2. x1 + y2 + x3 + x4 + x5 = x1 + x2 + x3 + x4 + x5
        BY ONLY <2>9, <3>1
      <3>3. y2 = x2
        BY ONLY <2>10, <2>11, <3>2
      <3>. QED
        BY ONLY <3>1, <3>3
    <2>6. CASE i = 3
      <3>1. y1 = x1 /\ y2 = x2 /\ y4 = x4 /\ y5 = x5 /\ y3 # x3
        BY ONLY <1>3, <1>4, <2>6
      <3> HIDE DEF x, x1, x2, x3, x4, x5, y, y1, y2, y3, y4, y5
      <3>2. x1 + x2 + y3 + x4 + x5 = x1 + x2 + x3 + x4 + x5
        BY ONLY <2>9, <3>1
      <3>3. y3 = x3
        BY ONLY <2>10, <2>11, <3>2
      <3>. QED
        BY ONLY <3>1, <3>3
    <2>7. CASE i = 4
      <3>1. y1 = x1 /\ y2 = x2 /\ y3 = x3 /\ y5 = x5 /\ y4 # x4
        BY ONLY <1>3, <1>4, <2>7
      <3> HIDE DEF x, x1, x2, x3, x4, x5, y, y1, y2, y3, y4, y5
      <3>2. x1 + x2 + x3 + y4 + x5 = x1 + x2 + x3 + x4 + x5
        BY ONLY <2>9, <3>1
      <3>3. y4 = x4
        BY ONLY <2>10, <2>11, <3>2
      <3>. QED
        BY ONLY <3>1, <3>3
    <2>8. CASE i = 5
      <3>1. y1 = x1 /\ y2 = x2 /\ y3 = x3 /\ y4 = x4 /\ y5 # x5
        BY ONLY <1>3, <1>4, <2>8
      <3> HIDE DEF x, x1, x2, x3, x4, x5, y, y1, y2, y3, y4, y5
      <3>2. x1 + x2 + x3 + x4 + y5 = x1 + x2 + x3 + x4 + x5
        BY ONLY <2>9, <3>1
      <3>3. y5 = x5
        BY ONLY <2>10, <2>11, <3>2
      <3>. QED
        BY ONLY <3>1, <3>3
    <2>. QED
      BY ONLY <2>2, <2>4, <2>5, <2>6, <2>7, <2>8
  <1>. QED
    BY <1>3, <1>4, <1>6, <1>8

\* So no header is accepted that cuts the sections otherwise.
LEMMA HeaderDamaged ==
  ASSUME NEW f, Whole(f), NEW g \in HeaderDamages(f), Accepted(g)
  PROVE  g \in SegmentFiles /\ Cut(g)
  <1>0. /\ f = [flags |-> f.flags, size |-> f.size, offsets |-> f.offsets, lengths |-> f.lengths,
                docs |-> f.docs, paths |-> f.paths, terms |-> f.terms, names |-> f.names,
                posts |-> f.posts, places |-> f.places]
        /\ f \in SegmentFiles /\ f.lengths = Sections(f)
    BY DEF SegmentFiles, Whole, Cut
  <1>1. /\ f.size = HeaderSize + Sum(f.lengths) /\ f.size \in Nat
        /\ f.lengths \in [1 .. 5 -> Nat] /\ f.offsets \in [1 .. 5 -> Nat] /\ f.flags \in BOOLEAN
        /\ Len(f.lengths) = 5
    BY <1>0, FileTyped, SectionLengths DEF Whole
  <1>2. /\ \A s \in 1 .. 5 : g.offsets[s] = HeaderSize + SumTo(g.lengths, s - 1)
        /\ g.size = HeaderSize + Sum(g.lengths) /\ g.size = HeaderSize + Sum(Sections(g))
    BY DEF Accepted, EnvelopeValid, HeaderValid
  <1>3. ASSUME g = [f EXCEPT !.flags = ~ @] PROVE g \in SegmentFiles /\ Cut(g)
    <2>1. Sections(g) = Sections(f) /\ g.lengths = f.lengths
      BY ONLY <1>0, <1>3 DEF Sections
    <2>2. g \in SegmentFiles
      BY ONLY <1>0, <1>3 DEF SegmentFiles
    <2>. QED
      BY <1>0, <2>1, <2>2 DEF Cut
  <1>4. ASSUME NEW m \in Near(f.size), g = [f EXCEPT !.size = m] PROVE FALSE
    <2>1. m # f.size /\ g.size = m /\ g.lengths = f.lengths
      BY <1>0, <1>1, <1>4, NearNat
    <2>. QED
      BY ONLY <1>1, <1>2, <2>1
  <1>5. ASSUME NEW o \in Shifted(f.offsets), g = [f EXCEPT !.offsets = o] PROVE g \in SegmentFiles /\ Cut(g)
    <2>1. Sections(g) = Sections(f) /\ g.lengths = f.lengths
      BY ONLY <1>0, <1>5 DEF Sections
    <2>2. o \in [1 .. 5 -> Nat]
      <3>1. PICK i \in 1 .. 5 : \E m \in Near(f.offsets[i]) : o = [f.offsets EXCEPT ![i] = m]
        BY <1>1 DEF Shifted
      <3>2. PICK m \in Near(f.offsets[i]) : o = [f.offsets EXCEPT ![i] = m]
        BY <3>1
      <3>3. m \in Nat
        <4>1. f.offsets[i] \in Nat
          BY <1>1
        <4>. QED
          BY <4>1, NearNat
      <3>. QED
        BY <1>1, <3>2, <3>3
    <2>3. g \in SegmentFiles
      BY ONLY <1>0, <1>5, <2>2 DEF SegmentFiles
    <2>. QED
      BY <1>0, <2>1, <2>3 DEF Cut
  <1>6. ASSUME NEW l \in Shifted(f.lengths), g = [f EXCEPT !.lengths = l] PROVE FALSE
    <2>1. Sum(l) # Sum(f.lengths) /\ g.lengths = l /\ Sections(g) = Sections(f)
      <3>1. Sum(l) # Sum(f.lengths)
        BY <1>1, LengthsShifted
      <3>. QED
        BY ONLY <1>0, <1>6, <3>1 DEF Sections
    <2>2. HeaderSize + Sum(l) = HeaderSize + Sum(f.lengths)
      BY ONLY <1>0, <1>2, <2>1
    <2>3. \A s \in [1 .. 5 -> Nat] : Len(s) = 5 => Sum(s) \in Nat
      <3> SUFFICES ASSUME NEW s \in [1 .. 5 -> Nat], Len(s) = 5 PROVE Sum(s) \in Nat
        OBVIOUS
      <3>1. \A k \in 1 .. 5 : s[k] \in Nat
        OBVIOUS
      <3>2. SumTo(s, 5) \in Nat
        BY <3>1, SumToNat
      <3>. QED
        BY <3>2 DEF Sum
    <2>4. l \in [1 .. 5 -> Nat] /\ Len(l) = 5
      <3>1. l \in [1 .. 5 -> Nat]
        BY <1>1, LengthsShifted
      <3>2. l = [k \in 1 .. 5 |-> l[k]]
        BY <3>1
      <3>. QED
        BY ONLY <3>1, <3>2, FunLen
    <2>5. Sum(l) \in Nat /\ Sum(f.lengths) \in Nat
      BY <1>1, <2>3, <2>4
    <2>. QED
      BY ONLY <2>1, <2>2, <2>5 DEF HeaderSize
  <1>. QED
    BY ONLY <1>3, <1>4, <1>5, <1>6, g \in HeaderDamages(f) DEF HeaderDamages

-----------------------------------------------------------------------------
(* Every file that the reader is given is typed, and an accepted one is cut  *)
(* as its header says.                                                       *)

ReadInv ==
  /\ memory \in Seq(Index)
  /\ pc = "written" /\ Len(memory) = 1 => Whole(files[1])
  /\ pc \in {"damaged", "accepted"} /\ Len(memory) = 1 /\ Accepted(files[1]) =>
       files[1] \in SegmentFiles /\ Cut(files[1])
  /\ pc = "accepted" => Len(memory) = 1 /\ Accepted(files[1])

\* What Init picks.
LEMMA BatchesTyped ==
  ASSUME NEW b \in Batches \cup {<<s>> : s \in Singles}
  PROVE  /\ b \in Seq(Seq(Documents))
         /\ Len(b) \in Nat /\ DOMAIN b = 1 .. Len(b) /\ \A i \in 1 .. Len(b) : b[i] \in Seq(Documents)
  <1>1. b \in Seq(Seq(Documents))
    <2>1. CASE b \in Batches
      BY <2>1, BatchAssumption
    <2>2. CASE b \in {<<s>> : s \in Singles}
      <3>1. PICK s \in Singles : b = <<s>>
        BY <2>2
      <3>2. s \in Seq(Documents)
        BY BatchAssumption
      <3> HIDE DEF Documents
      <3>. QED
        BY ONLY <3>1, <3>2
    <2>. QED
      BY <2>1, <2>2
  <1>. QED
    BY ONLY <1>1, LenProperties, ElementOfSeq

\* What is known of a file until the reader has given its verdict.
LEMMA ReadInvHolds == Spec => []ReadInv
  <1>1. Init => ReadInv
    <2> SUFFICES ASSUME Init PROVE ReadInv
      OBVIOUS
    <2>1. PICK b \in Batches \cup {<<s>> : s \in Singles}, p \in BOOLEAN :
            memory = [i \in DOMAIN b |-> Build(b[i], p)]
      BY DEF Init
    <2>2. pc = "write"
      BY DEF Init
    <2>3. Len(b) \in Nat /\ DOMAIN b = 1 .. Len(b) /\ \A i \in 1 .. Len(b) : b[i] \in Seq(Documents)
      BY BatchesTyped
    <2>4. memory = [i \in 1 .. Len(b) |-> memory[i]] /\ \A i \in 1 .. Len(b) : memory[i] = Build(b[i], p)
      BY <2>1, <2>3
    <2>5. ASSUME NEW i \in 1 .. Len(b) PROVE memory[i] \in Index
      <3>1. memory[i] = Build(b[i], p) /\ b[i] \in Seq(Documents)
        BY ONLY <2>3, <2>4, i \in 1 .. Len(b)
      <3>2. Build(b[i], p) \in Index
        BY ONLY <3>1, p \in BOOLEAN, BuildIs
      <3>. QED
        BY ONLY <3>1, <3>2
    <2>6. memory \in Seq(Index)
      BY ONLY <2>3, <2>4, <2>5, SeqIs
    <2>. QED
      BY <2>2, <2>6 DEF ReadInv
  <1>2. ReadInv /\ [Next]_vars => ReadInv'
    <2> SUFFICES ASSUME ReadInv, [Next]_vars PROVE ReadInv'
      OBVIOUS
    <2>1. CASE WriteSources
      <3>1. files' = [i \in DOMAIN memory |-> Write(memory[i])] /\ memory \in Seq(Index)
        BY <2>1 DEF WriteSources, ReadInv
      <3>2. Len(memory) = 1 => Whole(files'[1])
        <4> HAVE Len(memory) = 1
        <4>1. 1 \in DOMAIN memory /\ memory[1] \in Index
          BY <3>1, LenProperties, ElementOfSeq
        <4>2. files'[1] = Write(memory[1])
          BY <3>1, <4>1
        <4>. QED
          BY <4>1, <4>2, WriteTyped DEF Whole
      <3>. QED
        BY <2>1, <3>1, <3>2 DEF WriteSources, ReadInv
    <2>2. CASE CheckFeatures
      BY <2>2 DEF CheckFeatures, ReadInv
    <2>3. CASE CopyDocuments
      BY <2>3 DEF CopyDocuments, ReadInv
    <2>4. CASE DocumentsDone
      BY <2>4 DEF DocumentsDone, ReadInv
    <2>5. CASE CountTerm
      BY <2>5 DEF CountTerm, ReadInv
    <2>6. CASE CopyTerm
      BY <2>6 DEF CopyTerm, ReadInv
    <2>7. CASE AssembleFile
      BY <2>7 DEF AssembleFile, ReadInv
    <2>8. CASE Damage
      <3>1. /\ pc = "written" /\ Len(memory) = 1 /\ pc' = "damaged" /\ memory' = memory
            /\ Whole(files[1])
        BY <2>8 DEF Damage, ReadInv
      <3>2. PICK g \in HeaderDamages(files[1]) \cup {WithHeader(b) : b \in BodyDamages(files[1])} : files' = <<g>>
        BY <2>8 DEF Damage
      <3>3. files'[1] = g
        BY <3>2
      <3>4. Accepted(g) => g \in SegmentFiles /\ Cut(g)
        <4>1. CASE g \in HeaderDamages(files[1])
          BY <3>1, <4>1, HeaderDamaged
        <4>2. CASE g \in {WithHeader(b) : b \in BodyDamages(files[1])}
          <5>1. PICK b \in BodyDamages(files[1]) : g = WithHeader(b)
            BY <4>2
          <5>2. Body(b)
            BY <3>1, BodyDamagesTyped DEF Whole
          <5>. QED
            BY <5>1, <5>2, HeaderTyped
        <4>. QED
          BY <4>1, <4>2
      <3>. QED
        BY <3>1, <3>3, <3>4 DEF ReadInv
    <2>9. CASE Read
      BY <2>9 DEF Read, ReadInv, Whole
    <2>10. CASE UNCHANGED vars
      BY <2>10 DEF vars, ReadInv
    <2>. QED
      BY <2>1, <2>2, <2>3, <2>4, <2>5, <2>6, <2>7, <2>8, <2>9, <2>10 DEF Next
  <1>. QED
    BY <1>1, <1>2, PTL DEF Spec

\* The reader accepts nothing the writer would not write.
THEOREM OneFileForOneIndex == Spec => []AcceptedIsCanonical
  <1>1. ReadInv => AcceptedIsCanonical
    BY OneEncoding, LoadedWritable DEF ReadInv, AcceptedIsCanonical
  <1>. QED
    BY <1>1, ReadInvHolds, PTL

-----------------------------------------------------------------------------
(* What Build makes can be written and read back. *)

\* A total, split.
LEMMA SumToSplit ==
  ASSUME NEW s, NEW t, NEW n \in Nat, NEW m \in Nat, NEW b, b = n + m,
         \A k \in 1 .. b : s[k] \in Nat,
         \A k \in 1 .. m : t[k] = s[n + k]
  PROVE  SumTo(s, b) = SumTo(s, n) + SumTo(t, m)
  BY SumToAfter

\* u weighs a flattened sequence by w; v has the weights of its pieces.
Weighs(ss, w, u, v, z) ==
  /\ \A k \in 1 .. Len(FlattenSeq(ss)) : u[k] = w[FlattenSeq(ss)[k]]
  /\ \A i \in 1 .. Len(ss) : /\ v[i] = SumTo(z[i], Len(ss[i]))
                              /\ \A k \in 1 .. Len(ss[i]) : z[i][k] = w[ss[i][k]]

\* A sum along a flattened sequence is the sum of the sums of its pieces.
LEMMA SumFlatten ==
  ASSUME NEW X, NEW ss, ss \in Seq(Seq(X)), NEW w, \A x \in X : w[x] \in Nat, NEW u, NEW v, NEW z,
         Weighs(ss, w, u, v, z)
  PROVE  SumTo(u, Len(FlattenSeq(ss))) = SumTo(v, Len(ss))
  <1> DEFINE f == FlattenSeq(ss)
             e == Lens(ss)
             n == Len(ss)
             T == {i \in Nat : i <= n => SumTo(u, SumTo(e, i)) = SumTo(v, i)}
  <1>1. n \in Nat /\ \A i \in 1 .. n : e[i] = Len(ss[i]) /\ e[i] \in Nat
    BY LensNat
  <1>2. /\ f \in Seq(X) /\ Len(f) = SumTo(e, n) /\ Len(f) \in Nat
        /\ \A k \in 1 .. Len(f) : f[k] \in X
        /\ \A i \in 1 .. n, k \in Nat : k \in 1 .. Len(ss[i]) => f[SumTo(e, i - 1) + k] = ss[i][k]
    BY FlattenAt, LenProperties, ElementOfSeq
  <1>3. \A k \in 1 .. Len(f) : u[k] \in Nat /\ u[k] = w[f[k]]
    BY <1>2 DEF Weighs
  <1>4. \A i \in 1 .. n : v[i] = SumTo(z[i], e[i]) /\ \A k \in 1 .. e[i] : z[i][k] = w[ss[i][k]]
    BY <1>1 DEF Weighs
  <1> HIDE DEF f, e, n
  <1>5. 0 \in T
    <2>1. SumTo(e, 0) = 0 /\ SumTo(v, 0) = 0 /\ SumTo(u, 0) = 0
      BY ONLY SumToRec
    <2>. QED
      BY <2>1
  <1>6. ASSUME NEW i \in Nat, i \in T PROVE i + 1 \in T
    <2> SUFFICES ASSUME i + 1 <= n PROVE SumTo(u, SumTo(e, i + 1)) = SumTo(v, i + 1)
      OBVIOUS
    <2> DEFINE a == SumTo(e, i)
               d == e[i + 1]
               y == z[i + 1]
    <2>1. i + 1 \in 1 .. n /\ (i + 1) - 1 = i /\ i <= n
      BY <1>1
    <2>2. a \in Nat /\ SumTo(e, i + 1) = a + d /\ a + d <= Len(f) /\ d \in Nat
      <3>1. /\ SumTo(e, (i + 1) - 1) \in Nat /\ SumTo(e, i + 1) = SumTo(e, (i + 1) - 1) + e[i + 1]
            /\ SumTo(e, (i + 1) - 1) + e[i + 1] <= SumTo(e, n)
        <4>1. \A k \in 1 .. n : e[k] \in Nat
          BY ONLY <1>1
        <4>. QED
          BY ONLY <1>1, <2>1, <4>1, SumToBound
      <3>. QED
        BY ONLY <1>1, <1>2, <2>1, <3>1
    <2>3. SumTo(u, a) = SumTo(v, i)
      BY <1>6, <2>1
    <2>4. SumTo(v, i + 1) = SumTo(v, i) + v[i + 1] /\ v[i + 1] = SumTo(y, d)
      <3>1. SumTo(v, i + 1) = SumTo(v, i) + v[i + 1]
        BY ONLY SumToRec, i \in Nat
      <3>. QED
        BY ONLY <1>4, <2>1, <3>1
    <2>5. \A k \in 1 .. d : y[k] = u[a + k]
      <3> SUFFICES ASSUME NEW k \in 1 .. d PROVE y[k] = u[a + k]
        OBVIOUS
      <3>1. k \in Nat /\ k \in 1 .. Len(ss[i + 1])
        BY ONLY <1>1, <2>1, <2>2, k \in 1 .. d
      <3>2. f[a + k] = ss[i + 1][k]
        BY ONLY <1>2, <2>1, <3>1
      <3>3. a + k \in 1 .. Len(f)
        BY ONLY <1>2, <2>2, <3>1, k \in 1 .. d
      <3>. QED
        BY ONLY <1>3, <1>4, <2>1, <3>2, <3>3, k \in 1 .. d
    <2>6. \A k \in 1 .. (a + d) : u[k] \in Nat
      BY ONLY <1>2, <1>3, <2>2
    <2> HIDE DEF a, d, y
    <2>7. SumTo(u, a + d) = SumTo(u, a) + SumTo(y, d)
      <3>1. a \in Nat /\ d \in Nat
        BY ONLY <2>2
      <3> DEFINE b == a + d
      <3>2. b = a + d
        OBVIOUS
      <3>3. \A k \in 1 .. b : u[k] \in Nat
        BY ONLY <2>6
      <3>4. \A k \in 1 .. d : y[k] = u[a + k]
        BY ONLY <2>5
      <3> HIDE DEF b
      <3>5. SumTo(u, b) = SumTo(u, a) + SumTo(y, d)
        BY ONLY <3>1, <3>2, <3>3, <3>4, SumToSplit
      <3>. QED
        BY ONLY <3>2, <3>5
    <2>. QED
      BY ONLY <2>2, <2>3, <2>4, <2>7 DEF a
  <1> HIDE DEF T
  <1>7. n \in T
    BY ONLY <1>1, <1>5, <1>6, NatInductive
  <1>8. SumTo(u, SumTo(e, n)) = SumTo(v, n)
    BY ONLY <1>1, <1>7 DEF T
  <1>. QED
    BY <1>2, <1>8 DEF f, n

\* The tokens of a document, term by term.
LEMMA TokensByTerm ==
  ASSUME NEW doc \in Documents, NEW terms \in Seq(Seq(Nat)), Rising(terms), NEW c,
         \A k \in 1 .. Len(doc.text) : \E i \in 1 .. Len(terms) : doc.text[k] = terms[i],
         \A i \in 1 .. Len(terms) : c[i] = Cardinality(At(doc, terms[i]))
  PROVE  SumTo(c, Len(terms)) = Len(doc.text)
  <1> DEFINE n == Len(doc.text)
             m == Len(terms)
             P(i) == {p \in 0 .. n - 1 : \E j \in 1 .. i : doc.text[p + 1] = terms[j]}
             T == {i \in Nat : i <= m => IsFiniteSet(P(i)) /\ Cardinality(P(i)) = SumTo(c, i)}
             A(i) == At(doc, terms[i])
  <1>1. n \in Nat /\ m \in Nat
    BY DocumentTyped, LenProperties
  <1>2. \A i \in 1 .. m : IsFiniteSet(A(i)) /\ c[i] = Cardinality(A(i))
    BY OccurrencesAre
  <1>3. \A i \in 1 .. m : A(i) = {p \in 0 .. n - 1 : doc.text[p + 1] = terms[i]}
    BY DEF At
  <1>4. \A i, j \in 1 .. m : terms[i] = terms[j] => i = j
    BY RisingOnce
  <1>5. \A k \in 1 .. n : \E i \in 1 .. m : doc.text[k] = terms[i]
    OBVIOUS
  <1> HIDE DEF n, m, A, P
  <1>6. 0 \in T
    <2>1. P(0) = {}
      BY DEF P
    <2>2. SumTo(c, 0) = 0
      BY ONLY SumToRec
    <2>. QED
      BY <2>1, <2>2, FS_EmptySet
  <1>7. ASSUME NEW i \in Nat, i \in T PROVE i + 1 \in T
    <2> SUFFICES ASSUME i + 1 <= m
                 PROVE  IsFiniteSet(P(i + 1)) /\ Cardinality(P(i + 1)) = SumTo(c, i + 1)
      OBVIOUS
    <2>1. i + 1 \in 1 .. m /\ i <= m /\ \A j \in 1 .. i : j \in 1 .. m /\ j # i + 1
      BY <1>1
    <2>2. IsFiniteSet(P(i)) /\ Cardinality(P(i)) = SumTo(c, i)
      BY <1>7, <2>1
    <2>3. P(i + 1) = P(i) \cup A(i + 1)
      <3>1. \A j : j \in 1 .. (i + 1) <=> j \in 1 .. i \/ j = i + 1
        BY ONLY i \in Nat
      <3>. QED
        BY ONLY <1>3, <2>1, <3>1 DEF P
    <2>4. P(i) \cap A(i + 1) = {}
      BY ONLY <1>3, <1>4, <2>1 DEF P
    <2>5. IsFiniteSet(A(i + 1)) /\ c[i + 1] = Cardinality(A(i + 1))
      BY <1>2, <2>1
    <2>6. SumTo(c, i + 1) = SumTo(c, i) + c[i + 1]
      BY ONLY SumToRec, i \in Nat
    <2>7. /\ IsFiniteSet(P(i) \cup A(i + 1))
          /\ Cardinality(P(i) \cup A(i + 1)) = Cardinality(P(i)) + Cardinality(A(i + 1)) - Cardinality(P(i) \cap A(i + 1))
      BY ONLY <2>2, <2>5, FS_Union
    <2>8. Cardinality(P(i) \cap A(i + 1)) = 0
      BY <2>4, FS_EmptySet
    <2>9. Cardinality(P(i)) \in Nat /\ Cardinality(A(i + 1)) \in Nat
      BY <2>2, <2>5, FS_CardinalityType
    <2>. QED
      <3>1. Cardinality(P(i + 1)) = Cardinality(P(i)) + Cardinality(A(i + 1)) - Cardinality(P(i) \cap A(i + 1))
        BY ONLY <2>3, <2>7
      <3>2. Cardinality(P(i + 1)) = Cardinality(P(i)) + Cardinality(A(i + 1))
        BY ONLY <2>8, <2>9, <3>1
      <3>3. IsFiniteSet(P(i + 1))
        BY ONLY <2>3, <2>7
      <3>. QED
        BY ONLY <2>2, <2>5, <2>6, <3>2, <3>3
  <1>8. P(m) = 0 .. n - 1
    <2>1. \A p \in 0 .. n - 1 : p + 1 \in 1 .. n
      BY <1>1
    <2>. QED
      BY <1>5, <2>1 DEF P
  <1> HIDE DEF T
  <1>9. m \in T
    BY ONLY <1>1, <1>6, <1>7, NatInductive
  <1>10. Cardinality(P(m)) = SumTo(c, m)
    BY <1>1, <1>9 DEF T
  <1>11. Cardinality(0 .. n - 1) = n
    <2>1. 0 \in Int /\ n - 1 \in Int
      BY <1>1
    <2>2. Cardinality(0 .. n - 1) = IF 0 > n - 1 THEN 0 ELSE (n - 1) - 0 + 1
      BY ONLY <2>1, FS_Interval
    <2>. QED
      BY <1>1, <2>2
  <1>. QED
    BY <1>8, <1>10, <1>11 DEF n, m

Uses(list, d) == [k \in DOMAIN list |-> IF list[k].doc = d - 1 THEN list[k].freq ELSE 0]

\* What the postings of a term count in a document.
LEMMA UsesOfTerm ==
  ASSUME NEW parsed \in Seq(Documents), NEW p \in BOOLEAN, NEW t, NEW d \in 1 .. Len(parsed)
  PROVE  SumTo(Uses(PostingList(parsed, p, t), d), Len(PostingList(parsed, p, t))) = Cardinality(At(parsed[d], t))
  <1> DEFINE L == PostingList(parsed, p, t)
             H == Holders(parsed, t)
             ids == Ascending(H)
             n == Cardinality(H)
             u == Uses(L, d)
             c == Cardinality(At(parsed[d], t))
  <1>1. /\ n \in Nat /\ ids \in Seq(Nat) /\ DOMAIN ids = 1 .. n /\ Increasing(ids)
        /\ H = {ids[k] : k \in 1 .. n}
        /\ Len(L) = n /\ DOMAIN L = 1 .. n
        /\ \A k \in 1 .. n : /\ ids[k] \in H
                             /\ L[k] = PostingOf(parsed, p, t, ids[k])
    BY PostingListIs
  <1>2. H \in SUBSET Nat /\ parsed[d] \in Documents /\ d \in Nat /\ DOMAIN parsed = 1 .. Len(parsed)
    BY HoldersAre
  <1>3. /\ Len(Occurrences(parsed[d], t)) = c /\ IsFiniteSet(At(parsed[d], t))
        /\ Occurrences(parsed[d], t) \in Seq(Nat)
        /\ Occurrences(parsed[d], t) = <<>> <=> \A k \in 1 .. Len(parsed[d].text) : parsed[d].text[k] # t
    BY <1>2, OccurrencesAre
  <1>4. c \in Nat
    BY <1>3, FS_CardinalityType
  <1>5. d \in H <=> Occurrences(parsed[d], t) # <<>>
    BY <1>2, <1>3 DEF Holders
  <1>6. \A k \in 1 .. n : u[k] = IF ids[k] = d THEN Len(Occurrences(parsed[ids[k]], t)) ELSE 0
    <2> SUFFICES ASSUME NEW k \in 1 .. n
                 PROVE  u[k] = IF ids[k] = d THEN Len(Occurrences(parsed[ids[k]], t)) ELSE 0
      OBVIOUS
    <2>1. /\ u[k] = IF L[k].doc = d - 1 THEN L[k].freq ELSE 0
          /\ ids[k] \in H /\ L[k] = PostingOf(parsed, p, t, ids[k])
      BY <1>1 DEF Uses
    <2>2. L[k].doc = ids[k] - 1 /\ L[k].freq = Len(Occurrences(parsed[ids[k]], t))
      BY ONLY <2>1 DEF PostingOf
    <2>3. ids[k] \in Nat
      BY ONLY <1>2, <2>1
    <2>4. ids[k] - 1 = d - 1 <=> ids[k] = d
      BY ONLY <1>2, <2>3
    <2>. QED
      BY ONLY <2>1, <2>2, <2>4
  <1> HIDE DEF L, H, ids, n, u, c
  <1>7. CASE d \in H
    <2>1. PICK j \in 1 .. n : ids[j] = d
      BY ONLY <1>1, <1>7
    <2>2. \A k \in 1 .. n : k # j => ids[k] # d
      <3>1. \A k \in 1 .. n : ids[k] \in Nat
        BY ONLY <1>1, <1>2
      <3>2. \A k, h \in 1 .. n : k < h => ids[k] < ids[h]
        BY ONLY <1>1 DEF Increasing
      <3>3. n \in Nat
        BY ONLY <1>1
      <3>4. ASSUME NEW k \in 1 .. n, k # j PROVE ids[k] # d
        <4>1. k < j \/ j < k
          BY ONLY <3>3, <3>4
        <4>2. ids[k] \in Nat /\ ids[j] \in Nat
          BY ONLY <3>1
        <4>3. ids[k] < ids[j] \/ ids[j] < ids[k]
          BY ONLY <3>2, <4>1
        <4>. QED
          BY ONLY <2>1, <4>2, <4>3
      <3>. QED
        BY ONLY <3>4
    <2>3. u[j] = c /\ \A k \in 1 .. n : k # j => u[k] = 0
      BY ONLY <1>3, <1>6, <2>1, <2>2
    <2>4. SumTo(u, n) = u[j]
      BY ONLY <1>1, <1>4, <2>3, SumToSingle
    <2>. QED
      BY <1>1, <2>3, <2>4 DEF u, L, c
  <1>8. CASE d \notin H
    <2>1. \A k \in 1 .. n : u[k] = 0
      BY ONLY <1>1, <1>6, <1>8
    <2>2. SumTo(u, n) = 0
      BY ONLY <1>1, <2>1, SumToZero
    <2>3. c = 0
      BY ONLY <1>3, <1>5, <1>8, EmptySeq
    <2>. QED
      BY <1>1, <2>2, <2>3 DEF u, L, c
  <1>. QED
    BY <1>7, <1>8

\* A posting list that the writer and the reader take.
FineList(L, parsed, p) ==
  /\ L \in Seq(Posting) /\ L # <<>>
  /\ \A j, k \in 1 .. Len(L) : j < k => L[j].doc < L[k].doc
  /\ \A k \in 1 .. Len(L) : /\ L[k].doc < Len(parsed) /\ L[k].freq > 0 /\ Increasing(L[k].positions)
                            /\ Len(L[k].positions) = IF p THEN L[k].freq ELSE 0
                            /\ parsed[L[k].doc + 1].live

\* The list of a term that some document holds.
LEMMA PostingFine ==
  ASSUME NEW parsed \in Seq(Documents), NEW p \in BOOLEAN, NEW t, Holders(parsed, t) # {},
         NEW L, L = PostingList(parsed, p, t)
  PROVE  FineList(L, parsed, p)
  <1> DEFINE H == Holders(parsed, t)
             ids == Ascending(H)
             n == Cardinality(H)
  <1>1. /\ n \in Nat /\ ids \in Seq(Nat) /\ Increasing(ids) /\ DOMAIN ids = 1 .. n
        /\ H = {ids[k] : k \in 1 .. n}
        /\ L \in Seq(Posting) /\ Len(L) = n
        /\ \A k \in 1 .. n : ids[k] \in H /\ L[k] = PostingOf(parsed, p, t, ids[k])
    BY PostingListIs
  <1>2. /\ H \in SUBSET (1 .. Len(parsed)) /\ Len(parsed) \in Nat
        /\ \A i \in 1 .. Len(parsed) : parsed[i] \in Documents
        /\ {i \in DOMAIN parsed : Occurrences(parsed[i], t) # <<>>} = H
    BY HoldersAre
  <1>3. H # {}
    OBVIOUS
  <1> HIDE DEF H, ids, n
  <1>4. L # <<>>
    <2>1. n # 0
      BY ONLY <1>1, <1>3
    <2>. QED
      BY ONLY <1>1, <2>1, EmptySeq
  <1>5. ASSUME NEW k \in 1 .. n
        PROVE  /\ ids[k] \in 1 .. Len(parsed) /\ L[k].doc = ids[k] - 1
               /\ L[k].doc < Len(parsed) /\ L[k].freq > 0 /\ Increasing(L[k].positions)
               /\ Len(L[k].positions) = IF p THEN L[k].freq ELSE 0
               /\ parsed[L[k].doc + 1].live
    <2> DEFINE i == ids[k]
               o == Occurrences(parsed[i], t)
               doc == parsed[i]
    <2>1. L[k] = PostingOf(parsed, p, t, i) /\ i \in H /\ i \in 1 .. Len(parsed)
      BY ONLY <1>1, <1>2, k \in 1 .. n
    <2>2. L[k].doc = i - 1 /\ L[k].freq = Len(o) /\ L[k].positions = IF p THEN o ELSE <<>>
      BY ONLY <2>1 DEF PostingOf
    <2>3. doc \in Documents /\ o # <<>>
      BY ONLY <1>2, <2>1
    <2>4. /\ o \in Seq(Nat) /\ Increasing(o)
          /\ o = <<>> <=> \A h \in 1 .. Len(doc.text) : doc.text[h] # t
      BY ONLY <2>3, OccurrencesAre
    <2>5. Len(o) > 0 /\ Len(<<>>) = 0 /\ Increasing(<<>>)
      <3>1. Len(o) \in Nat /\ Len(o) # 0
        BY ONLY <2>3, <2>4, EmptySeq, LenProperties
      <3>2. Increasing(<<>>)
        BY DEF Increasing
      <3>. QED
        BY ONLY <3>1, <3>2, EmptySeq
    <2>6. doc.live
      <3>1. doc.text # <<>>
        <4>1. \E h \in 1 .. Len(doc.text) : TRUE
          BY ONLY <2>3, <2>4
        <4>2. Len(<<>>) = 0
          OBVIOUS
        <4>. QED
          BY ONLY <4>1, <4>2
      <3>. QED
        BY ONLY <2>3, <3>1 DEF Documents
    <2>7. i - 1 < Len(parsed) /\ (i - 1) + 1 = i
      BY ONLY <1>2, <2>1
    <2>. QED
      BY ONLY <2>1, <2>2, <2>5, <2>4, <2>6, <2>7
  <1>6. \A j, k \in 1 .. n : j < k => L[j].doc < L[k].doc
    <2> SUFFICES ASSUME NEW j \in 1 .. n, NEW k \in 1 .. n, j < k PROVE L[j].doc < L[k].doc
      OBVIOUS
    <2>1. ids[j] < ids[k]
      BY ONLY <1>1, j \in 1 .. n, k \in 1 .. n, j < k DEF Increasing
    <2>2. /\ ids[j] \in 1 .. Len(parsed) /\ ids[k] \in 1 .. Len(parsed)
          /\ L[j].doc = ids[j] - 1 /\ L[k].doc = ids[k] - 1
      BY ONLY <1>5, j \in 1 .. n, k \in 1 .. n
    <2>. QED
      BY ONLY <1>2, <2>1, <2>2
  <1>. QED
    BY ONLY <1>1, <1>4, <1>5, <1>6 DEF FineList

\* Every index that add_occurrence and commit_document build is one that the
\* writer takes and the reader reads back.
THEOREM BuildGood ==
  ASSUME NEW parsed \in Seq(Documents), NEW p \in BOOLEAN
  PROVE  Good(Build(parsed, p)) /\ Writable(Build(parsed, p))
  <1> DEFINE ix == Build(parsed, p)
             terms == BuiltTerms(parsed)
             n == Len(parsed)
             m == Len(terms)
             l == ListsOf(ix)
             all == AllOf(ix)
  <1>1. /\ ix \in Index /\ ix.positions = p /\ n \in Nat /\ m \in Nat
        /\ ix.docs = [i \in 1 .. n |-> BuiltDoc(parsed[i])] /\ Len(ix.docs) = n
        /\ DOMAIN ix.postings = 1 .. m /\ Len(ix.postings) = m
        /\ ix.postings = [i \in 1 .. m |-> [term |-> terms[i], list |-> PostingList(parsed, p, terms[i])]]
    <2>1. ix = Build(parsed, p) /\ terms = BuiltTerms(parsed) /\ n = Len(parsed) /\ m = Len(terms)
      OBVIOUS
    <2> HIDE DEF ix, terms, n, m
    <2>. QED
      BY ONLY parsed \in Seq(Documents), p \in BOOLEAN, <2>1, BuildIs
  <1>2. /\ terms \in Seq(Seq(Nat)) /\ Rising(terms)
        /\ TermsIn(parsed) = {terms[i] : i \in 1 .. m}
        /\ \A i \in 1 .. m : terms[i] \in Seq(Nat) /\ Holders(parsed, terms[i]) # {}
    BY BuiltTermsAre
  <1>3. DOMAIN parsed = 1 .. n /\ \A i \in 1 .. n : parsed[i] \in Documents
    BY HoldersAre
  <1>4. /\ l \in Seq(Seq(Posting)) /\ Len(l) = m
        /\ TermsOf(ix) \in Seq(Seq(Nat)) /\ Len(TermsOf(ix)) = m
        /\ \A i \in 1 .. m : TermsOf(ix)[i] = ix.postings[i].term /\ l[i] = ix.postings[i].list
    BY <1>1, IndexParts
  <1>5. all = FlattenSeq(l)
    BY DEF AllOf
  <1> HIDE DEF ix, terms, n, m, l, all
  <1>6. \A i \in 1 .. m : /\ ix.postings[i].term = terms[i]
                          /\ ix.postings[i].list = PostingList(parsed, p, terms[i])
    BY ONLY <1>1
  <1>7. TermsOf(ix) = terms
    <2>1. Len(terms) = m
      BY DEF m
    <2>2. \A i \in 1 .. m : TermsOf(ix)[i] = terms[i]
      BY ONLY <1>4, <1>6
    <2>3. TermsOf(ix) \in Seq(Seq(Nat)) /\ terms \in Seq(Seq(Nat)) /\ Len(TermsOf(ix)) = m
      BY ONLY <1>2, <1>4
    <2>. QED
      BY ONLY <2>1, <2>2, <2>3, SeqEqual
  <1>8. ASSUME NEW i \in 1 .. m
        PROVE  ix.postings[i].term # <<>>
    <2>1. terms[i] \in TermsIn(parsed)
      BY ONLY <1>2, i \in 1 .. m
    <2>2. PICK d \in 1 .. n : \E k \in DOMAIN parsed[d].text : terms[i] = parsed[d].text[k]
      BY ONLY <1>3, <2>1 DEF TermsIn
    <2>3. parsed[d] \in Documents
      BY <1>3
    <2>4. \A k \in DOMAIN parsed[d].text : parsed[d].text[k] # <<>>
      BY ONLY <2>3 DEF Documents
    <2>. QED
      BY ONLY <1>6, <2>2, <2>4, i \in 1 .. m
  <1>9. \A d \in 1 .. n : /\ ix.docs[d].path = parsed[d].path /\ ix.docs[d].live = parsed[d].live
                          /\ ix.docs[d].tokens = Len(parsed[d].text)
    BY ONLY <1>1 DEF BuiltDoc
  <1>10. \A d \in 1 .. n : ix.docs[d].path # <<>> /\ (ix.docs[d].live \/ ix.docs[d].tokens = 0)
    <2> SUFFICES ASSUME NEW d \in 1 .. n
                 PROVE  ix.docs[d].path # <<>> /\ (ix.docs[d].live \/ ix.docs[d].tokens = 0)
      OBVIOUS
    <2>1. parsed[d] \in Documents
      BY <1>3
    <2>2. parsed[d].path # <<>> /\ (parsed[d].live \/ parsed[d].text = <<>>)
      BY ONLY <2>1 DEF Documents
    <2>. QED
      BY ONLY <1>9, <2>2, EmptySeq, d \in 1 .. n
  <1>11. ASSUME NEW i \in 1 .. m, NEW L, L = ix.postings[i].list
         PROVE  /\ L \in Seq(Posting) /\ L # <<>>
                /\ \A j, k \in 1 .. Len(L) : j < k => L[j].doc < L[k].doc
                /\ \A k \in 1 .. Len(L) : /\ L[k].doc < n /\ L[k].freq > 0 /\ Increasing(L[k].positions)
                                          /\ Len(L[k].positions) = IF p THEN L[k].freq ELSE 0
                                          /\ parsed[L[k].doc + 1].live
    <2>1. Holders(parsed, terms[i]) # {} /\ L = PostingList(parsed, p, terms[i])
      BY ONLY <1>2, <1>6, <1>11, i \in 1 .. m
    <2>2. n = Len(parsed)
      BY DEF n
    <2>3. FineList(L, parsed, p)
      BY ONLY parsed \in Seq(Documents), p \in BOOLEAN, <2>1, PostingFine
    <2>. QED
      BY ONLY <2>2, <2>3 DEF FineList
  <1>12. ASSUME NEW d \in 1 .. n
         PROVE  SumTo([k \in DOMAIN all |-> IF all[k].doc = d - 1 THEN all[k].freq ELSE 0], Len(all)) = ix.docs[d].tokens
    <2> DEFINE w == [x \in Posting |-> IF x.doc = d - 1 THEN x.freq ELSE 0]
               u == [k \in DOMAIN all |-> IF all[k].doc = d - 1 THEN all[k].freq ELSE 0]
               z == [i \in 1 .. m |-> Uses(l[i], d)]
               v == [i \in 1 .. m |-> SumTo(z[i], Len(l[i]))]
               doc == parsed[d]
    <2>1. \A x \in Posting : w[x] \in Nat /\ w[x] = IF x.doc = d - 1 THEN x.freq ELSE 0
      BY DEF Posting
    <2>2. /\ all \in Seq(Posting) /\ DOMAIN all = 1 .. Len(all)
          /\ \A k \in 1 .. Len(all) : all[k] \in Posting
      <3>1. all \in Seq(Posting)
        BY ONLY <1>4, <1>5, FlattenType
      <3>. QED
        BY ONLY <3>1, LenProperties, ElementOfSeq
    <2>3. \A k \in 1 .. Len(all) : u[k] = w[all[k]]
      BY ONLY <2>1, <2>2
    <2>4. \A i \in 1 .. m : v[i] = SumTo(z[i], Len(l[i])) /\ z[i] = Uses(l[i], d)
      OBVIOUS
    <2> HIDE DEF w, u, v, z
    <2>5. \A i \in 1 .. m : \A k \in 1 .. Len(l[i]) : z[i][k] = w[l[i][k]]
      <3> SUFFICES ASSUME NEW i \in 1 .. m, NEW k \in 1 .. Len(l[i]) PROVE z[i][k] = w[l[i][k]]
        OBVIOUS
      <3>1. l \in Seq(Seq(Posting)) /\ i \in 1 .. Len(l)
        BY ONLY <1>4, i \in 1 .. m
      <3>2. DOMAIN l[i] = 1 .. Len(l[i]) /\ l[i][k] \in Posting
        BY ONLY <3>1, LensNat, k \in 1 .. Len(l[i])
      <3>3. Uses(l[i], d)[k] = IF l[i][k].doc = d - 1 THEN l[i][k].freq ELSE 0
        BY ONLY <3>2, k \in 1 .. Len(l[i]) DEF Uses
      <3>. QED
        BY ONLY <2>1, <2>4, <3>2, <3>3, i \in 1 .. m
    <2>6. SumTo(u, Len(all)) = SumTo(v, m)
      <3>1. l \in Seq(Seq(Posting)) /\ Len(l) = m
        BY ONLY <1>4
      <3>2. \A x \in Posting : w[x] \in Nat
        BY ONLY <2>1
      <3>3. \A k \in 1 .. Len(FlattenSeq(l)) : u[k] = w[FlattenSeq(l)[k]]
        BY ONLY <1>5, <2>3
      <3>4. \A i \in 1 .. Len(l) : v[i] = SumTo(z[i], Len(l[i])) /\ \A k \in 1 .. Len(l[i]) : z[i][k] = w[l[i][k]]
        BY ONLY <2>4, <2>5, <3>1
      <3>5. SumTo(u, Len(FlattenSeq(l))) = SumTo(v, Len(l))
        <4>1. Weighs(l, w, u, v, z)
          BY ONLY <3>3, <3>4 DEF Weighs
        <4>2. l \in Seq(Seq(Posting))
          BY ONLY <3>1
        <4>. QED
          BY ONLY <3>2, <4>1, <4>2, SumFlatten
      <3>. QED
        BY ONLY <1>5, <3>1, <3>5
    <2>7. doc \in Documents
      BY <1>3
    <2>8. \A i \in 1 .. m : v[i] = Cardinality(At(doc, terms[i]))
      <3> SUFFICES ASSUME NEW i \in 1 .. m PROVE v[i] = Cardinality(At(doc, terms[i]))
        OBVIOUS
      <3>1. v[i] = SumTo(Uses(l[i], d), Len(l[i]))
        BY ONLY <2>4, i \in 1 .. m
      <3>2. l[i] = PostingList(parsed, p, terms[i])
        BY ONLY <1>4, <1>6, i \in 1 .. m
      <3>3. d \in 1 .. Len(parsed)
        BY DEF n
      <3>4. SumTo(Uses(PostingList(parsed, p, terms[i]), d), Len(PostingList(parsed, p, terms[i]))) = Cardinality(At(doc, terms[i]))
        BY <3>3, UsesOfTerm
      <3>. QED
        BY ONLY <3>1, <3>2, <3>4
    <2>9. \A k \in 1 .. Len(doc.text) : \E i \in 1 .. m : doc.text[k] = terms[i]
      <3> SUFFICES ASSUME NEW k \in 1 .. Len(doc.text) PROVE \E i \in 1 .. m : doc.text[k] = terms[i]
        OBVIOUS
      <3>1. DOMAIN doc.text = 1 .. Len(doc.text)
        BY ONLY <2>7, DocumentTyped
      <3>2. doc.text[k] \in TermsIn(parsed)
        BY ONLY <1>3, <3>1, d \in 1 .. n, k \in 1 .. Len(doc.text) DEF TermsIn
      <3>. QED
        BY ONLY <1>2, <3>2
    <2>10. SumTo(v, m) = Len(doc.text)
      <3>1. Len(terms) = m
        BY DEF m
      <3>2. terms \in Seq(Seq(Nat)) /\ Rising(terms)
        BY ONLY <1>2
      <3> HIDE DEF doc
      <3>. QED
        BY ONLY <2>7, <2>8, <2>9, <3>1, <3>2, TokensByTerm
    <2>11. ix.docs[d].tokens = Len(doc.text)
      BY <1>9
    <2>. QED
      BY <2>6, <2>10, <2>11 DEF u
  <1>13. Good(ix)
    <2>1. \A i \in 1 .. m : LET L == ix.postings[i].list IN
             /\ L # <<>>
             /\ \A j, k \in 1 .. Len(L) : j < k => L[j].doc < L[k].doc
             /\ \A k \in 1 .. Len(L) : /\ L[k].doc < n /\ L[k].freq > 0 /\ Increasing(L[k].positions)
                                       /\ Len(L[k].positions) = IF p THEN L[k].freq ELSE 0
      BY ONLY <1>11
    <2>2. Len(ix.docs) = n /\ Len(ix.postings) = m /\ ix.positions = p /\ ix \in Index
      BY ONLY <1>1
    <2>3. Rising(TermsOf(ix))
      BY ONLY <1>2, <1>7
    <2>4. \A d \in 1 .. n : SumTo([k \in DOMAIN all |-> IF all[k].doc = d - 1 THEN all[k].freq ELSE 0], Len(all)) = ix.docs[d].tokens
      BY ONLY <1>12
    <2>5. AllOf(ix) = all
      BY DEF all
    <2>. QED
      BY ONLY <1>8, <1>10, <2>1, <2>2, <2>3, <2>4, <2>5 DEF Good
  <1>14. Writable(ix)
    <2>1. ASSUME NEW i \in 1 .. m, NEW L, L = ix.postings[i].list
          PROVE  /\ L # <<>>
                 /\ \A k \in DOMAIN L : /\ L[k].doc < n /\ ix.docs[L[k].doc + 1].live /\ L[k].freq > 0
                                        /\ Len(L[k].positions) = IF p THEN L[k].freq ELSE 0
      <3>1. /\ L \in Seq(Posting) /\ L # <<>>
            /\ \A k \in 1 .. Len(L) : /\ L[k].doc < n /\ L[k].freq > 0
                                      /\ Len(L[k].positions) = IF p THEN L[k].freq ELSE 0
                                      /\ parsed[L[k].doc + 1].live
        BY ONLY <1>11, <2>1, i \in 1 .. m
      <3>2. DOMAIN L = 1 .. Len(L) /\ \A k \in 1 .. Len(L) : L[k] \in Posting
        BY ONLY <3>1, LenProperties, ElementOfSeq
      <3>3. \A k \in 1 .. Len(L) : ix.docs[L[k].doc + 1].live
        <4> SUFFICES ASSUME NEW k \in 1 .. Len(L) PROVE ix.docs[L[k].doc + 1].live
          OBVIOUS
        <4>1. L[k].doc \in Nat
          BY ONLY <3>2, k \in 1 .. Len(L) DEF Posting
        <4>2. L[k].doc + 1 \in 1 .. n
          BY ONLY <1>1, <3>1, <4>1, k \in 1 .. Len(L)
        <4>. QED
          BY ONLY <1>9, <3>1, <4>2, k \in 1 .. Len(L)
      <3>. QED
        BY ONLY <3>1, <3>2, <3>3
    <2>2. DOMAIN ix.postings = 1 .. m /\ Len(ix.docs) = n /\ ix.positions = p
      BY ONLY <1>1
    <2>. QED
      BY ONLY <2>1, <2>2 DEF Writable
  <1>. QED
    BY <1>13, <1>14 DEF ix

-----------------------------------------------------------------------------
(* Concatenations. *)

\* A place in a concatenation is in one of its parts.
LEMMA InPart ==
  ASSUME NEW n \in Nat, NEW m \in Nat, NEW k \in 1 .. (n + m), k \notin 1 .. n
  PROVE  \E j \in 1 .. m : k = n + j
  <1>1. k - n \in 1 .. m /\ k = n + (k - n)
    OBVIOUS
  <1>. QED
    BY ONLY <1>1

\* A concatenation, member by member.
LEMMA ConcatAt ==
  ASSUME NEW X, NEW s, s \in Seq(X), NEW t, t \in Seq(X), NEW n, n = Len(s), NEW m, m = Len(t),
         NEW u, u = s \o t
  PROVE  /\ n \in Nat /\ m \in Nat /\ DOMAIN s = 1 .. n /\ DOMAIN t = 1 .. m
         /\ u \in Seq(X) /\ Len(u) = n + m /\ DOMAIN u = 1 .. (n + m)
         /\ \A k \in 1 .. n : u[k] = s[k]
         /\ \A k \in 1 .. m : u[n + k] = t[k]
  <1>1. /\ n \in Nat /\ m \in Nat /\ DOMAIN s = 1 .. n /\ DOMAIN t = 1 .. m
    BY LenProperties
  <1>2. /\ u \in Seq(X) /\ Len(u) = n + m
        /\ \A i \in 1 .. n + m : u[i] = IF i <= n THEN s[i] ELSE t[i - n]
    <2>1. /\ s \o t \in Seq(X) /\ Len(s \o t) = Len(s) + Len(t)
          /\ \A i \in 1 .. Len(s) + Len(t) : (s \o t)[i] = IF i <= Len(s) THEN s[i] ELSE t[i - Len(s)]
      BY ConcatProperties
    <2>. QED
      BY ONLY <2>1, n = Len(s), m = Len(t), u = s \o t
  <1>3. DOMAIN u = 1 .. (n + m)
    BY ONLY <1>2, LenProperties
  <1>4. ASSUME NEW k \in 1 .. n PROVE u[k] = s[k]
    <2>1. k \in 1 .. n + m /\ k <= n
      BY ONLY <1>1
    <2>. QED
      BY ONLY <1>2, <2>1
  <1>5. ASSUME NEW k \in 1 .. m PROVE u[n + k] = t[k]
    <2>1. n + k \in 1 .. n + m /\ ~ (n + k <= n) /\ (n + k) - n = k
      BY ONLY <1>1
    <2>. QED
      BY ONLY <1>2, <2>1
  <1>. QED
    BY ONLY <1>1, <1>2, <1>3, <1>4, <1>5

\* u has the members of s and then those of t.
JoinOf(X, s, t, u) ==
  /\ s \in Seq(X) /\ t \in Seq(X) /\ u = [k \in 1 .. (Len(s) + Len(t)) |-> u[k]]
  /\ \A k \in 1 .. Len(s) : u[k] = s[k]
  /\ \A k \in 1 .. Len(t) : u[Len(s) + k] = t[k]

\* What joins two sequences member by member is their concatenation.
LEMMA ConcatIs ==
  ASSUME NEW X, NEW s, NEW t, NEW u, JoinOf(X, s, t, u)
  PROVE  u = s \o t
  <1> DEFINE n == Len(s)
             m == Len(t)
             b == n + m
  <1>0. /\ s \in Seq(X) /\ t \in Seq(X) /\ n = Len(s) /\ m = Len(t) /\ b = n + m
        /\ u = [k \in 1 .. b |-> u[k]]
        /\ \A k \in 1 .. n : u[k] = s[k]
        /\ \A k \in 1 .. m : u[n + k] = t[k]
    BY DEF JoinOf
  <1> HIDE DEF n, m, b
  <1> DEFINE c == s \o t
  <1>1. /\ n \in Nat /\ m \in Nat /\ c \in Seq(X) /\ Len(c) = n + m
        /\ \A k \in 1 .. n : c[k] = s[k]
        /\ \A k \in 1 .. m : c[n + k] = t[k]
    BY <1>0, ConcatAt
  <1> HIDE DEF c
  <1>2. c = [k \in 1 .. b |-> c[k]]
    <2>1. c \in [1 .. Len(c) -> X]
      BY ONLY <1>1, LenProperties
    <2>. QED
      BY ONLY <1>0, <1>1, <2>1
  <1>3. ASSUME NEW k \in 1 .. b PROVE c[k] = u[k]
    <2>1. CASE k \in 1 .. n
      BY ONLY <1>1, <2>1, <1>0
    <2>2. ASSUME NEW j \in 1 .. m, k = n + j PROVE c[k] = u[k]
      BY ONLY <1>1, <2>2, <1>0
    <2>3. CASE k \notin 1 .. n
      <3>1. k \in 1 .. (n + m) /\ n \in Nat /\ m \in Nat
        BY ONLY <1>0, <1>1
      <3>2. \E j \in 1 .. m : k = n + j
        BY ONLY <2>3, <3>1, InPart
      <3>. QED
        BY ONLY <2>2, <3>2
    <2>. QED
      BY ONLY <2>1, <2>3
  <1>4. c = u
    BY ONLY <1>0, <1>2, <1>3
  <1>. QED
    BY ONLY <1>4 DEF c

\* The first members of a sequence.
Upto(s, n) == [i \in 1 .. n |-> s[i]]

\* The first n members of a sequence.
LEMMA UptoIs ==
  ASSUME NEW X, NEW s \in Seq(X), NEW n \in Nat, n <= Len(s)
  PROVE  /\ Upto(s, n) \in Seq(X) /\ Len(Upto(s, n)) = n /\ DOMAIN Upto(s, n) = 1 .. n
         /\ \A i \in 1 .. n : Upto(s, n)[i] = s[i] /\ s[i] \in X
  <1> DEFINE u == Upto(s, n)
  <1>1. \A i \in 1 .. n : s[i] \in X
    <2>1. Len(s) \in Nat
      BY LenProperties
    <2>2. \A i \in 1 .. n : i \in 1 .. Len(s)
      BY <2>1
    <2>. QED
      BY <2>2, ElementOfSeq
  <1>2. u = [i \in 1 .. n |-> u[i]] /\ \A i \in 1 .. n : u[i] = s[i]
    BY DEF Upto
  <1> HIDE DEF u
  <1>3. \A i \in 1 .. n : u[i] \in X
    BY ONLY <1>1, <1>2
  <1>4. u \in Seq(X) /\ Len(u) = n /\ DOMAIN u = 1 .. n
    BY ONLY n \in Nat, <1>2, <1>3, SeqIs
  <1>. QED
    BY ONLY <1>1, <1>2, <1>4 DEF u

\* All members are the sequence.
LEMMA UptoAll ==
  ASSUME NEW X, NEW s \in Seq(X), NEW n, n = Len(s)
  PROVE  Upto(s, n) = s
  <1>1. s \in [1 .. n -> X]
    BY LenProperties
  <1>. QED
    BY ONLY <1>1 DEF Upto

\* None are nothing.
LEMMA UptoZero ==
  ASSUME NEW s
  PROVE  Upto(s, 0) = <<>>
  <1> DEFINE u == Upto(s, 0)
  <1>1. u = [i \in 1 .. 0 |-> u[i]] /\ \A i \in 1 .. 0 : u[i] \in Nat
    BY DEF Upto
  <1> HIDE DEF u
  <1>2. 0 \in Nat
    OBVIOUS
  <1>3. u \in Seq(Nat) /\ Len(u) = 0
    BY ONLY <1>1, <1>2, SeqIs
  <1>4. u = <<>>
    BY ONLY <1>3, EmptySeq
  <1>. QED
    BY <1>4 DEF u

\* One member more is appended.
LEMMA UptoNext ==
  ASSUME NEW X, NEW s \in Seq(X), NEW n \in Nat, n < Len(s)
  PROVE  /\ Upto(s, n + 1) = Append(Upto(s, n), s[n + 1])
         /\ n + 1 \in 1 .. Len(s) /\ s[n + 1] \in X
  <1> DEFINE u == Upto(s, n)
             v == Upto(s, n + 1)
             a == Append(u, s[n + 1])
  <1>1. Len(s) \in Nat
    BY LenProperties
  <1>2. n <= Len(s) /\ n + 1 <= Len(s) /\ n + 1 \in Nat /\ n + 1 \in 1 .. Len(s)
    BY ONLY <1>1, n \in Nat, n < Len(s)
  <1>3. s[n + 1] \in X
    BY <1>2, ElementOfSeq
  <1>4. u \in Seq(X) /\ Len(u) = n /\ \A i \in 1 .. n : u[i] = s[i]
    BY <1>2, UptoIs
  <1>5. v \in Seq(X) /\ Len(v) = n + 1 /\ \A i \in 1 .. (n + 1) : v[i] = s[i]
    BY <1>2, UptoIs
  <1> HIDE DEF u, v
  <1>6. /\ a \in Seq(X) /\ Len(a) = n + 1 /\ a[n + 1] = s[n + 1]
        /\ \A i \in 1 .. n : a[i] = u[i]
    BY ONLY <1>3, <1>4, ConcatAtEnd
  <1> HIDE DEF a
  <1>7. a = [i \in 1 .. (n + 1) |-> a[i]] /\ v = [i \in 1 .. (n + 1) |-> v[i]]
    <2>1. a \in [1 .. Len(a) -> X] /\ v \in [1 .. Len(v) -> X]
      BY ONLY <1>5, <1>6, LenProperties
    <2>. QED
      BY ONLY <1>5, <1>6, <2>1
  <1>8. ASSUME NEW i \in 1 .. (n + 1) PROVE a[i] = v[i]
    <2>1. i \in 1 .. n \/ i = n + 1
      BY ONLY n \in Nat
    <2>. QED
      BY ONLY <1>4, <1>5, <1>6, <2>1
  <1>9. a = v
    BY ONLY <1>7, <1>8
  <1>. QED
    BY ONLY <1>2, <1>3, <1>9 DEF a, u, v

\* V holds S and, n behind, U.
Behind(n, S, U, V) ==
  /\ n \in Nat /\ S \in SUBSET (1 .. n) /\ IsFiniteSet(S)
  /\ U \in SUBSET (Nat \ {0}) /\ IsFiniteSet(U) /\ V = S \cup {n + i : i \in U}

\* In ascending order, V gives S and then U.
InTurn(n, S, U, V) ==
  /\ Cardinality(S) \in Nat /\ Cardinality(U) \in Nat
  /\ Cardinality(V) = Cardinality(S) + Cardinality(U)
  /\ \A k \in 1 .. Cardinality(S) : Ascending(V)[k] = Ascending(S)[k] /\ Ascending(S)[k] \in S
  /\ \A k \in 1 .. Cardinality(U) :
       Ascending(V)[Cardinality(S) + k] = n + Ascending(U)[k] /\ Ascending(U)[k] \in U

\* Numbers that all lie behind n follow, in ascending order, those up to n.
LEMMA AscendingConcat ==
  ASSUME NEW n, NEW S, NEW U, NEW V, Behind(n, S, U, V)
  PROVE  InTurn(n, S, U, V)
  <1> DEFINE z == Ascending(V)
             a == Ascending(S)
             c == Cardinality(S)
             d == Ascending(U)
             e == Cardinality(U)
  <1>a. /\ n \in Nat /\ S \in SUBSET (1 .. n) /\ IsFiniteSet(S)
        /\ U \in SUBSET (Nat \ {0}) /\ IsFiniteSet(U)
    BY DEF Behind
  <1>b. V = S \cup {n + i : i \in U}
    BY DEF Behind
  <1>c. a = Ascending(S) /\ c = Cardinality(S) /\ d = Ascending(U) /\ e = Cardinality(U) /\ z = Ascending(V)
    OBVIOUS
  <1> HIDE DEF z, a, c, d, e
  <1> DEFINE v == [k \in 1 .. (c + e) |-> IF k <= c THEN a[k] ELSE n + d[k - c]]
  <1>0. c \in Nat /\ e \in Nat
    BY ONLY <1>a, <1>c, FS_CardinalityType
  <1>1. a \in Seq(S) /\ Len(a) = c /\ Increasing(a) /\ S = {a[i] : i \in 1 .. c}
    <2>1. S \in SUBSET Int /\ IsFiniteSet(S)
      BY ONLY <1>a
    <2>2. /\ Ascending(S) \in Seq(S) /\ Len(Ascending(S)) = Cardinality(S)
          /\ Increasing(Ascending(S)) /\ S = {Ascending(S)[i] : i \in 1 .. Cardinality(S)}
      BY ONLY <2>1, AscendingIs
    <2>. QED
      BY ONLY <2>2, <1>c
  <1>2. d \in Seq(U) /\ Len(d) = e /\ Increasing(d) /\ U = {d[i] : i \in 1 .. e}
    <2>1. U \in SUBSET Int /\ IsFiniteSet(U)
      BY ONLY <1>a
    <2>2. /\ Ascending(U) \in Seq(U) /\ Len(Ascending(U)) = Cardinality(U)
          /\ Increasing(Ascending(U)) /\ U = {Ascending(U)[i] : i \in 1 .. Cardinality(U)}
      BY ONLY <2>1, AscendingIs
    <2>. QED
      BY ONLY <2>2, <1>c
  <1>3. /\ \A k \in 1 .. c : v[k] = a[k]
        /\ \A k \in 1 .. e : v[c + k] = n + d[k]
        /\ v = [k \in 1 .. (c + e) |-> v[k]]
    <2>1. \A k \in 1 .. c : k \in 1 .. (c + e) /\ k <= c
      BY ONLY <1>0
    <2>2. \A k \in 1 .. e : c + k \in 1 .. (c + e) /\ ~ (c + k <= c) /\ (c + k) - c = k
      BY ONLY <1>0
    <2>3. \A k \in 1 .. c : v[k] = a[k]
      BY ONLY <2>1
    <2>4. \A k \in 1 .. e : v[c + k] = n + d[k]
      BY ONLY <2>2
    <2>. QED
      BY ONLY <2>3, <2>4
  <1> HIDE DEF v
  <1>4. DOMAIN a = 1 .. c /\ DOMAIN d = 1 .. e
    BY ONLY <1>1, <1>2, LenProperties
  <1>5. \A k \in 1 .. c : a[k] \in S /\ a[k] \in Nat /\ a[k] <= n
    <2>1. \A k \in 1 .. c : a[k] \in S
      BY ONLY <1>1
    <2>2. \A x \in S : x \in Nat /\ x <= n
      BY ONLY <1>a
    <2>. QED
      BY ONLY <2>1, <2>2
  <1>6. \A k \in 1 .. e : d[k] \in U /\ d[k] \in Nat /\ d[k] > 0
    <2>1. \A k \in 1 .. e : d[k] \in U
      BY ONLY <1>2
    <2>2. \A x \in U : x \in Nat /\ x > 0
      BY ONLY <1>a
    <2>. QED
      BY ONLY <2>1, <2>2
  <1>7. \A k \in 1 .. (c + e) : k \in 1 .. c \/ \E j \in 1 .. e : k = c + j
    <2> SUFFICES ASSUME NEW k \in 1 .. (c + e), k \notin 1 .. c PROVE \E j \in 1 .. e : k = c + j
      OBVIOUS
    <2>1. k - c \in 1 .. e /\ k = c + (k - c)
      BY <1>0
    <2>. QED
      BY ONLY <2>1
  <1>8. \A k \in 1 .. (c + e) : v[k] \in V /\ v[k] \in Nat
    <2> TAKE k \in 1 .. (c + e)
    <2>1. CASE k \in 1 .. c
      BY ONLY <1>3, <1>5, <2>1, <1>b
    <2>2. ASSUME NEW j \in 1 .. e, k = c + j PROVE v[k] \in V /\ v[k] \in Nat
      <3>1. v[k] = n + d[j]
        BY ONLY <1>3, <2>2
      <3>2. d[j] \in U /\ n + d[j] \in Nat
        BY ONLY <1>6, <1>a
      <3>. QED
        BY ONLY <3>1, <3>2, <1>b
    <2>. QED
      BY ONLY <1>7, <2>1, <2>2
  <1>9. v \in Seq(V) /\ Len(v) = c + e /\ DOMAIN v = 1 .. (c + e)
    <2>1. c + e \in Nat
      BY ONLY <1>0
    <2>2. \A k \in 1 .. (c + e) : v[k] \in V
      BY ONLY <1>8
    <2>. QED
      BY ONLY <1>3, <2>1, <2>2, SeqIs
  <1>10. Increasing(v)
    <2> SUFFICES ASSUME NEW i \in 1 .. (c + e), NEW j \in 1 .. (c + e), i < j PROVE v[i] < v[j]
      BY <1>9 DEF Increasing
    <2>1. CASE i \in 1 .. c /\ j \in 1 .. c
      BY <1>1, <1>3, <1>4, <2>1 DEF Increasing
    <2>2. CASE i \in 1 .. c /\ j \notin 1 .. c
      <3>1. PICK g \in 1 .. e : j = c + g
        BY ONLY <1>7, <2>2
      <3>2. v[i] = a[i] /\ v[j] = n + d[g]
        BY ONLY <1>3, <2>2, <3>1
      <3>3. a[i] \in Nat /\ a[i] <= n /\ d[g] \in Nat /\ d[g] > 0
        BY ONLY <1>5, <1>6, <2>2
      <3>. QED
        BY ONLY <3>2, <3>3, <1>a
    <2>3. CASE i \notin 1 .. c
      <3>1. PICK h \in 1 .. e : i = c + h
        BY ONLY <1>7, <2>3
      <3>2. j \notin 1 .. c
        BY <1>0, <2>3
      <3>3. PICK g \in 1 .. e : j = c + g
        BY ONLY <1>7, <3>2
      <3>4. h < g
        BY <1>0, <3>1, <3>3
      <3>5. d[h] < d[g]
        BY ONLY <1>2, <1>4, <3>4 DEF Increasing
      <3>6. v[i] = n + d[h] /\ v[j] = n + d[g] /\ d[h] \in Nat /\ d[g] \in Nat
        BY ONLY <1>3, <1>6, <3>1, <3>3
      <3>. QED
        BY ONLY <3>5, <3>6, <1>a
    <2>. QED
      BY ONLY <2>1, <2>2, <2>3
  <1>11. V = {v[i] : i \in 1 .. Len(v)}
    <2>1. \A i \in 1 .. Len(v) : v[i] \in V
      BY ONLY <1>8, <1>9
    <2>2. ASSUME NEW x \in V PROVE \E i \in 1 .. Len(v) : v[i] = x
      <3>1. CASE x \in S
        <4>1. PICK i \in 1 .. c : a[i] = x
          BY ONLY <1>1, <3>1
        <4>2. i \in 1 .. Len(v) /\ v[i] = x
          <5>1. i \in 1 .. (c + e)
            BY ONLY <1>0
          <5>. QED
            BY ONLY <1>3, <1>9, <4>1, <5>1
        <4>. QED
          BY ONLY <4>2
      <3>2. ASSUME NEW u \in U, x = n + u PROVE \E i \in 1 .. Len(v) : v[i] = x
        <4>1. PICK i \in 1 .. e : d[i] = u
          BY ONLY <1>2
        <4>2. c + i \in 1 .. Len(v) /\ v[c + i] = x
          <5>1. c + i \in 1 .. (c + e)
            BY ONLY <1>0
          <5>. QED
            BY ONLY <1>3, <1>9, <3>2, <4>1, <5>1
        <4>. QED
          BY ONLY <4>2
      <3>3. x \in S \/ \E u \in U : x = n + u
        BY ONLY <1>b, x \in V
      <3>. QED
        BY ONLY <3>1, <3>2, <3>3
    <2>. QED
      BY ONLY <2>1, <2>2
  <1>12. V \in SUBSET Int
    <2>1. S \in SUBSET Int /\ \A u \in U : n + u \in Int
      BY ONLY <1>a
    <2>. QED
      BY ONLY <2>1, <1>b
  <1>13. Ascending(V) = v /\ Cardinality(V) = c + e
    BY ONLY <1>9, <1>10, <1>11, <1>12, AscendingUnique
  <1>. QED
    <2>1. /\ Cardinality(V) = c + e
          /\ \A k \in 1 .. c : z[k] = a[k] /\ a[k] \in S
          /\ \A k \in 1 .. e : z[c + k] = n + d[k] /\ d[k] \in U
      BY ONLY <1>3, <1>5, <1>6, <1>13, <1>c
    <2>. QED
      BY ONLY <1>0, <2>1, <1>c DEF InTurn

\* The postings of a list, with the identifiers they have n documents later.
Moved(L, n) == [k \in DOMAIN L |-> [doc |-> n + L[k].doc, freq |-> L[k].freq, positions |-> L[k].positions]]

\* A posting list whose documents are renumbered (merge_sources_bounded adds
\* the base of the source).
LEMMA MovedIs ==
  ASSUME NEW L \in Seq(Posting), NEW n \in Nat
  PROVE  /\ Moved(L, n) \in Seq(Posting) /\ Len(Moved(L, n)) = Len(L) /\ DOMAIN Moved(L, n) = 1 .. Len(L)
         /\ Len(L) \in Nat
         /\ \A k \in 1 .. Len(L) : Moved(L, n)[k] = [doc |-> n + L[k].doc, freq |-> L[k].freq, positions |-> L[k].positions]
  <1> DEFINE M == Moved(L, n)
             c == Len(L)
  <1>1. c \in Nat /\ DOMAIN L = 1 .. c
    BY LenProperties
  <1>2. \A k \in 1 .. c : L[k] \in Posting
    BY ElementOfSeq
  <1>3. /\ M = [k \in 1 .. c |-> M[k]]
        /\ \A k \in 1 .. c : M[k] = [doc |-> n + L[k].doc, freq |-> L[k].freq, positions |-> L[k].positions]
    BY <1>1 DEF Moved
  <1> HIDE DEF M, c
  <1>4. \A k \in 1 .. c : M[k] \in Posting
    <2> TAKE k \in 1 .. c
    <2>1. L[k].doc \in Nat /\ L[k].freq \in Nat /\ L[k].positions \in Seq(Nat)
      BY ONLY <1>2, k \in 1 .. c DEF Posting
    <2>2. n + L[k].doc \in Nat
      BY ONLY <2>1, n \in Nat
    <2>3. M[k] = [doc |-> n + L[k].doc, freq |-> L[k].freq, positions |-> L[k].positions]
      BY ONLY <1>3
    <2>. QED
      BY ONLY <2>1, <2>2, <2>3 DEF Posting
  <1>5. M \in Seq(Posting) /\ Len(M) = c /\ DOMAIN M = 1 .. c
    BY ONLY <1>1, <1>3, <1>4, SeqIs
  <1>. QED
    BY ONLY <1>1, <1>3, <1>5 DEF M, c

\* Flattening the first n + 1 of several sequences.
LEMMA FlattenNext ==
  ASSUME NEW X, NEW ss \in Seq(Seq(X))
  PROVE  /\ Len(ss) \in Nat /\ FlattenSeq(Upto(ss, 0)) = <<>>
         /\ \A n \in 0 .. Len(ss) : /\ Upto(ss, n) \in Seq(Seq(X)) /\ FlattenSeq(Upto(ss, n)) \in Seq(X)
                                    /\ Len(FlattenSeq(Upto(ss, n))) = SumTo(Lens(ss), n)
                                    /\ SumTo(Lens(ss), n) \in Nat
         /\ \A n \in 0 .. Len(ss) : n < Len(ss) =>
              /\ n + 1 \in 1 .. Len(ss) /\ ss[n + 1] \in Seq(X)
              /\ FlattenSeq(Upto(ss, n + 1)) = FlattenSeq(Upto(ss, n)) \o ss[n + 1]
  <1> DEFINE Y == Seq(X)
             m == Len(ss)
  <1>1. m \in Nat
    BY LenProperties
  <1>2. FlattenSeq(Upto(ss, 0)) = <<>>
    BY UptoZero, FlattenRec
  <1>3. ASSUME NEW n \in 0 .. m
        PROVE  /\ Upto(ss, n) \in Seq(Y) /\ FlattenSeq(Upto(ss, n)) \in Seq(X)
               /\ Len(FlattenSeq(Upto(ss, n))) = SumTo(Lens(ss), n)
               /\ SumTo(Lens(ss), n) \in Nat
    <2> DEFINE u == Upto(ss, n)
    <2>1. n \in Nat /\ n <= Len(ss)
      BY <1>1
    <2>2. u \in Seq(Y) /\ Len(u) = n /\ DOMAIN u = 1 .. n /\ \A i \in 1 .. n : u[i] = ss[i]
      BY <2>1, UptoIs
    <2> HIDE DEF u
    <2>3. FlattenSeq(u) \in Seq(X) /\ Len(FlattenSeq(u)) = SumTo(Lens(u), Len(u))
      BY <2>2, FlattenAt
    <2>4. \A i \in 1 .. n : Lens(u)[i] = Lens(ss)[i] /\ Lens(ss)[i] \in Nat
      <3>1. \A i \in 1 .. n : i \in 1 .. Len(ss)
        BY ONLY <1>1, <2>1
      <3>2. \A i \in 1 .. Len(ss) : Lens(ss)[i] = Len(ss[i]) /\ Len(ss[i]) \in Nat
        BY LensNat
      <3>3. \A i \in 1 .. n : Lens(u)[i] = Len(u[i])
        BY ONLY <2>2 DEF Lens
      <3>. QED
        BY ONLY <2>2, <3>1, <3>2, <3>3
    <2>5. SumTo(Lens(u), n) = SumTo(Lens(ss), n) /\ SumTo(Lens(ss), n) \in Nat
      <3>1. \A i \in 1 .. n : Lens(u)[i] = Lens(ss)[i]
        BY ONLY <2>4
      <3>2. \A i \in 1 .. n : Lens(ss)[i] \in Nat
        BY ONLY <2>4
      <3>3. n \in Nat
        BY ONLY <2>1
      <3>4. SumTo(Lens(u), n) = SumTo(Lens(ss), n)
        BY ONLY <3>1, <3>3, SumToSame
      <3>5. SumTo(Lens(ss), n) \in Nat
        BY ONLY <3>2, <3>3, SumToNat
      <3>. QED
        BY ONLY <3>4, <3>5
    <2>. QED
      BY <2>2, <2>3, <2>5 DEF u
  <1>4. ASSUME NEW n \in 0 .. m, n < m
        PROVE  /\ n + 1 \in 1 .. m /\ ss[n + 1] \in Y
               /\ FlattenSeq(Upto(ss, n + 1)) = FlattenSeq(Upto(ss, n)) \o ss[n + 1]
    <2>1. n \in Nat
      BY <1>1
    <2>2. /\ Upto(ss, n + 1) = Append(Upto(ss, n), ss[n + 1])
          /\ n + 1 \in 1 .. m /\ ss[n + 1] \in Y
      BY <1>4, <2>1, UptoNext
    <2>3. FlattenSeq(Append(Upto(ss, n), ss[n + 1])) = FlattenSeq(Upto(ss, n)) \o ss[n + 1]
      <3>1. Upto(ss, n) \in Seq(Seq(X)) /\ ss[n + 1] \in Seq(X)
        BY <1>3, <2>2
      <3>. QED
        BY ONLY <3>1, FlattenRec
    <2>. QED
      BY ONLY <2>2, <2>3
  <1>. QED
    BY ONLY <1>1, <1>2, <1>3, <1>4 DEF m, Y

\* One batch and then another.
TwoBatches(A, B, C) == A \in Seq(Documents) /\ B \in Seq(Documents) /\ C = A \o B

\* The documents of both that hold a term are those of each.
HoldTogether(A, B, C, t) ==
  /\ Behind(Len(A), Holders(A, t), Holders(B, t), Holders(C, t))
  /\ C \in Seq(Documents)
  /\ \A i \in Holders(A, t) : C[i] = A[i]
  /\ \A i \in Holders(B, t) : C[Len(A) + i] = B[i]

\* The documents that hold a term in two batches, one after the other.
LEMMA HoldersConcat ==
  ASSUME NEW A, NEW B, NEW C, TwoBatches(A, B, C), NEW t
  PROVE  HoldTogether(A, B, C, t)
  <1> DEFINE n == Len(A)
             m == Len(B)
  <1>0. A \in Seq(Documents) /\ B \in Seq(Documents) /\ n = Len(A) /\ m = Len(B) /\ C = A \o B
    BY DEF TwoBatches
  <1> HIDE DEF n, m
  <1>1. /\ n \in Nat /\ m \in Nat /\ DOMAIN A = 1 .. n /\ DOMAIN B = 1 .. m
        /\ C \in Seq(Documents) /\ DOMAIN C = 1 .. (n + m)
        /\ \A k \in 1 .. n : C[k] = A[k]
        /\ \A k \in 1 .. m : C[n + k] = B[k]
    BY ONLY <1>0, ConcatAt
  <1> DEFINE Q(doc) == \E k \in 1 .. Len(doc.text) : doc.text[k] = t
  <1>2. /\ Holders(A, t) = {i \in 1 .. n : Q(A[i])}
        /\ Holders(B, t) = {i \in 1 .. m : Q(B[i])}
        /\ Holders(C, t) = {i \in 1 .. (n + m) : Q(C[i])}
    BY ONLY <1>1 DEF Holders
  <1> HIDE DEF Q
  <1>3. ASSUME NEW i \in Holders(C, t) PROVE i \in Holders(A, t) \cup {n + j : j \in Holders(B, t)}
    <2>1. i \in 1 .. (n + m) /\ Q(C[i])
      BY ONLY <1>2
    <2>2. CASE i \in 1 .. n
      BY ONLY <1>1, <1>2, <2>1, <2>2
    <2>3. ASSUME NEW j \in 1 .. m, i = n + j PROVE i \in {n + h : h \in Holders(B, t)}
      <3>1. Q(B[j])
        BY ONLY <1>1, <2>1, <2>3
      <3>. QED
        BY ONLY <1>2, <2>3, <3>1
    <2>4. CASE i \notin 1 .. n
      <3>1. \E j \in 1 .. m : i = n + j
        BY ONLY <1>1, <2>1, <2>4, InPart
      <3>. QED
        BY ONLY <2>3, <3>1
    <2>. QED
      BY ONLY <2>2, <2>4
  <1>4. \A i \in Holders(A, t) : i \in Holders(C, t) /\ C[i] = A[i]
    <2> TAKE i \in Holders(A, t)
    <2>1. i \in 1 .. n /\ Q(A[i])
      BY ONLY <1>2
    <2>2. i \in 1 .. (n + m)
      BY ONLY <1>1, <2>1
    <2>. QED
      BY ONLY <1>1, <1>2, <2>1, <2>2
  <1>5. \A i \in Holders(B, t) : n + i \in Holders(C, t) /\ C[n + i] = B[i]
    <2> TAKE i \in Holders(B, t)
    <2>1. i \in 1 .. m /\ Q(B[i])
      BY ONLY <1>2
    <2>2. n + i \in 1 .. (n + m)
      BY ONLY <1>1, <2>1
    <2>. QED
      BY ONLY <1>1, <1>2, <2>1, <2>2
  <1>6. Holders(C, t) = Holders(A, t) \cup {n + i : i \in Holders(B, t)}
    BY ONLY <1>3, <1>4, <1>5
  <1>7. /\ Holders(A, t) \in SUBSET (1 .. n) /\ IsFiniteSet(Holders(A, t))
        /\ Holders(B, t) \in SUBSET (Nat \ {0}) /\ IsFiniteSet(Holders(B, t))
    <2>1. Holders(A, t) \in SUBSET (1 .. n) /\ IsFiniteSet(Holders(A, t))
      BY ONLY <1>0, HoldersAre
    <2>2. Holders(B, t) \in SUBSET (1 .. m) /\ IsFiniteSet(Holders(B, t))
      BY ONLY <1>0, HoldersAre
    <2>. QED
      BY ONLY <2>1, <2>2
  <1>8. Behind(n, Holders(A, t), Holders(B, t), Holders(C, t))
    BY ONLY <1>1, <1>6, <1>7 DEF Behind
  <1>. QED
    BY ONLY <1>0, <1>1, <1>4, <1>5, <1>8 DEF HoldTogether

\* The posting list of two batches is that of the first, and that of the second
\* with later identifiers.
LEMMA PostingListConcat ==
  ASSUME NEW A, NEW B, NEW C, TwoBatches(A, B, C), NEW p \in BOOLEAN, NEW t
  PROVE  PostingList(C, p, t) = PostingList(A, p, t) \o Moved(PostingList(B, p, t), Len(A))
  <1> DEFINE n == Len(A)
             S == Holders(A, t)
             U == Holders(B, t)
             V == Holders(C, t)
             a == Ascending(S)
             d == Ascending(U)
             v == Ascending(V)
             c == Cardinality(S)
             e == Cardinality(U)
             x == Cardinality(V)
             K == PostingList(C, p, t)
             L == PostingList(A, p, t)
             M == PostingList(B, p, t)
             R == Moved(M, n)
  <1>0. A \in Seq(Documents) /\ B \in Seq(Documents)
    BY DEF TwoBatches
  <1>1. /\ Behind(n, S, U, V) /\ C \in Seq(Documents)
        /\ \A i \in S : C[i] = A[i]
        /\ \A i \in U : C[n + i] = B[i]
    <2>1. HoldTogether(A, B, C, t)
      BY ONLY TwoBatches(A, B, C), HoldersConcat
    <2>. QED
      BY ONLY <2>1 DEF HoldTogether
  <1>2. n \in Nat /\ \A i \in U : i \in Nat
    <2>1. n \in Nat /\ U \in SUBSET (Nat \ {0})
      BY ONLY <1>1 DEF Behind
    <2>. QED
      BY ONLY <2>1
  <1>4. L \in Seq(Posting) /\ Len(L) = c /\ \A k \in 1 .. c : L[k] = PostingOf(A, p, t, a[k])
    BY ONLY <1>0, p \in BOOLEAN, PostingListIs
  <1>5. M \in Seq(Posting) /\ Len(M) = e /\ \A k \in 1 .. e : M[k] = PostingOf(B, p, t, d[k])
    BY ONLY <1>0, p \in BOOLEAN, PostingListIs
  <1>6. /\ K = [k \in 1 .. x |-> K[k]]
        /\ \A k \in 1 .. x : K[k] = PostingOf(C, p, t, v[k])
    BY ONLY <1>1, p \in BOOLEAN, PostingListIs
  <1>7. /\ c \in Nat /\ e \in Nat /\ x = c + e
        /\ \A k \in 1 .. c : v[k] = a[k] /\ a[k] \in S
        /\ \A k \in 1 .. e : v[c + k] = n + d[k] /\ d[k] \in U
    <2>1. InTurn(n, S, U, V)
      BY ONLY <1>1, AscendingConcat
    <2>. QED
      BY ONLY <2>1 DEF InTurn
  <1>8. /\ R \in Seq(Posting) /\ Len(R) = e
        /\ \A k \in 1 .. e : R[k] = [doc |-> n + M[k].doc, freq |-> M[k].freq, positions |-> M[k].positions]
    BY ONLY <1>2, <1>5, MovedIs
  <1> HIDE DEF n, S, U, V, K, L, M, R, a, c, d, e, v, x
  <1>9. ASSUME NEW k \in 1 .. c PROVE K[k] = L[k]
    <2>1. k \in 1 .. x /\ v[k] = a[k] /\ C[a[k]] = A[a[k]]
      BY ONLY <1>1, <1>7
    <2>2. K[k] = PostingOf(C, p, t, a[k]) /\ L[k] = PostingOf(A, p, t, a[k])
      BY ONLY <1>4, <1>6, <2>1
    <2>. QED
      BY ONLY <2>1, <2>2 DEF PostingOf
  <1>10. ASSUME NEW k \in 1 .. e PROVE K[c + k] = R[k]
    <2>0. d[k] \in U /\ v[c + k] = n + d[k] /\ c \in Nat /\ e \in Nat /\ x = c + e
      BY ONLY <1>7
    <2>5. d[k] \in Nat
      BY ONLY <1>2, <2>0
    <2>6. c + k \in 1 .. x
      BY ONLY <2>0
    <2>1. c + k \in 1 .. x /\ v[c + k] = n + d[k] /\ C[n + d[k]] = B[d[k]] /\ d[k] \in Nat
      BY ONLY <1>1, <2>0, <2>5, <2>6
    <2>2. K[c + k] = PostingOf(C, p, t, n + d[k]) /\ M[k] = PostingOf(B, p, t, d[k])
      BY ONLY <1>5, <1>6, <2>1
    <2>3. (n + d[k]) - 1 = n + (d[k] - 1)
      BY ONLY <1>2, <2>1
    <2>4. R[k] = [doc |-> n + M[k].doc, freq |-> M[k].freq, positions |-> M[k].positions]
      BY ONLY <1>8
    <2>. QED
      BY ONLY <2>1, <2>2, <2>3, <2>4 DEF PostingOf
  <1>11. JoinOf(Posting, L, R, K)
    BY ONLY <1>4, <1>6, <1>7, <1>8, <1>9, <1>10 DEF JoinOf
  <1>12. K = L \o R
    BY ONLY <1>11, ConcatIs
  <1>. QED
    BY <1>12 DEF K, L, R, M, n

\* Induction up to a bound.
LEMMA BoundInductive ==
  ASSUME NEW m \in Nat, NEW T, 0 \in T, \A n \in 0 .. m : n < m /\ n \in T => n + 1 \in T
  PROVE  m \in T
  <1> DEFINE U == {n \in Nat : n <= m => n \in T}
  <1>1. 0 \in U
    OBVIOUS
  <1>2. ASSUME NEW n \in Nat, n \in U PROVE n + 1 \in U
    <2>1. ASSUME n + 1 <= m PROVE n + 1 \in T
      <3>1. n \in 0 .. m /\ n < m
        BY <2>1
      <3>2. n \in T
        BY <1>2, <3>1
      <3>. QED
        BY ONLY <3>1, <3>2, \A k \in 0 .. m : k < m /\ k \in T => k + 1 \in T
    <2>. QED
      BY <2>1
  <1> HIDE DEF U
  <1>3. Nat \subseteq U
    BY ONLY <1>1, <1>2, NatInductive
  <1>. QED
    BY <1>3 DEF U

\* The postings that the batches of a list have for a term, with the identifiers
\* of one batch.
Shares(b, p, t) == [i \in DOMAIN b |-> Moved(PostingList(b[i], p, t), SumTo(Lens(b), i - 1))]

\* The share of each batch in the posting list of a term.
LEMMA SharesAre ==
  ASSUME NEW b \in Seq(Seq(Documents)), NEW p \in BOOLEAN, NEW t
  PROVE  /\ Shares(b, p, t) \in Seq(Seq(Posting)) /\ Len(Shares(b, p, t)) = Len(b)
         /\ DOMAIN Shares(b, p, t) = 1 .. Len(b)
         /\ \A i \in 1 .. Len(b) : /\ Shares(b, p, t)[i] = Moved(PostingList(b[i], p, t), SumTo(Lens(b), i - 1))
                                   /\ PostingList(b[i], p, t) \in Seq(Posting)
                                   /\ SumTo(Lens(b), i - 1) \in Nat
  <1> DEFINE S == Shares(b, p, t)
             m == Len(b)
  <1>1. m \in Nat /\ DOMAIN b = 1 .. m /\ \A i \in 1 .. m : b[i] \in Seq(Documents) /\ Lens(b)[i] \in Nat
    BY LensNat
  <1>2. \A i \in 1 .. m : PostingList(b[i], p, t) \in Seq(Posting)
    BY ONLY <1>1, p \in BOOLEAN, PostingListIs
  <1>3. \A i \in 1 .. m : SumTo(Lens(b), i - 1) \in Nat
    BY ONLY <1>1, SumToBound
  <1>4. S = [i \in 1 .. m |-> S[i]] /\ \A i \in 1 .. m : S[i] = Moved(PostingList(b[i], p, t), SumTo(Lens(b), i - 1))
    BY <1>1 DEF Shares
  <1> HIDE DEF S, m
  <1>5. \A i \in 1 .. m : S[i] \in Seq(Posting)
    BY ONLY <1>2, <1>3, <1>4, MovedIs
  <1>6. S \in Seq(Seq(Posting)) /\ Len(S) = m /\ DOMAIN S = 1 .. m
    BY ONLY <1>1, <1>4, <1>5, SeqIs, ZenonT(60)
  <1>. QED
    BY ONLY <1>2, <1>3, <1>4, <1>6 DEF S, m

\* The posting list of one batch of them all is their shares, one by one.
LEMMA PostingListFlatten ==
  ASSUME NEW b \in Seq(Seq(Documents)), NEW p \in BOOLEAN, NEW t
  PROVE  PostingList(FlattenSeq(b), p, t) = FlattenSeq(Shares(b, p, t))
  <1> DEFINE m == Len(b)
             S == Shares(b, p, t)
             Part(n) == FlattenSeq(Upto(b, n))
             T == {n \in Nat : PostingList(Part(n), p, t) = FlattenSeq(Upto(S, n))}
  <1>1. S \in Seq(Seq(Posting)) /\ Len(S) = m /\ \A i \in 1 .. m : S[i] = Moved(PostingList(b[i], p, t), SumTo(Lens(b), i - 1))
    BY SharesAre
  <1>2. m \in Nat /\ Part(0) = <<>>
    BY FlattenNext
  <1>3. \A n \in 0 .. m : /\ Part(n) \in Seq(Documents) /\ Len(Part(n)) = SumTo(Lens(b), n)
                          /\ n < m => n + 1 \in 1 .. m /\ b[n + 1] \in Seq(Documents) /\ Part(n + 1) = Part(n) \o b[n + 1]
    BY FlattenNext
  <1>4. FlattenSeq(Upto(S, 0)) = <<>> /\ \A n \in 0 .. m : n < m => FlattenSeq(Upto(S, n + 1)) = FlattenSeq(Upto(S, n)) \o S[n + 1]
    BY ONLY <1>1, FlattenNext
  <1>5. Part(m) = FlattenSeq(b) /\ FlattenSeq(Upto(S, m)) = FlattenSeq(S)
    <2>1. Upto(b, m) = b
      BY UptoAll
    <2>2. Upto(S, m) = S
      BY <1>1, UptoAll
    <2>. QED
      BY <2>1, <2>2
  <1> HIDE DEF m, S, Part
  <1>6. PostingList(<<>>, p, t) = <<>>
    <2>1. <<>> \in Seq(Documents)
      OBVIOUS
    <2>2. Holders(<<>>, t) = {}
      BY DEF Holders
    <2> DEFINE e == <<>>
    <2> HIDE DEF e
    <2>3. e \in Seq(Documents)
      BY <2>1 DEF e
    <2>4. /\ PostingList(e, p, t) \in Seq(Posting)
          /\ Len(PostingList(e, p, t)) = Cardinality(Holders(e, t))
      BY ONLY <2>3, p \in BOOLEAN, PostingListIs
    <2>5. Len(PostingList(e, p, t)) = 0
      BY <2>2, <2>4, FS_EmptySet DEF e
    <2>6. PostingList(e, p, t) = <<>>
      BY ONLY <2>4, <2>5, EmptySeq
    <2>. QED
      BY <2>6 DEF e
  <1>7. 0 \in T
    BY <1>2, <1>4, <1>6
  <1>8. ASSUME NEW n \in 0 .. m, n < m, n \in T PROVE n + 1 \in T
    <2>1. TwoBatches(Part(n), b[n + 1], Part(n + 1))
      BY ONLY <1>3, n \in 0 .. m, n < m DEF TwoBatches
    <2>2. PostingList(Part(n + 1), p, t) = PostingList(Part(n), p, t) \o Moved(PostingList(b[n + 1], p, t), Len(Part(n)))
      BY ONLY <2>1, p \in BOOLEAN, PostingListConcat
    <2>3. Len(Part(n)) = SumTo(Lens(b), n) /\ (n + 1) - 1 = n /\ n + 1 \in 1 .. m /\ n + 1 \in Nat
      BY <1>2, <1>3, <1>8
    <2>4. S[n + 1] = Moved(PostingList(b[n + 1], p, t), SumTo(Lens(b), n))
      BY ONLY <1>1, <2>3
    <2>5. FlattenSeq(Upto(S, n + 1)) = FlattenSeq(Upto(S, n)) \o S[n + 1]
      BY ONLY <1>4, n \in 0 .. m, n < m
    <2>6. PostingList(Part(n), p, t) = FlattenSeq(Upto(S, n))
      BY <1>8
    <2>7. PostingList(Part(n + 1), p, t) = FlattenSeq(Upto(S, n + 1))
      BY ONLY <2>2, <2>3, <2>4, <2>5, <2>6
    <2>. QED
      BY <2>3, <2>7
  <1> HIDE DEF T
  <1>9. m \in T
    BY ONLY <1>2, <1>7, <1>8, BoundInductive
  <1>. QED
    BY <1>5, <1>9 DEF T, S

\* t is s from its member n + 1 on.
Continues(s, t, n, m) ==
  /\ n \in Nat /\ m \in Nat
  /\ \A k \in 1 .. (n + m) : s[k] \in Nat
  /\ \A k \in 1 .. m : t[k] = s[n + k]

\* A total over a first part and a rest.
LEMMA SumContinues ==
  ASSUME NEW s, NEW t, NEW n, NEW m, Continues(s, t, n, m)
  PROVE  SumTo(s, n + m) = SumTo(s, n) + SumTo(t, m)
  <1>1. /\ n \in Nat /\ m \in Nat
        /\ \A k \in 1 .. (n + m) : s[k] \in Nat
        /\ \A k \in 1 .. m : t[k] = s[n + k]
    BY DEF Continues
  <1>. QED
    BY ONLY <1>1, SumToAfter

\* The positions of postings, posting by posting and one behind the other.
PositionsOf(L) == [k \in DOMAIN L |-> L[k].positions]
PlacesIn(L) == FlattenSeq(PositionsOf(L))

\* The records of postings, n positions after the first.
Row(x, p, n) == [doc |-> x.doc, freq |-> x.freq, offset |-> IF p THEN PositionSize * n ELSE 0]
Rows(L, p, n) == [k \in DOMAIN L |-> Row(L[k], p, n + SumTo(Lens(PositionsOf(L)), k - 1))]

\* The positions of a posting list, in a row.
LEMMA PlacesAre ==
  ASSUME NEW L \in Seq(Posting)
  PROVE  /\ Len(L) \in Nat /\ DOMAIN L = 1 .. Len(L) /\ \A k \in 1 .. Len(L) : L[k] \in Posting
         /\ PositionsOf(L) \in Seq(Seq(Nat)) /\ Len(PositionsOf(L)) = Len(L)
         /\ \A k \in 1 .. Len(L) : /\ PositionsOf(L)[k] = L[k].positions
                                   /\ Lens(PositionsOf(L))[k] = Len(L[k].positions)
                                   /\ Len(L[k].positions) \in Nat
         /\ PlacesIn(L) \in Seq(Nat) /\ Len(PlacesIn(L)) = SumTo(Lens(PositionsOf(L)), Len(L))
         /\ Len(PlacesIn(L)) \in Nat
  <1> DEFINE c == Len(L)
             q == PositionsOf(L)
  <1>1. c \in Nat /\ DOMAIN L = 1 .. c
    BY LenProperties
  <1>2. \A k \in 1 .. c : L[k] \in Posting
    BY ElementOfSeq
  <1>3. \A k \in 1 .. c : L[k].positions \in Seq(Nat)
    BY ONLY <1>2 DEF Posting
  <1>4. q = [k \in 1 .. c |-> q[k]] /\ \A k \in 1 .. c : q[k] = L[k].positions
    BY <1>1 DEF PositionsOf
  <1> HIDE DEF q, c
  <1>5. q \in Seq(Seq(Nat)) /\ Len(q) = c
    BY ONLY <1>1, <1>3, <1>4, SeqIs
  <1>6. \A k \in 1 .. c : Lens(q)[k] = Len(q[k]) /\ Len(q[k]) \in Nat
    BY ONLY <1>5, LensNat
  <1>7. FlattenSeq(q) \in Seq(Nat) /\ Len(FlattenSeq(q)) = SumTo(Lens(q), Len(q))
    BY ONLY <1>5, FlattenAt
  <1>8. Len(FlattenSeq(q)) \in Nat
    BY ONLY <1>7, LenProperties
  <1>. QED
    BY <1>1, <1>2, <1>4, <1>5, <1>6, <1>7, <1>8 DEF q, c, PlacesIn

\* The posting records of a list whose positions begin at n.
LEMMA RowsAre ==
  ASSUME NEW L \in Seq(Posting), NEW p \in BOOLEAN, NEW n \in Nat
  PROVE  /\ Rows(L, p, n) \in Seq(PostingRow) /\ Len(Rows(L, p, n)) = Len(L)
         /\ Rows(L, p, n) = [k \in 1 .. Len(L) |-> Rows(L, p, n)[k]]
         /\ \A k \in 1 .. Len(L) : Rows(L, p, n)[k] = Row(L[k], p, n + SumTo(Lens(PositionsOf(L)), k - 1))
  <1> DEFINE c == Len(L)
             e == Lens(PositionsOf(L))
             R == Rows(L, p, n)
  <1>1. c \in Nat /\ DOMAIN L = 1 .. c /\ \A k \in 1 .. c : L[k] \in Posting /\ e[k] \in Nat
    BY PlacesAre
  <1>2. \A k \in 1 .. c : n + SumTo(e, k - 1) \in Nat
    <2>1. \A k \in 1 .. c : SumTo(e, k - 1) \in Nat
      BY ONLY <1>1, SumToBound
    <2>. QED
      BY ONLY <2>1, n \in Nat
  <1>3. R = [k \in 1 .. c |-> R[k]] /\ \A k \in 1 .. c : R[k] = Row(L[k], p, n + SumTo(e, k - 1))
    BY <1>1 DEF Rows
  <1> HIDE DEF c, e, R
  <1>4. ASSUME NEW x \in Posting, NEW h \in Nat PROVE Row(x, p, h) \in PostingRow
    <2>1. x.doc \in Nat /\ x.freq \in Nat
      BY DEF Posting
    <2>2. (IF p THEN PositionSize * h ELSE 0) \in Nat
      BY DEF PositionSize
    <2>. QED
      BY ONLY <2>1, <2>2 DEF Row, PostingRow
  <1>5. \A k \in 1 .. c : R[k] \in PostingRow
    BY ONLY <1>1, <1>2, <1>3, <1>4
  <1>6. R \in Seq(PostingRow) /\ Len(R) = c
    BY ONLY <1>1, <1>3, <1>5, SeqIs
  <1>. QED
    BY <1>3, <1>6 DEF R, c, e

\* The records of two lists: those of the second behind the positions of the first.
TwoLists(A, B, C) == A \in Seq(Posting) /\ B \in Seq(Posting) /\ C = A \o B

\* The records and the positions of a concatenation.
LEMMA RowsConcat ==
  ASSUME NEW A, NEW B, NEW C, TwoLists(A, B, C), NEW p \in BOOLEAN, NEW n \in Nat
  PROVE  /\ C \in Seq(Posting)
         /\ PlacesIn(C) = PlacesIn(A) \o PlacesIn(B)
         /\ Rows(C, p, n) = Rows(A, p, n) \o Rows(B, p, n + Len(PlacesIn(A)))
  <1> DEFINE a == Len(A)
             d == Len(B)
             u == PositionsOf(A)
             v == PositionsOf(B)
             w == PositionsOf(C)
             y == Len(PlacesIn(A))
             P == Rows(A, p, n)
             Q == Rows(B, p, n + y)
             R == Rows(C, p, n)
  <1>0. A \in Seq(Posting) /\ B \in Seq(Posting) /\ C = A \o B
    BY DEF TwoLists
  <1>1. /\ a \in Nat /\ d \in Nat
        /\ C \in Seq(Posting) /\ Len(C) = a + d
        /\ \A k \in 1 .. a : C[k] = A[k]
        /\ \A k \in 1 .. d : C[a + k] = B[k]
    <2>1. A \in Seq(Posting) /\ B \in Seq(Posting) /\ a = Len(A) /\ d = Len(B) /\ C = A \o B
      BY <1>0
    <2> HIDE DEF a, d
    <2>. QED
      BY ONLY <2>1, ConcatAt
  <1>2. /\ u \in Seq(Seq(Nat)) /\ Len(u) = a
        /\ \A k \in 1 .. a : u[k] = A[k].positions /\ Lens(u)[k] = Len(A[k].positions) /\ Len(A[k].positions) \in Nat
        /\ y = SumTo(Lens(u), a) /\ y \in Nat
    BY <1>0, PlacesAre
  <1>3. /\ v \in Seq(Seq(Nat)) /\ Len(v) = d
        /\ \A k \in 1 .. d : v[k] = B[k].positions /\ Lens(v)[k] = Len(B[k].positions) /\ Len(B[k].positions) \in Nat
    BY <1>0, PlacesAre
  <1>4. /\ w \in Seq(Seq(Nat)) /\ Len(w) = a + d
        /\ \A k \in 1 .. (a + d) : w[k] = C[k].positions /\ Lens(w)[k] = Len(C[k].positions) /\ Len(C[k].positions) \in Nat
    BY ONLY <1>1, PlacesAre
  <1>5. P \in Seq(PostingRow) /\ Len(P) = a /\ \A k \in 1 .. a : P[k] = Row(A[k], p, n + SumTo(Lens(u), k - 1))
    BY <1>0, RowsAre
  <1>6. Q \in Seq(PostingRow) /\ Len(Q) = d /\ \A k \in 1 .. d : Q[k] = Row(B[k], p, (n + y) + SumTo(Lens(v), k - 1))
    <2>1. n + y \in Nat
      BY ONLY <1>2, n \in Nat
    <2>. QED
      BY <1>0, <2>1, RowsAre
  <1>7. R = [k \in 1 .. (a + d) |-> R[k]] /\ \A k \in 1 .. (a + d) : R[k] = Row(C[k], p, n + SumTo(Lens(w), k - 1))
    <2> DEFINE c == Len(C)
    <2>1. R = [k \in 1 .. c |-> R[k]]
      BY <1>1, RowsAre
    <2>2. \A k \in 1 .. c : R[k] = Row(C[k], p, n + SumTo(Lens(w), k - 1))
      BY <1>1, RowsAre
    <2>3. c = a + d
      BY <1>1
    <2> HIDE DEF c, R, w, a, d
    <2>. QED
      BY ONLY <2>1, <2>2, <2>3
  <1>8. w = u \o v
    <2>1. w = [k \in 1 .. (a + d) |-> w[k]]
      <3>1. w \in [1 .. Len(w) -> Seq(Nat)]
        BY ONLY <1>4, LenProperties
      <3>. QED
        BY ONLY <1>4, <3>1
    <2> HIDE DEF u, v, w, a, d
    <2>2. \A k \in 1 .. a : w[k] = u[k]
      <3>1. \A k \in 1 .. a : k \in 1 .. (a + d)
        BY ONLY <1>1
      <3>. QED
        BY ONLY <1>1, <1>2, <1>4, <3>1, ZenonT(60)
    <2>3. \A k \in 1 .. d : w[a + k] = v[k]
      <3>1. \A k \in 1 .. d : a + k \in 1 .. (a + d)
        BY ONLY <1>1
      <3>. QED
        BY ONLY <1>1, <1>3, <1>4, <3>1, ZenonT(60)
    <2>4. JoinOf(Seq(Nat), u, v, w)
      BY ONLY <1>2, <1>3, <2>1, <2>2, <2>3 DEF JoinOf
    <2>. QED
      BY ONLY <2>4, ConcatIs
  <1>9. FlattenSeq(w) = FlattenSeq(u) \o FlattenSeq(v)
    BY ONLY <1>2, <1>3, <1>8, FlattenConcat
  <1> HIDE DEF a, d, u, v, w, y, P, Q, R
  <1>14. \A h \in 1 .. a : Lens(w)[h] = Lens(u)[h]
    <2> TAKE h \in 1 .. a
    <2>1. h \in 1 .. (a + d)
      BY ONLY <1>1
    <2>2. Lens(w)[h] = Len(C[h].positions) /\ Lens(u)[h] = Len(A[h].positions) /\ C[h] = A[h]
      BY ONLY <1>1, <1>2, <1>4, <2>1
    <2>. QED
      BY ONLY <2>2
  <1>15. \A h \in 1 .. d : Lens(v)[h] = Lens(w)[a + h]
    <2> TAKE h \in 1 .. d
    <2>1. a + h \in 1 .. (a + d)
      BY ONLY <1>1
    <2>2. Lens(w)[a + h] = Len(C[a + h].positions) /\ Lens(v)[h] = Len(B[h].positions) /\ C[a + h] = B[h]
      BY ONLY <1>1, <1>3, <1>4, <2>1
    <2>. QED
      BY ONLY <2>2
  <1>10. ASSUME NEW k \in 1 .. a PROVE R[k] = P[k]
    <2>1. k \in 1 .. (a + d) /\ k - 1 \in Nat /\ \A h \in 1 .. (k - 1) : h \in 1 .. a /\ h \in 1 .. (a + d)
      BY ONLY <1>1
    <2>2. \A h \in 1 .. (k - 1) : Lens(w)[h] = Lens(u)[h]
      BY ONLY <1>14, <2>1
    <2>3. SumTo(Lens(w), k - 1) = SumTo(Lens(u), k - 1)
      BY ONLY <2>1, <2>2, SumToSame
    <2>. QED
      BY ONLY <1>1, <1>5, <1>7, <2>1, <2>3
  <1>11. ASSUME NEW k \in 1 .. d PROVE R[a + k] = Q[k]
    <2> DEFINE j == k - 1
               z == a + j
    <2>1. /\ a + k \in 1 .. (a + d) /\ (a + k) - 1 = z /\ j \in Nat /\ z = a + j
          /\ \A h \in 1 .. z : h \in 1 .. (a + d)
          /\ \A h \in 1 .. a : h \in 1 .. (a + d)
          /\ \A h \in 1 .. j : h \in 1 .. d /\ a + h \in 1 .. (a + d)
      BY ONLY <1>1
    <2>4. k - 1 = j
      OBVIOUS
    <2> HIDE DEF j, z
    <2>3. \A h \in 1 .. j : Lens(v)[h] = Lens(w)[a + h]
      BY ONLY <1>15, <2>1
    <2>5. \A h \in 1 .. z : Lens(w)[h] \in Nat
      BY ONLY <1>4, <2>1
    <2>6. SumTo(Lens(w), z) = SumTo(Lens(w), a) + SumTo(Lens(v), j)
      <3>1. Continues(Lens(w), Lens(v), a, j)
        BY ONLY <1>1, <2>1, <2>3, <2>5 DEF Continues
      <3>. QED
        BY ONLY <2>1, <3>1, SumContinues
    <2>7. SumTo(Lens(w), a) = y
      <3>1. a \in Nat
        BY ONLY <1>1
      <3>2. SumTo(Lens(w), a) = SumTo(Lens(u), a)
        BY ONLY <3>1, <1>14, SumToSame
      <3>. QED
        BY ONLY <1>2, <3>2
    <2>8. SumTo(Lens(v), j) \in Nat
      <3>1. \A h \in 1 .. j : Lens(v)[h] \in Nat
        BY ONLY <1>3, <2>1
      <3>. QED
        BY ONLY <2>1, <3>1, SumToNat
    <2>9. n + SumTo(Lens(w), z) = (n + y) + SumTo(Lens(v), j)
      BY ONLY <2>6, <2>7, <2>8, <1>2, n \in Nat
    <2>. QED
      BY ONLY <1>1, <1>6, <1>7, <2>1, <2>4, <2>9
  <1>12. JoinOf(PostingRow, P, Q, R)
    BY ONLY <1>5, <1>6, <1>7, <1>10, <1>11 DEF JoinOf
  <1>13. R = P \o Q
    BY ONLY <1>12, ConcatIs
  <1>. QED
    BY <1>1, <1>9, <1>13 DEF R, P, Q, u, v, w, y, PlacesIn

\* The positions of several lists, and their records one behind the other.
PartsOf(ss) == [g \in DOMAIN ss |-> PlacesIn(ss[g])]
RowsOf(ss, p, n) == [g \in DOMAIN ss |-> Rows(ss[g], p, n + SumTo(Lens(PartsOf(ss)), g - 1))]

\* The positions and the records of several lists in turn.
LEMMA PartsAre ==
  ASSUME NEW ss \in Seq(Seq(Posting)), NEW p \in BOOLEAN, NEW n \in Nat
  PROVE  /\ Len(ss) \in Nat /\ DOMAIN ss = 1 .. Len(ss) /\ \A g \in 1 .. Len(ss) : ss[g] \in Seq(Posting)
         /\ PartsOf(ss) \in Seq(Seq(Nat)) /\ Len(PartsOf(ss)) = Len(ss)
         /\ \A g \in 1 .. Len(ss) : PartsOf(ss)[g] = PlacesIn(ss[g])
         /\ RowsOf(ss, p, n) \in Seq(Seq(PostingRow)) /\ Len(RowsOf(ss, p, n)) = Len(ss)
         /\ \A g \in 1 .. Len(ss) : /\ RowsOf(ss, p, n)[g] = Rows(ss[g], p, n + SumTo(Lens(PartsOf(ss)), g - 1))
                                    /\ SumTo(Lens(PartsOf(ss)), g - 1) \in Nat
  <1> DEFINE m == Len(ss)
             P == PartsOf(ss)
             R == RowsOf(ss, p, n)
  <1>1. m \in Nat /\ DOMAIN ss = 1 .. m /\ \A g \in 1 .. m : ss[g] \in Seq(Posting)
    BY LensNat
  <1>2. P = [g \in 1 .. m |-> P[g]] /\ \A g \in 1 .. m : P[g] = PlacesIn(ss[g])
    BY <1>1 DEF PartsOf
  <1>3. R = [g \in 1 .. m |-> R[g]] /\ \A g \in 1 .. m : R[g] = Rows(ss[g], p, n + SumTo(Lens(P), g - 1))
    BY <1>1 DEF RowsOf
  <1> HIDE DEF m, P, R
  <1>4. \A g \in 1 .. m : P[g] \in Seq(Nat)
    BY ONLY <1>1, <1>2, PlacesAre
  <1>5. P \in Seq(Seq(Nat)) /\ Len(P) = m
    BY ONLY <1>1, <1>2, <1>4, SeqIs
  <1>6. \A g \in 1 .. m : Lens(P)[g] \in Nat
    <2>1. \A g \in 1 .. m : Lens(P)[g] = Len(P[g]) /\ Len(P[g]) \in Nat
      BY ONLY <1>5, LensNat
    <2>. QED
      BY ONLY <2>1
  <1>7. \A g \in 1 .. m : SumTo(Lens(P), g - 1) \in Nat
    BY ONLY <1>1, <1>6, SumToBound
  <1>8. \A g \in 1 .. m : R[g] \in Seq(PostingRow)
    <2> TAKE g \in 1 .. m
    <2>1. n + SumTo(Lens(P), g - 1) \in Nat /\ ss[g] \in Seq(Posting)
      BY ONLY <1>1, <1>7, n \in Nat
    <2>2. Rows(ss[g], p, n + SumTo(Lens(P), g - 1)) \in Seq(PostingRow)
      BY ONLY <2>1, p \in BOOLEAN, RowsAre
    <2>. QED
      BY ONLY <1>3, <2>2
  <1>9. R \in Seq(Seq(PostingRow)) /\ Len(R) = m
    BY ONLY <1>1, <1>3, <1>8, SeqIs
  <1>. QED
    BY <1>1, <1>2, <1>3, <1>5, <1>7, <1>9 DEF m, P, R

\* An empty list has neither.
LEMMA RowsEmpty ==
  ASSUME NEW p \in BOOLEAN, NEW n \in Nat
  PROVE  PlacesIn(<<>>) = <<>> /\ Rows(<<>>, p, n) = <<>>
  <1> DEFINE e == <<>>
  <1>1. e \in Seq(Posting) /\ Len(e) = 0
    OBVIOUS
  <1> HIDE DEF e
  <1>2. /\ PlacesIn(e) \in Seq(Nat) /\ Len(PlacesIn(e)) = SumTo(Lens(PositionsOf(e)), Len(e))
    BY ONLY <1>1, PlacesAre
  <1>3. Len(PlacesIn(e)) = 0
    <2>1. SumTo(Lens(PositionsOf(e)), 0) = 0
      BY SumToRec
    <2>. QED
      BY ONLY <1>1, <1>2, <2>1
  <1>4. Rows(e, p, n) \in Seq(PostingRow) /\ Len(Rows(e, p, n)) = 0
    BY <1>1, RowsAre
  <1>5. PlacesIn(e) = <<>>
    BY ONLY <1>2, <1>3, EmptySeq
  <1>6. Rows(e, p, n) = <<>>
    BY ONLY <1>4, EmptySeq
  <1>. QED
    BY <1>5, <1>6 DEF e

\* Lists written in turn, each where the positions before it end, are their
\* concatenation written at once.
LEMMA RowsFlatten ==
  ASSUME NEW ss \in Seq(Seq(Posting)), NEW p \in BOOLEAN, NEW n \in Nat
  PROVE  /\ FlattenSeq(PartsOf(ss)) = PlacesIn(FlattenSeq(ss))
         /\ FlattenSeq(RowsOf(ss, p, n)) = Rows(FlattenSeq(ss), p, n)
  <1> DEFINE m == Len(ss)
             P == PartsOf(ss)
             R == RowsOf(ss, p, n)
             F(g) == FlattenSeq(Upto(ss, g))
             FP(g) == FlattenSeq(Upto(P, g))
             FR(g) == FlattenSeq(Upto(R, g))
             T == {g \in Nat : FP(g) = PlacesIn(F(g)) /\ FR(g) = Rows(F(g), p, n)}
  <1>1. P \in Seq(Seq(Nat)) /\ Len(P) = m /\ \A g \in 1 .. m : P[g] = PlacesIn(ss[g])
    BY PartsAre
  <1>2. /\ R \in Seq(Seq(PostingRow)) /\ Len(R) = m
        /\ \A g \in 1 .. m : R[g] = Rows(ss[g], p, n + SumTo(Lens(P), g - 1))
    BY PartsAre
  <1>3. m \in Nat /\ F(0) = <<>>
    BY FlattenNext
  <1>4. \A g \in 0 .. m : /\ F(g) \in Seq(Posting)
                          /\ g < m => g + 1 \in 1 .. m /\ ss[g + 1] \in Seq(Posting) /\ F(g + 1) = F(g) \o ss[g + 1]
    BY FlattenNext
  <1>5. FP(0) = <<>> /\ \A g \in 0 .. m : /\ Len(FP(g)) = SumTo(Lens(P), g)
                                          /\ g < m => FP(g + 1) = FP(g) \o P[g + 1]
    BY <1>1, FlattenNext
  <1>6. FR(0) = <<>> /\ \A g \in 0 .. m : g < m => FR(g + 1) = FR(g) \o R[g + 1]
    BY <1>2, FlattenNext
  <1>7. F(m) = FlattenSeq(ss) /\ FP(m) = FlattenSeq(P) /\ FR(m) = FlattenSeq(R)
    <2>1. Upto(ss, m) = ss
      BY UptoAll
    <2>2. Upto(P, m) = P
      BY ONLY <1>1, UptoAll
    <2>3. Upto(R, m) = R
      BY ONLY <1>2, UptoAll
    <2>. QED
      BY <2>1, <2>2, <2>3
  <1> HIDE DEF m, P, R, F, FP, FR
  <1>8. 0 \in T
    BY <1>3, <1>5, <1>6, RowsEmpty
  <1>9. ASSUME NEW g \in 0 .. m, g < m, g \in T PROVE g + 1 \in T
    <2>1. F(g) \in Seq(Posting) /\ g + 1 \in 1 .. m /\ ss[g + 1] \in Seq(Posting) /\ F(g + 1) = F(g) \o ss[g + 1]
      BY ONLY <1>4, g \in 0 .. m, g < m
    <2>0. TwoLists(F(g), ss[g + 1], F(g + 1))
      BY ONLY <2>1 DEF TwoLists
    <2>2. FP(g) = PlacesIn(F(g)) /\ FR(g) = Rows(F(g), p, n)
      BY <1>9
    <2>3. PlacesIn(F(g + 1)) = PlacesIn(F(g)) \o PlacesIn(ss[g + 1])
      BY ONLY <2>0, p \in BOOLEAN, n \in Nat, RowsConcat
    <2>4. Rows(F(g + 1), p, n) = Rows(F(g), p, n) \o Rows(ss[g + 1], p, n + Len(PlacesIn(F(g))))
      BY ONLY <2>0, p \in BOOLEAN, n \in Nat, RowsConcat
    <2>5. (g + 1) - 1 = g /\ g + 1 \in Nat
      BY ONLY <1>3, g \in 0 .. m
    <2>6. FP(g + 1) = PlacesIn(F(g + 1))
      BY ONLY <1>1, <1>5, <2>1, <2>2, <2>3, g \in 0 .. m, g < m
    <2>7. Len(PlacesIn(F(g))) = SumTo(Lens(P), g)
      BY ONLY <1>5, <2>2, g \in 0 .. m
    <2>8. R[g + 1] = Rows(ss[g + 1], p, n + SumTo(Lens(P), g))
      BY ONLY <1>2, <2>1, <2>5
    <2>9. FR(g + 1) = Rows(F(g + 1), p, n)
      BY ONLY <1>6, <2>2, <2>4, <2>7, <2>8, g \in 0 .. m, g < m
    <2>. QED
      BY <2>5, <2>6, <2>9
  <1> HIDE DEF T
  <1>10. m \in T
    BY ONLY <1>3, <1>8, <1>9, BoundInductive
  <1>. QED
    BY <1>7, <1>10 DEF T, P, R

\* Postings whose positions are as many as they say, if positions are stored.
Fits(L, p) == L \in Seq(Posting) /\ \A k \in 1 .. Len(L) : Len(L[k].positions) = IF p THEN L[k].freq ELSE 0

\* The writer writes a whole list that way.
LEMMA PostingRecordsAre ==
  ASSUME NEW L, NEW p \in BOOLEAN, Fits(L, p)
  PROVE  PostingRecords(L, p) = Rows(L, p, 0)
  <1> DEFINE c == Len(L)
             e == Lens(PositionsOf(L))
             f == [j \in DOMAIN L |-> L[j].freq]
             Z == Rows(L, p, 0)
             Y == PostingRecords(L, p)
  <1>0. L \in Seq(Posting) /\ \A k \in 1 .. c : Len(L[k].positions) = IF p THEN L[k].freq ELSE 0
    BY DEF Fits
  <1>1. /\ c \in Nat /\ DOMAIN L = 1 .. c
        /\ \A k \in 1 .. c : e[k] = Len(L[k].positions) /\ e[k] \in Nat
    BY ONLY <1>0, PlacesAre
  <1>2. /\ Z = [k \in 1 .. c |-> Z[k]]
        /\ \A k \in 1 .. c : Z[k] = Row(L[k], p, 0 + SumTo(e, k - 1))
    BY <1>0, RowsAre
  <1>3. /\ Y = [k \in 1 .. c |-> Y[k]]
        /\ \A k \in 1 .. c : Y[k] = [doc |-> L[k].doc, freq |-> L[k].freq,
                                     offset |-> IF p THEN PositionSize * SumTo(f, k - 1) ELSE 0]
    BY <1>1 DEF PostingRecords, PlaceOffset
  <1>4. \A k \in 1 .. c : f[k] = L[k].freq
    BY <1>1
  <1> HIDE DEF c, e, f, Z, Y
  <1>5. ASSUME NEW k \in 1 .. c PROVE Z[k] = Y[k]
    <2>1. k - 1 \in Nat /\ \A h \in 1 .. (k - 1) : h \in 1 .. c
      BY ONLY <1>1
    <2>2. CASE p
      <3>1. \A h \in 1 .. (k - 1) : e[h] = f[h]
        BY ONLY <1>0, <1>1, <1>4, <2>1, <2>2
      <3>2. SumTo(e, k - 1) = SumTo(f, k - 1)
        BY ONLY <2>1, <3>1, SumToSame
      <3>3. SumTo(e, k - 1) \in Nat
        BY ONLY <1>1, SumToBound
      <3>4. 0 + SumTo(e, k - 1) = SumTo(f, k - 1)
        BY ONLY <3>2, <3>3
      <3>. QED
        BY ONLY <1>2, <1>3, <3>4 DEF Row
    <2>3. CASE ~ p
      BY ONLY <1>2, <1>3, <2>3 DEF Row
    <2>. QED
      BY ONLY <2>2, <2>3
  <1>6. Z = Y
    BY ONLY <1>2, <1>3, <1>5
  <1>. QED
    BY <1>6 DEF Z, Y

\* The postings a term record names, and the positions a posting names.
PostsFrom(f, r) ==
  SubSeq(f.posts, (r.start \div PostingRecordSize) + 1, (r.start \div PostingRecordSize) + r.df)
PlacesFrom(f, x) ==
  SubSeq(f.places, (x.offset \div PositionSize) + 1, (x.offset \div PositionSize) + x.freq)

\* f is what ix is written as, and L its list of the term j.
ListIn(ix, f, j, L) ==
  /\ ix \in Index /\ Good(ix) /\ f = Write(ix)
  /\ j \in 1 .. Len(ix.postings) /\ L = ix.postings[j].list

\* A posting list of a written index fits its flag and its term record.
LEMMA ListInGood ==
  ASSUME NEW ix, NEW f, NEW j, NEW L, ListIn(ix, f, j, L)
  PROVE  /\ Fits(L, ix.positions) /\ ix.positions \in BOOLEAN /\ f.flags = ix.positions
         /\ f.terms[j].df = Len(L)
         /\ TermAt(f, f.terms[j]) = ix.postings[j].term
  <1>0. /\ ix \in Index /\ Good(ix) /\ f = Write(ix)
        /\ j \in 1 .. Len(ix.postings) /\ L = ix.postings[j].list
    BY DEF ListIn
  <1>1. L \in Seq(Posting) /\ ix.positions \in BOOLEAN
    BY ONLY <1>0, IndexParts
  <1>2. \A i \in 1 .. Len(ix.postings) : \A k \in 1 .. Len(ix.postings[i].list) :
          Len(ix.postings[i].list[k].positions) = IF ix.positions THEN ix.postings[i].list[k].freq ELSE 0
    BY ONLY <1>0 DEF Good
  <1>3. Fits(L, ix.positions)
    BY ONLY <1>0, <1>1, <1>2 DEF Fits
  <1>4. f.flags = ix.positions
    BY ONLY <1>0, WrittenFile
  <1>5. /\ DOMAIN f.terms = 1 .. Len(ix.postings)
        /\ Terms(f)[j] = ix.postings[j].term /\ f.terms[j].df = Len(ix.postings[j].list)
    BY ONLY <1>0, TermsReadBack
  <1>6. Terms(f)[j] = TermAt(f, f.terms[j])
    BY ONLY <1>0, <1>5 DEF Terms
  <1>. QED
    BY ONLY <1>0, <1>1, <1>3, <1>4, <1>5, <1>6

\* What the records of a list point to is the list.
LEMMA ListInPosts ==
  ASSUME NEW ix, NEW f, NEW j, NEW L, ListIn(ix, f, j, L), NEW S, S = PostsFrom(f, f.terms[j])
  PROVE  /\ Len(L) \in Nat /\ S \in Seq(PostingRow) /\ Len(S) = Len(L) /\ DOMAIN S = 1 .. Len(L)
         /\ \A k \in 1 .. Len(L) : S[k].doc = L[k].doc /\ S[k].freq = L[k].freq
         /\ f.flags => \A k \in 1 .. Len(L) : PlacesFrom(f, S[k]) = L[k].positions
  <1> DEFINE lists == ListsOf(ix)
             all == AllOf(ix)
             n == Len(all)
             b == SumTo(Lens(lists), j - 1)
             d == Len(L)
             m == Len(ix.postings)
  <1>0. /\ ix \in Index /\ Good(ix) /\ f = Write(ix)
        /\ j \in 1 .. m /\ L = ix.postings[j].list
    BY DEF ListIn
  <1>1. lists \in Seq(Seq(Posting)) /\ Len(lists) = m /\ lists[j] = L
    BY ONLY <1>0, IndexParts
  <1>2. L \in Seq(Posting) /\ d \in Nat
    BY ONLY <1>0, <1>1, LensNat
  <1>3. b \in Nat /\ b + d <= n
    BY <1>0, <1>1, FlattenPiece DEF AllOf
  <1>4. \A k \in 1 .. d : b + k \in 1 .. n /\ all[b + k] = L[k]
    <2>1. \A k \in 1 .. d : k \in Nat
      OBVIOUS
    <2>2. \A k \in Nat : k \in 1 .. Len(lists[j]) => /\ SumTo(Lens(lists), j - 1) + k \in 1 .. Len(FlattenSeq(lists))
                                                     /\ FlattenSeq(lists)[SumTo(Lens(lists), j - 1) + k] = lists[j][k]
      BY ONLY <1>0, <1>1, FlattenAt
    <2>. QED
      BY <1>1, <2>1, <2>2 DEF AllOf
  <1>5. f.terms[j].df = d /\ f.terms[j].start = PostingRecordSize * b
    BY ONLY <1>0, TermsReadBack
  <1>6. f.terms[j].start \div PostingRecordSize = b
    <2>1. PostingRecordSize = 16
      BY DEF PostingRecordSize
    <2> HIDE DEF b
    <2>2. (16 * b) \div 16 = b
      BY ONLY <1>3
    <2>. QED
      BY ONLY <1>5, <2>1, <2>2
  <1>7. f.posts \in Seq(PostingRow) /\ Len(f.posts) = n
    <2>1. f \in SegmentFiles
      BY ONLY <1>0, WrittenFile
    <2>2. Len(f.posts) = n
      BY ONLY <1>0, PlacesReadBack
    <2>. QED
      BY ONLY <2>1, <2>2, FileTyped
  <1>8. S = SubSeq(f.posts, b + 1, b + d)
    BY ONLY <1>5, <1>6, S = PostsFrom(f, f.terms[j]) DEF PostsFrom
  <1>9. \A k \in 1 .. n : /\ f.posts[k].doc = all[k].doc /\ f.posts[k].freq = all[k].freq
                          /\ PlacesOf(f, k) = all[k].positions /\ PlaceValid(f, k) /\ PlacesBefore(f, k) \in Nat
    BY ONLY <1>0, PlacesReadBack
  <1> HIDE DEF lists, all, n, b, d, m
  <1>10. S \in Seq(PostingRow) /\ Len(S) = d /\ \A k \in 1 .. d : S[k] = f.posts[b + k]
    <2>1. f.posts \in Seq(PostingRow) /\ b \in Nat /\ d \in Nat /\ b + d <= Len(f.posts)
      BY ONLY <1>2, <1>3, <1>7
    <2>2. /\ SubSeq(f.posts, b + 1, b + d) \in Seq(PostingRow) /\ Len(SubSeq(f.posts, b + 1, b + d)) = d
          /\ \A k \in 1 .. d : SubSeq(f.posts, b + 1, b + d)[k] = f.posts[b + k]
      BY ONLY <2>1, Piece
    <2>. QED
      BY ONLY <1>8, <2>2
  <1>11. DOMAIN S = 1 .. d
    BY ONLY <1>10, LenProperties
  <1>12. \A k \in 1 .. d : S[k].doc = L[k].doc /\ S[k].freq = L[k].freq
    <2> TAKE k \in 1 .. d
    <2>1. b + k \in 1 .. n /\ all[b + k] = L[k] /\ S[k] = f.posts[b + k]
      BY ONLY <1>4, <1>10
    <2>2. f.posts[b + k].doc = all[b + k].doc /\ f.posts[b + k].freq = all[b + k].freq
      BY ONLY <1>9, <2>1
    <2>. QED
      BY ONLY <2>1, <2>2
  <1>13. ASSUME f.flags, NEW k \in 1 .. d PROVE PlacesFrom(f, S[k]) = L[k].positions
    <2> DEFINE h == b + k
               x == f.posts[h]
               q == PlacesBefore(f, h)
    <2>1. h \in 1 .. n /\ all[h] = L[k] /\ S[k] = x
      BY <1>4, <1>10
    <2>2. PlacesOf(f, h) = all[h].positions /\ PlaceValid(f, h) /\ q \in Nat
      BY <1>9, <2>1
    <2>3. x.offset = PositionSize * q /\ PlacesOf(f, h) = SubSeq(f.places, q + 1, q + x.freq)
      BY <1>13, <2>2 DEF PlaceValid, PlacesOf
    <2> HIDE DEF h, x, q
    <2>4. x.offset \div PositionSize = q
      <3>1. PositionSize = 4
        BY DEF PositionSize
      <3>2. (4 * q) \div 4 = q
        BY ONLY <2>2
      <3>. QED
        BY ONLY <2>3, <3>1, <3>2
    <2>5. PlacesFrom(f, x) = SubSeq(f.places, q + 1, q + x.freq)
      BY ONLY <2>4 DEF PlacesFrom
    <2>. QED
      BY ONLY <2>1, <2>2, <2>3, <2>5
  <1>. QED
    BY <1>2, <1>10, <1>11, <1>12, <1>13 DEF d

\* Later identifiers leave the positions as they are.
LEMMA MovedPlaces ==
  ASSUME NEW L \in Seq(Posting), NEW n \in Nat
  PROVE  PositionsOf(Moved(L, n)) = PositionsOf(L) /\ PlacesIn(Moved(L, n)) = PlacesIn(L)
  <1> DEFINE c == Len(L)
             M == Moved(L, n)
             u == PositionsOf(M)
             v == PositionsOf(L)
  <1>1. /\ DOMAIN M = 1 .. c /\ \A k \in 1 .. c : M[k].positions = L[k].positions
    <2>1. /\ DOMAIN M = 1 .. c
          /\ \A k \in 1 .. c : M[k] = [doc |-> n + L[k].doc, freq |-> L[k].freq, positions |-> L[k].positions]
      BY MovedIs
    <2> HIDE DEF M, c
    <2>. QED
      BY ONLY <2>1
  <1>2. DOMAIN L = 1 .. c
    BY LenProperties
  <1> HIDE DEF M, c
  <1>3. u = v
    BY ONLY <1>1, <1>2 DEF PositionsOf
  <1>. QED
    BY <1>3 DEF M, PlacesIn

\* What TermCursor::copy_postings copies for one source.
LEMMA CopyIs ==
  ASSUME NEW i, NEW ix, NEW L, ListIn(ix, files[i], at[i] + 1, L), Base(i) \in Nat, NEW n \in Nat
  PROVE  /\ CopiedPlaces(i) = PlacesIn(Moved(L, Base(i)))
         /\ CopiedPosts(i, n) = Rows(Moved(L, Base(i)), ix.positions, n)
  <1> DEFINE f == files[i]
             p == ix.positions
             c == Len(L)
             S == PostsHere(i)
             N == Base(i)
             M == Moved(L, N)
             q == PositionsOf(L)
             fr == [k \in DOMAIN S |-> S[k].freq]
  <1>1. S = PostsFrom(f, f.terms[at[i] + 1])
    BY DEF PostsHere, PostsFrom
  <1>2. Fits(L, p) /\ p \in BOOLEAN /\ f.flags = p
    BY ListInGood
  <1>3. L \in Seq(Posting) /\ \A k \in 1 .. c : Len(L[k].positions) = IF p THEN L[k].freq ELSE 0
    BY ONLY <1>2 DEF Fits
  <1>4. /\ c \in Nat /\ S \in Seq(PostingRow) /\ DOMAIN S = 1 .. c
        /\ \A k \in 1 .. c : S[k].doc = L[k].doc /\ S[k].freq = L[k].freq
        /\ f.flags => \A k \in 1 .. c : PlacesFrom(f, S[k]) = L[k].positions
    BY <1>1, ListInPosts
  <1>5. N \in Nat
    OBVIOUS
  <1>6. /\ M \in Seq(Posting) /\ Len(M) = c
        /\ \A k \in 1 .. c : M[k] = [doc |-> N + L[k].doc, freq |-> L[k].freq, positions |-> L[k].positions]
    BY ONLY <1>3, <1>5, MovedIs
  <1>7. PositionsOf(M) = q /\ PlacesIn(M) = PlacesIn(L)
    BY ONLY <1>3, <1>5, MovedPlaces
  <1>8. /\ q \in Seq(Seq(Nat)) /\ Len(q) = c
        /\ \A k \in 1 .. c : q[k] = L[k].positions /\ Lens(q)[k] = Len(L[k].positions) /\ Lens(q)[k] \in Nat
    BY ONLY <1>3, PlacesAre
  <1>9. CopiedPlaces(i) = IF f.flags THEN FlattenSeq([k \in DOMAIN S |-> PlacesFrom(f, S[k])]) ELSE <<>>
    BY DEF CopiedPlaces, PlacesFrom
  <1>10. CopiedPosts(i, n) = [k \in DOMAIN S |-> [doc |-> N + S[k].doc, freq |-> fr[k],
                               offset |-> IF f.flags THEN PositionSize * (n + SumTo(fr, k - 1)) ELSE 0]]
    BY DEF CopiedPosts
  <1>11. fr = [k \in 1 .. c |-> fr[k]] /\ \A k \in 1 .. c : fr[k] = L[k].freq
    BY <1>4
  <1>12. q = [k \in 1 .. c |-> q[k]]
    <2>1. q \in [1 .. Len(q) -> Seq(Nat)]
      BY ONLY <1>8, LenProperties
    <2>. QED
      BY ONLY <1>8, <2>1
  <1> DEFINE CP == CopiedPlaces(i)
             CR == CopiedPosts(i, n)
             Z == Rows(M, p, n)
  <1>13. Z = [k \in 1 .. c |-> Z[k]] /\ \A k \in 1 .. c : Z[k] = Row(M[k], p, n + SumTo(Lens(q), k - 1))
    <2>1. /\ Z = [k \in 1 .. Len(M) |-> Z[k]]
          /\ \A k \in 1 .. Len(M) : Z[k] = Row(M[k], p, n + SumTo(Lens(PositionsOf(M)), k - 1))
      BY <1>2, <1>6, RowsAre
    <2> HIDE DEF Z, M, c, q
    <2>. QED
      BY ONLY <1>6, <1>7, <2>1
  <1> HIDE DEF f, p, c, S, N, M, q, fr, CP, CR, Z
  <1>14. CP = PlacesIn(M)
    <2>1. CASE f.flags
      <3>1. [k \in DOMAIN S |-> PlacesFrom(f, S[k])] = q
        <4>1. \A k \in 1 .. c : PlacesFrom(f, S[k]) = q[k]
          BY ONLY <1>4, <1>8, <2>1
        <4>. QED
          BY ONLY <1>4, <1>12, <4>1
      <3>2. CP = FlattenSeq(q)
        BY <1>9, <2>1, <3>1 DEF CP
      <3>. QED
        BY ONLY <1>7, <3>2 DEF PlacesIn, q
    <2>2. CASE ~ f.flags
      <3>1. \A k \in 1 .. c : Lens(q)[k] = 0
        BY ONLY <1>2, <1>3, <1>8, <2>2
      <3>2. SumTo(Lens(q), c) = 0
        BY ONLY <1>4, <3>1, SumToZero
      <3>3. FlattenSeq(q) \in Seq(Nat) /\ Len(FlattenSeq(q)) = SumTo(Lens(q), Len(q))
        BY ONLY <1>8, FlattenAt
      <3>4. Len(FlattenSeq(q)) = 0
        BY ONLY <1>8, <3>2, <3>3
      <3>5. FlattenSeq(q) = <<>>
        BY ONLY <3>3, <3>4, EmptySeq
      <3>6. CP = <<>>
        BY <1>9, <2>2 DEF CP
      <3>. QED
        BY ONLY <1>7, <3>5, <3>6 DEF PlacesIn, q
    <2>. QED
      BY ONLY <2>1, <2>2
  <1>15. CR = [k \in 1 .. c |-> CR[k]]
    BY <1>4, <1>10 DEF CR
  <1>16. ASSUME NEW k \in 1 .. c PROVE CR[k] = Z[k]
    <2>1. CR[k] = [doc |-> N + S[k].doc, freq |-> fr[k],
                   offset |-> IF f.flags THEN PositionSize * (n + SumTo(fr, k - 1)) ELSE 0]
      BY <1>4, <1>10 DEF CR
    <2>2. Z[k] = [doc |-> N + L[k].doc, freq |-> L[k].freq,
                  offset |-> IF p THEN PositionSize * (n + SumTo(Lens(q), k - 1)) ELSE 0]
      <3>1. Z[k] = Row(M[k], p, n + SumTo(Lens(q), k - 1))
        BY ONLY <1>13
      <3>2. M[k].doc = N + L[k].doc /\ M[k].freq = L[k].freq
        BY ONLY <1>6
      <3>. QED
        BY ONLY <3>1, <3>2 DEF Row
    <2>3. k - 1 \in Nat /\ \A h \in 1 .. (k - 1) : h \in 1 .. c
      BY ONLY <1>4
    <2>4. ASSUME p PROVE SumTo(fr, k - 1) = SumTo(Lens(q), k - 1)
      <3>1. \A h \in 1 .. (k - 1) : fr[h] = Lens(q)[h]
        BY ONLY <1>3, <1>8, <1>11, <2>3, <2>4
      <3>. QED
        BY ONLY <2>3, <3>1, SumToSame
    <2>5. S[k].doc = L[k].doc /\ fr[k] = L[k].freq
      BY ONLY <1>4, <1>11
    <2>. QED
      BY ONLY <1>2, <2>1, <2>2, <2>4, <2>5
  <1>17. CR = Z
    <2>1. Z = [k \in 1 .. c |-> Z[k]]
      BY ONLY <1>13
    <2>. QED
      BY ONLY <1>15, <1>16, <2>1
  <1>. QED
    BY <1>14, <1>17 DEF CP, CR, Z, M, N, p

-----------------------------------------------------------------------------
(* The walk over the term tables, abstractly: n tables tt of terms, each in *)
(* order, and the table T of all their terms.                               *)

Table(tt, T, n) ==
  /\ n \in Nat /\ T \in Seq(Seq(Nat)) /\ Rising(T)
  /\ \A i \in 1 .. n :
       /\ tt[i] \in Seq(Seq(Nat)) /\ Rising(tt[i])
       /\ \A j \in 1 .. Len(tt[i]) : \E h \in 1 .. Len(T) : T[h] = tt[i][j]
  /\ \A h \in 1 .. Len(T) : \E i \in 1 .. n : \E j \in 1 .. Len(tt[i]) : tt[i][j] = T[h]

\* The cursors a have passed the first k terms of T, and no others.
Walked(tt, T, n, a, k) ==
  /\ k \in 0 .. Len(T)
  /\ \A i \in 1 .. n :
       /\ a[i] \in 0 .. Len(tt[i])
       /\ \A j \in 1 .. Len(tt[i]), h \in 1 .. Len(T) : T[h] = tt[i][j] => (j <= a[i] <=> h <= k)

\* The tables whose next term is the one after the first k.
Holding(tt, T, n, a, k) == {i \in 1 .. n : a[i] < Len(tt[i]) /\ tt[i][a[i] + 1] = T[k + 1]}

\* Tables of terms are rising, without repetition.
LEMMA TableFacts ==
  ASSUME NEW tt, NEW T, NEW n, Table(tt, T, n)
  PROVE  /\ n \in Nat /\ Len(T) \in Nat
         /\ \A h \in 1 .. Len(T) : T[h] \in Seq(Nat)
         /\ \A i \in 1 .. n : Len(tt[i]) \in Nat
         /\ \A g, h \in 1 .. Len(T) : (T[g] = T[h] => g = h) /\ (Less(T[g], T[h]) <=> g < h)
         /\ \A i \in 1 .. n : \A g, h \in 1 .. Len(tt[i]) : Less(tt[i][g], tt[i][h]) <=> g < h
  <1>1. /\ n \in Nat /\ T \in Seq(Seq(Nat)) /\ Rising(T)
        /\ \A i \in 1 .. n : tt[i] \in Seq(Seq(Nat)) /\ Rising(tt[i])
    BY DEF Table
  <1>2. ASSUME NEW s, s \in Seq(Seq(Nat)), Rising(s), NEW g \in 1 .. Len(s), NEW h \in 1 .. Len(s)
        PROVE  (s[g] = s[h] => g = h) /\ (Less(s[g], s[h]) <=> g < h)
    <2>1. (s[g] = s[h] => g = h) /\ (Less(s[g], s[h]) => g < h)
      BY ONLY <1>2, g \in 1 .. Len(s), h \in 1 .. Len(s), RisingOnce
    <2>2. DOMAIN s = 1 .. Len(s)
      BY <1>2, LenProperties
    <2>3. g < h => Less(s[g], s[h])
      BY ONLY <1>2, <2>2, g \in 1 .. Len(s), h \in 1 .. Len(s) DEF Rising
    <2>. QED
      BY ONLY <2>1, <2>3
  <1>3. Len(T) \in Nat /\ \A h \in 1 .. Len(T) : T[h] \in Seq(Nat)
    BY <1>1, LenProperties, ElementOfSeq
  <1>4. \A i \in 1 .. n : Len(tt[i]) \in Nat
    BY <1>1, LenProperties
  <1>. QED
    BY ONLY <1>1, <1>2, <1>3, <1>4

\* The next term of a table comes after those passed.
LEMMA WalkAhead ==
  ASSUME NEW tt, NEW T, NEW n, Table(tt, T, n), NEW a, NEW k, Walked(tt, T, n, a, k),
         NEW i \in 1 .. n, a[i] < Len(tt[i])
  PROVE  /\ a[i] + 1 \in 1 .. Len(tt[i]) /\ a[i] \in Nat
         /\ \E h \in 1 .. Len(T) : h > k /\ T[h] = tt[i][a[i] + 1]
  <1>1. /\ a[i] \in 0 .. Len(tt[i])
        /\ \A j \in 1 .. Len(tt[i]), h \in 1 .. Len(T) : T[h] = tt[i][j] => (j <= a[i] <=> h <= k)
        /\ k \in 0 .. Len(T)
    BY DEF Walked
  <1>2. Len(tt[i]) \in Nat /\ Len(T) \in Nat
    BY TableFacts
  <1>3. a[i] + 1 \in 1 .. Len(tt[i]) /\ a[i] \in Nat /\ ~ (a[i] + 1 <= a[i])
    BY ONLY <1>1, <1>2, a[i] < Len(tt[i])
  <1>4. \A j \in 1 .. Len(tt[i]) : \E h \in 1 .. Len(T) : T[h] = tt[i][j]
    BY DEF Table
  <1>5. PICK h \in 1 .. Len(T) : T[h] = tt[i][a[i] + 1]
    BY ONLY <1>3, <1>4
  <1>6. ~ (h <= k)
    BY ONLY <1>1, <1>3, <1>5
  <1>7. h > k
    BY ONLY <1>1, <1>2, <1>6
  <1>. QED
    BY ONLY <1>3, <1>5, <1>7

\* Wherever a table has the term after those passed, its cursor is there.
LEMMA WalkThere ==
  ASSUME NEW tt, NEW T, NEW n, Table(tt, T, n), NEW a, NEW k, Walked(tt, T, n, a, k), k < Len(T),
         NEW i \in 1 .. n, NEW j \in 1 .. Len(tt[i]), tt[i][j] = T[k + 1]
  PROVE  a[i] < Len(tt[i]) /\ j = a[i] + 1
  <1>1. /\ a[i] \in 0 .. Len(tt[i])
        /\ \A g \in 1 .. Len(tt[i]), h \in 1 .. Len(T) : T[h] = tt[i][g] => (g <= a[i] <=> h <= k)
        /\ k \in 0 .. Len(T)
    BY DEF Walked
  <1>2. Len(tt[i]) \in Nat /\ Len(T) \in Nat
    BY TableFacts
  <1>3. k + 1 \in 1 .. Len(T) /\ ~ (k + 1 <= k) /\ k \in Nat
    BY ONLY <1>1, <1>2, k < Len(T)
  <1>4. ~ (j <= a[i])
    BY ONLY <1>1, <1>3, tt[i][j] = T[k + 1]
  <1>5. a[i] < Len(tt[i]) /\ a[i] \in Nat /\ a[i] + 1 <= j
    BY ONLY <1>1, <1>2, <1>4
  <1>6. ASSUME a[i] + 1 < j PROVE FALSE
    <2>1. a[i] + 1 \in 1 .. Len(tt[i]) /\ \E h \in 1 .. Len(T) : h > k /\ T[h] = tt[i][a[i] + 1]
      BY <1>5, WalkAhead
    <2>2. PICK h \in 1 .. Len(T) : h > k /\ T[h] = tt[i][a[i] + 1]
      BY ONLY <2>1
    <2>3. Less(tt[i][a[i] + 1], tt[i][j])
      BY <1>6, <2>1, TableFacts
    <2>4. Less(T[h], T[k + 1])
      BY ONLY <2>2, <2>3, tt[i][j] = T[k + 1]
    <2>5. h < k + 1
      BY <1>3, <2>4, TableFacts
    <2>. QED
      BY ONLY <1>3, <2>2, <2>5
  <1>. QED
    BY ONLY <1>5, <1>6

\* The walk has ended when all terms have been passed, and only then.
LEMMA WalkDone ==
  ASSUME NEW tt, NEW T, NEW n, Table(tt, T, n), NEW a, NEW k, Walked(tt, T, n, a, k)
  PROVE  /\ (\A i \in 1 .. n : ~ (a[i] < Len(tt[i]))) <=> k = Len(T)
         /\ k < Len(T) => \E i \in 1 .. n : a[i] < Len(tt[i]) /\ tt[i][a[i] + 1] = T[k + 1]
  <1>1. k \in 0 .. Len(T) /\ Len(T) \in Nat
    <2>1. k \in 0 .. Len(T)
      BY DEF Walked
    <2>. QED
      BY <2>1, TableFacts
  <1>2. ASSUME k = Len(T), NEW i \in 1 .. n PROVE ~ (a[i] < Len(tt[i]))
    <2> SUFFICES ASSUME a[i] < Len(tt[i]) PROVE FALSE
      OBVIOUS
    <2>1. \E h \in 1 .. Len(T) : h > k
      BY WalkAhead
    <2>. QED
      BY ONLY <1>1, <1>2, <2>1
  <1>3. ASSUME k < Len(T) PROVE \E i \in 1 .. n : a[i] < Len(tt[i]) /\ tt[i][a[i] + 1] = T[k + 1]
    <2>1. k + 1 \in 1 .. Len(T)
      BY <1>1, <1>3
    <2>2. \A h \in 1 .. Len(T) : \E i \in 1 .. n : \E j \in 1 .. Len(tt[i]) : tt[i][j] = T[h]
      BY DEF Table
    <2>3. PICK i \in 1 .. n : \E j \in 1 .. Len(tt[i]) : tt[i][j] = T[k + 1]
      BY ONLY <2>1, <2>2
    <2>4. PICK j \in 1 .. Len(tt[i]) : tt[i][j] = T[k + 1]
      BY ONLY <2>3
    <2>5. a[i] < Len(tt[i]) /\ j = a[i] + 1
      BY <1>3, <2>4, WalkThere
    <2>. QED
      BY ONLY <2>4, <2>5
  <1>4. k = Len(T) \/ k < Len(T)
    BY ONLY <1>1
  <1>. QED
    BY ONLY <1>2, <1>3, <1>4

\* One step: the tables that hold the next term move on.
LEMMA WalkStep ==
  ASSUME NEW tt, NEW T, NEW n, Table(tt, T, n), NEW a, NEW k, Walked(tt, T, n, a, k), k < Len(T),
         NEW z, \A i \in 1 .. n : z[i] = IF i \in Holding(tt, T, n, a, k) THEN a[i] + 1 ELSE a[i]
  PROVE  Walked(tt, T, n, z, k + 1)
  <1> DEFINE G == Holding(tt, T, n, a, k)
  <1>1. k \in 0 .. Len(T) /\ Len(T) \in Nat
    <2>1. k \in 0 .. Len(T)
      BY DEF Walked
    <2>. QED
      BY <2>1, TableFacts
  <1>2. k + 1 \in 0 .. Len(T) /\ k + 1 \in 1 .. Len(T)
    BY ONLY <1>1, k < Len(T)
  <1>3. ASSUME NEW i \in 1 .. n
        PROVE  /\ z[i] \in 0 .. Len(tt[i])
               /\ \A j \in 1 .. Len(tt[i]), h \in 1 .. Len(T) : T[h] = tt[i][j] => (j <= z[i] <=> h <= k + 1)
    <2>1. /\ a[i] \in 0 .. Len(tt[i]) /\ Len(tt[i]) \in Nat
          /\ \A j \in 1 .. Len(tt[i]), h \in 1 .. Len(T) : T[h] = tt[i][j] => (j <= a[i] <=> h <= k)
      BY TableFacts DEF Walked
    <2>2. z[i] = IF i \in G THEN a[i] + 1 ELSE a[i]
      OBVIOUS
    <2>3. i \in G <=> a[i] < Len(tt[i]) /\ tt[i][a[i] + 1] = T[k + 1]
      BY DEF Holding
    <2> HIDE DEF G
    <2>4. z[i] \in 0 .. Len(tt[i])
      BY ONLY <2>1, <2>2, <2>3
    <2>5. ASSUME NEW j \in 1 .. Len(tt[i]), NEW h \in 1 .. Len(T), T[h] = tt[i][j]
          PROVE  j <= z[i] <=> h <= k + 1
      <3>1. j <= a[i] <=> h <= k
        BY ONLY <2>1, <2>5
      <3>2. CASE h = k + 1
        <4>1. a[i] < Len(tt[i]) /\ j = a[i] + 1
          <5>1. tt[i][j] = T[k + 1]
            BY ONLY <2>5, <3>2
          <5>. QED
            BY <5>1, WalkThere
        <4>2. i \in G
          BY ONLY <2>3, <2>5, <3>2, <4>1
        <4>. QED
          BY ONLY <1>1, <2>1, <2>2, <3>2, <4>1, <4>2
      <3>3. CASE h # k + 1
        <4>1. i \in G => j # a[i] + 1
          <5> SUFFICES ASSUME i \in G, j = a[i] + 1 PROVE FALSE
            OBVIOUS
          <5>1. T[h] = T[k + 1]
            BY <2>3, <2>5
          <5>2. h = k + 1
            BY <1>2, <5>1, TableFacts
          <5>. QED
            BY ONLY <3>3, <5>2
        <4>2. h <= k + 1 <=> h <= k
          BY ONLY <1>1, <3>3, h \in 1 .. Len(T)
        <4>3. CASE i \in G
          <5>1. z[i] = a[i] + 1 /\ j # a[i] + 1
            BY ONLY <2>2, <4>1, <4>3
          <5>2. j <= a[i] + 1 <=> j <= a[i]
            BY ONLY <2>1, <5>1, j \in 1 .. Len(tt[i])
          <5>. QED
            BY ONLY <3>1, <4>2, <5>1, <5>2
        <4>4. CASE i \notin G
          BY ONLY <2>2, <3>1, <4>2, <4>4
        <4>. QED
          BY ONLY <4>3, <4>4
      <3>. QED
        BY ONLY <3>2, <3>3
    <2>. QED
      BY ONLY <2>4, <2>5
  <1>. QED
    BY ONLY <1>2, <1>3 DEF Walked

\* Before the walk.
LEMMA WalkBegins ==
  ASSUME NEW tt, NEW T, NEW n, Table(tt, T, n), NEW a, \A i \in 1 .. n : a[i] = 0
  PROVE  Walked(tt, T, n, a, 0)
  <1>1. Len(T) \in Nat /\ \A i \in 1 .. n : Len(tt[i]) \in Nat
    BY TableFacts
  <1>2. 0 \in 0 .. Len(T)
    BY ONLY <1>1
  <1>3. ASSUME NEW i \in 1 .. n, NEW j \in 1 .. Len(tt[i]), NEW h \in 1 .. Len(T)
        PROVE  j <= a[i] <=> h <= 0
    BY <1>1
  <1>4. \A i \in 1 .. n : a[i] \in 0 .. Len(tt[i])
    BY <1>1
  <1>. QED
    BY ONLY <1>2, <1>3, <1>4 DEF Walked

\* The terms of each batch of a list, and those of one batch of them all.
TermTables(b) == [i \in DOMAIN b |-> BuiltTerms(b[i])]
AllTerms(b) == BuiltTerms(FlattenSeq(b))

\* The parts of an index built from a batch.
LEMMA BuiltIndex ==
  ASSUME NEW parsed \in Seq(Documents), NEW p \in BOOLEAN
  PROVE  /\ Build(parsed, p) \in Index /\ Build(parsed, p).positions = p
         /\ Build(parsed, p).docs = [i \in 1 .. Len(parsed) |-> BuiltDoc(parsed[i])]
         /\ Len(BuiltTerms(parsed)) \in Nat
         /\ Len(Build(parsed, p).docs) = Len(parsed)
         /\ Len(Build(parsed, p).postings) = Len(BuiltTerms(parsed))
         /\ \A j \in 1 .. Len(BuiltTerms(parsed)) :
              Build(parsed, p).postings[j] =
                [term |-> BuiltTerms(parsed)[j], list |-> PostingList(parsed, p, BuiltTerms(parsed)[j])]
  <1> DEFINE ix == Build(parsed, p)
             T == BuiltTerms(parsed)
             n == Len(parsed)
             m == Len(T)
  <1>1. ix = Build(parsed, p) /\ T = BuiltTerms(parsed) /\ n = Len(parsed) /\ m = Len(T)
    OBVIOUS
  <1> HIDE DEF ix, T, n, m
  <1>2. /\ ix \in Index /\ ix.positions = p
        /\ n \in Nat /\ m \in Nat
        /\ ix.docs = [i \in 1 .. n |-> BuiltDoc(parsed[i])] /\ Len(ix.docs) = n
        /\ DOMAIN ix.postings = 1 .. m /\ Len(ix.postings) = m
        /\ ix.postings = [i \in 1 .. m |-> [term |-> T[i], list |-> PostingList(parsed, p, T[i])]]
    BY ONLY parsed \in Seq(Documents), p \in BOOLEAN, <1>1, BuildIs
  <1>3. ix.docs = [i \in 1 .. n |-> BuiltDoc(parsed[i])]
    BY ONLY <1>2
  <1>4. ix.postings = [i \in 1 .. m |-> [term |-> T[i], list |-> PostingList(parsed, p, T[i])]]
    BY ONLY <1>2
  <1>5. \A j \in 1 .. m : ix.postings[j] = [term |-> T[j], list |-> PostingList(parsed, p, T[j])]
    BY ONLY <1>4
  <1>. QED
    BY ONLY <1>1, <1>2, <1>3, <1>5

\* A term of all batches is a term of one of them.
LEMMA TermsInFlat ==
  ASSUME NEW b \in Seq(Seq(Documents)), NEW t
  PROVE  t \in TermsIn(FlattenSeq(b)) <=> \E i \in 1 .. Len(b) : t \in TermsIn(b[i])
  <1> DEFINE F == FlattenSeq(b)
             m == Len(b)
             Q(doc) == \E k \in 1 .. Len(doc.text) : doc.text[k] = t
  <1>1. F \in Seq(Documents) /\ Len(F) \in Nat
    BY FlattenAt, LenProperties
  <1>2. m \in Nat /\ \A i \in 1 .. m : b[i] \in Seq(Documents) /\ Len(b[i]) \in Nat
    BY LensNat
  <1>3. ASSUME NEW s, s \in Seq(Documents) PROVE t \in TermsIn(s) <=> \E k \in 1 .. Len(s) : Q(s[k])
    <2>1. t \in TermsIn(s) <=> Holders(s, t) # {}
      BY ONLY <1>3, TermsInAre
    <2>2. DOMAIN s = 1 .. Len(s)
      BY <1>3, LenProperties
    <2>3. Holders(s, t) = {k \in 1 .. Len(s) : Q(s[k])}
      BY ONLY <2>2 DEF Holders
    <2> HIDE DEF Q
    <2>4. Holders(s, t) # {} <=> \E k \in 1 .. Len(s) : Q(s[k])
      BY ONLY <2>3
    <2>. QED
      BY ONLY <2>1, <2>4
  <1>4. \A k \in 1 .. Len(F) : \E i \in 1 .. m : \E j \in 1 .. Len(b[i]) : F[k] = b[i][j]
    <2> TAKE k \in 1 .. Len(F)
    <2>1. \E i \in 1 .. Len(b) : \E j \in 1 .. Len(b[i]) :
           k = SumTo(Lens(b), i - 1) + j /\ FlattenSeq(b)[k] = b[i][j]
      BY FlattenMember
    <2>. QED
      BY <2>1
  <1>5. \A i \in 1 .. m : \A j \in 1 .. Len(b[i]) : \E k \in 1 .. Len(F) : F[k] = b[i][j]
    <2> TAKE i \in 1 .. m
    <2> TAKE j \in 1 .. Len(b[i])
    <2>1. j \in Nat
      BY <1>2
    <2>2. SumTo(Lens(b), i - 1) + j \in 1 .. Len(F) /\ F[SumTo(Lens(b), i - 1) + j] = b[i][j]
      BY <2>1, FlattenAt
    <2>. QED
      BY <2>2
  <1> HIDE DEF F, m, Q
  <1>6. ASSUME t \in TermsIn(F) PROVE \E i \in 1 .. m : t \in TermsIn(b[i])
    <2>1. PICK k \in 1 .. Len(F) : Q(F[k])
      BY ONLY <1>1, <1>3, <1>6
    <2>2. PICK i \in 1 .. m : \E j \in 1 .. Len(b[i]) : F[k] = b[i][j]
      BY ONLY <1>4
    <2>3. PICK j \in 1 .. Len(b[i]) : F[k] = b[i][j]
      BY ONLY <2>2
    <2>4. Q(b[i][j])
      BY ONLY <2>1, <2>3
    <2>5. t \in TermsIn(b[i])
      BY ONLY <1>2, <1>3, <2>4
    <2>. QED
      BY ONLY <2>5
  <1>7. ASSUME NEW i \in 1 .. m, t \in TermsIn(b[i]) PROVE t \in TermsIn(F)
    <2>1. PICK j \in 1 .. Len(b[i]) : Q(b[i][j])
      BY ONLY <1>2, <1>3, <1>7
    <2>2. PICK k \in 1 .. Len(F) : F[k] = b[i][j]
      BY ONLY <1>5
    <2>3. Q(F[k])
      BY ONLY <2>1, <2>2
    <2>. QED
      BY ONLY <1>1, <1>3, <2>3
  <1>. QED
    BY <1>6, <1>7 DEF F, m

\* The terms of the batches are tables of the terms of all.
LEMMA TableBuilt ==
  ASSUME NEW b \in Seq(Seq(Documents))
  PROVE  /\ Table(TermTables(b), AllTerms(b), Len(b))
         /\ \A i \in 1 .. Len(b) : TermTables(b)[i] = BuiltTerms(b[i])
  <1> DEFINE m == Len(b)
             F == FlattenSeq(b)
             T == AllTerms(b)
             tt == TermTables(b)
  <1>1. m \in Nat /\ DOMAIN b = 1 .. m /\ \A i \in 1 .. m : b[i] \in Seq(Documents)
    BY LensNat
  <1>2. F \in Seq(Documents)
    BY FlattenAt
  <1>3. \A i \in 1 .. m : tt[i] = BuiltTerms(b[i])
    BY <1>1 DEF TermTables
  <1>4. T = BuiltTerms(F)
    BY DEF AllTerms
  <1>5. \A t : t \in TermsIn(F) <=> \E i \in 1 .. m : t \in TermsIn(b[i])
    BY TermsInFlat
  <1> HIDE DEF m, F, T, tt
  <1>6. T \in Seq(Seq(Nat)) /\ Rising(T) /\ TermsIn(F) = {T[h] : h \in 1 .. Len(T)}
    <2>1. BuiltTerms(F) \in Seq(Seq(Nat)) /\ Rising(BuiltTerms(F))
      BY ONLY <1>2, BuiltTermsAre
    <2>2. TermsIn(F) = {BuiltTerms(F)[h] : h \in 1 .. Len(BuiltTerms(F))}
      BY ONLY <1>2, BuiltTermsAre
    <2>. QED
      BY ONLY <1>4, <2>1, <2>2
  <1>7. ASSUME NEW i \in 1 .. m
        PROVE  /\ tt[i] \in Seq(Seq(Nat)) /\ Rising(tt[i])
               /\ TermsIn(b[i]) = {tt[i][j] : j \in 1 .. Len(tt[i])}
    <2>1. b[i] \in Seq(Documents) /\ tt[i] = BuiltTerms(b[i])
      BY ONLY <1>1, <1>3
    <2>. QED
      BY ONLY <2>1, BuiltTermsAre
  <1>8. ASSUME NEW i \in 1 .. m, NEW j \in 1 .. Len(tt[i]) PROVE \E h \in 1 .. Len(T) : T[h] = tt[i][j]
    <2>1. tt[i][j] \in TermsIn(F)
      BY ONLY <1>5, <1>7
    <2>. QED
      BY ONLY <1>6, <2>1
  <1>9. ASSUME NEW h \in 1 .. Len(T) PROVE \E i \in 1 .. m : \E j \in 1 .. Len(tt[i]) : tt[i][j] = T[h]
    <2>1. T[h] \in TermsIn(F)
      BY ONLY <1>6
    <2>2. PICK i \in 1 .. m : T[h] \in TermsIn(b[i])
      BY ONLY <1>5, <2>1
    <2>3. \E j \in 1 .. Len(tt[i]) : tt[i][j] = T[h]
      BY ONLY <1>7, <2>2
    <2>. QED
      BY ONLY <2>3
  <1>10. Table(tt, T, m)
    BY ONLY <1>1, <1>6, <1>7, <1>8, <1>9 DEF Table
  <1>. QED
    BY <1>3, <1>10 DEF tt, T, m

-----------------------------------------------------------------------------
(* The walk over the cursors of the files. *)

\* The segments are what the batches b are written as.
WrittenAs(b, p) ==
  /\ b \in Seq(Seq(Documents)) /\ p \in BOOLEAN
  /\ files = [i \in 1 .. Len(b) |-> Write(Build(b[i], p))]

\* What the cursors find in the files written of the batches.
LEMMA FilesAre ==
  ASSUME NEW b, NEW p, WrittenAs(b, p)
  PROVE  /\ Len(b) \in Nat /\ Sources = 1 .. Len(b) /\ Len(files) = Len(b)
         /\ \A i \in 1 .. Len(b) :
              /\ b[i] \in Seq(Documents) /\ files[i] = Write(Build(b[i], p)) /\ files[i].flags = p
              /\ Len(files[i].terms) = Len(BuiltTerms(b[i]))
              /\ \A j \in 1 .. Len(BuiltTerms(b[i])) :
                   /\ ListIn(Build(b[i], p), files[i], j, PostingList(b[i], p, BuiltTerms(b[i])[j]))
                   /\ TermAt(files[i], files[i].terms[j]) = BuiltTerms(b[i])[j]
  <1>0. b \in Seq(Seq(Documents)) /\ p \in BOOLEAN /\ files = [i \in 1 .. Len(b) |-> Write(Build(b[i], p))]
    BY DEF WrittenAs
  <1>1. Len(b) \in Nat /\ \A i \in 1 .. Len(b) : b[i] \in Seq(Documents)
    BY ONLY <1>0, LensNat
  <1>2. Sources = 1 .. Len(b) /\ files = [i \in 1 .. Len(b) |-> files[i]]
    BY ONLY <1>0 DEF Sources
  <1>3. Len(files) = Len(b)
    BY ONLY <1>1, <1>2, FunLen
  <1>4. ASSUME NEW i \in 1 .. Len(b)
        PROVE  /\ files[i] = Write(Build(b[i], p)) /\ files[i].flags = p
               /\ Len(files[i].terms) = Len(BuiltTerms(b[i]))
               /\ \A j \in 1 .. Len(BuiltTerms(b[i])) :
                    /\ ListIn(Build(b[i], p), files[i], j, PostingList(b[i], p, BuiltTerms(b[i])[j]))
                    /\ TermAt(files[i], files[i].terms[j]) = BuiltTerms(b[i])[j]
    <2> DEFINE ix == Build(b[i], p)
               f == files[i]
               T == BuiltTerms(b[i])
               L(j) == PostingList(b[i], p, T[j])
    <2>1. f = Write(ix)
      BY ONLY <1>0
    <2>2. ix \in Index /\ ix.positions = p /\ Len(ix.postings) = Len(T)
      BY <1>0, <1>1, BuiltIndex
    <2>3. Good(ix)
      BY <1>0, <1>1, BuildGood
    <2>4. \A j \in 1 .. Len(T) : ix.postings[j] = [term |-> T[j], list |-> L(j)]
      BY <1>0, <1>1, BuiltIndex
    <2> HIDE DEF ix, f, T, L
    <2>5. f.flags = p
      BY ONLY <2>1, <2>2, WrittenFile
    <2>6. Len(f.terms) = Len(T)
      <3>1. Len(f.terms) = Len(ix.postings)
        BY ONLY <2>1, <2>2, <2>3, TermsReadBack
      <3>. QED
        BY ONLY <2>2, <3>1
    <2>7. ASSUME NEW j \in 1 .. Len(T)
          PROVE  ListIn(ix, f, j, L(j)) /\ TermAt(f, f.terms[j]) = T[j]
      <3>1. ix.postings[j].list = L(j) /\ ix.postings[j].term = T[j]
        <4>1. ix.postings[j] = [term |-> T[j], list |-> L(j)]
          BY ONLY <2>4
        <4> DEFINE e == ix.postings[j]
        <4> HIDE DEF e
        <4>2. e = [term |-> T[j], list |-> L(j)]
          BY ONLY <4>1 DEF e
        <4>3. e.list = L(j) /\ e.term = T[j]
          BY ONLY <4>2
        <4>. QED
          BY ONLY <4>3 DEF e
      <3>2. ListIn(ix, f, j, L(j))
        BY ONLY <2>1, <2>2, <2>3, <3>1, j \in 1 .. Len(T) DEF ListIn
      <3>3. TermAt(f, f.terms[j]) = ix.postings[j].term
        BY ONLY <3>2, ListInGood
      <3>. QED
        BY ONLY <3>1, <3>2, <3>3
    <2>. QED
      BY <2>1, <2>5, <2>6, <2>7 DEF ix, f, T, L
  <1>. QED
    BY ONLY <1>1, <1>2, <1>3, <1>4

\* The cursors of the files have passed the first k of all terms.
CursorsAt(b, p, k) == WrittenAs(b, p) /\ Walked(TermTables(b), AllTerms(b), Len(b), at, k)

\* The sources that hold the next term.
NextHolders(b, k) == Holding(TermTables(b), AllTerms(b), Len(b), at, k)

\* A cursor that has passed the terms below the next one.
LEMMA CursorsAre ==
  ASSUME NEW b, NEW p, NEW k, CursorsAt(b, p, k)
  PROVE  /\ WrittenAs(b, p) /\ k \in 0 .. Len(AllTerms(b)) /\ Len(AllTerms(b)) \in Nat
         /\ Table(TermTables(b), AllTerms(b), Len(b))
         /\ \A i \in 1 .. Len(b) :
              /\ TermTables(b)[i] = BuiltTerms(b[i]) /\ at[i] \in Nat
              /\ Valid(i) <=> at[i] < Len(TermTables(b)[i])
              /\ Valid(i) => /\ TermHere(i) = TermTables(b)[i][at[i] + 1]
                             /\ at[i] + 1 \in 1 .. Len(TermTables(b)[i])
  <1> DEFINE tt == TermTables(b)
             T == AllTerms(b)
             n == Len(b)
  <1>1. WrittenAs(b, p) /\ Walked(tt, T, n, at, k)
    BY DEF CursorsAt
  <1>2. b \in Seq(Seq(Documents))
    BY <1>1 DEF WrittenAs
  <1>3. Table(tt, T, n) /\ \A i \in 1 .. n : tt[i] = BuiltTerms(b[i])
    BY ONLY <1>2, TableBuilt
  <1>4. Len(T) \in Nat /\ \A i \in 1 .. n : Len(tt[i]) \in Nat
    BY ONLY <1>3, TableFacts
  <1>5. k \in 0 .. Len(T) /\ \A i \in 1 .. n : at[i] \in 0 .. Len(tt[i])
    BY ONLY <1>1 DEF Walked
  <1>6. \A i \in 1 .. n : Len(files[i].terms) = Len(BuiltTerms(b[i]))
    BY ONLY <1>1, FilesAre
  <1>7. \A i \in 1 .. n : \A j \in 1 .. Len(BuiltTerms(b[i])) : TermAt(files[i], files[i].terms[j]) = BuiltTerms(b[i])[j]
    BY ONLY <1>1, FilesAre
  <1> HIDE DEF tt, T, n
  <1>8. ASSUME NEW i \in 1 .. n
        PROVE  /\ tt[i] = BuiltTerms(b[i]) /\ at[i] \in Nat
               /\ Valid(i) <=> at[i] < Len(tt[i])
               /\ Valid(i) => /\ TermHere(i) = tt[i][at[i] + 1]
                              /\ at[i] + 1 \in 1 .. Len(tt[i])
    <2>1. tt[i] = BuiltTerms(b[i]) /\ at[i] \in Nat
      BY ONLY <1>3, <1>4, <1>5
    <2>2. Valid(i) <=> at[i] < Len(tt[i])
      BY ONLY <1>3, <1>6 DEF Valid
    <2>3. ASSUME at[i] < Len(tt[i]) PROVE TermHere(i) = tt[i][at[i] + 1] /\ at[i] + 1 \in 1 .. Len(tt[i])
      <3>1. at[i] + 1 \in 1 .. Len(tt[i])
        BY ONLY <1>4, <2>1, <2>3
      <3>2. at[i] + 1 \in 1 .. Len(BuiltTerms(b[i]))
        BY ONLY <2>1, <3>1
      <3>3. TermAt(files[i], files[i].terms[at[i] + 1]) = BuiltTerms(b[i])[at[i] + 1]
        BY ONLY <1>7, <3>2
      <3>. QED
        BY ONLY <2>1, <3>1, <3>3 DEF TermHere
    <2>. QED
      BY ONLY <2>1, <2>2, <2>3
  <1>. QED
    BY <1>1, <1>3, <1>4, <1>5, <1>8 DEF tt, T, n

\* The walk ends when all terms have been passed, not before and not later.
LEMMA WalkEndIs ==
  ASSUME NEW b, NEW p, NEW k, CursorsAt(b, p, k)
  PROVE  WalkEnds <=> k = Len(AllTerms(b))
  <1>1. WrittenAs(b, p) /\ Walked(TermTables(b), AllTerms(b), Len(b), at, k)
    BY DEF CursorsAt
  <1>2. Table(TermTables(b), AllTerms(b), Len(b)) /\ \A i \in 1 .. Len(b) : Valid(i) <=> at[i] < Len(TermTables(b)[i])
    BY CursorsAre
  <1>3. (\A i \in 1 .. Len(b) : ~ (at[i] < Len(TermTables(b)[i]))) <=> k = Len(AllTerms(b))
    BY ONLY <1>1, <1>2, WalkDone
  <1>4. Sources = 1 .. Len(b)
    BY ONLY <1>1, FilesAre
  <1>5. WalkEnds <=> \A i \in 1 .. Len(b) : ~ (at[i] < Len(TermTables(b)[i]))
    BY ONLY <1>2, <1>4 DEF WalkEnds
  <1>. QED
    BY ONLY <1>3, <1>5

\* The least term is the next of all terms, and its group the sources holding it.
LEMMA WalkStepIs ==
  ASSUME NEW b, NEW p, NEW k, CursorsAt(b, p, k), k # Len(AllTerms(b)),
         NEW H, H = NextHolders(b, k)
  PROVE  /\ LeastTerm = AllTerms(b)[k + 1] /\ k + 1 \in 1 .. Len(AllTerms(b)) /\ k \in Nat
         /\ H \in SUBSET (1 .. Len(b)) /\ IsFiniteSet(H) /\ Len(b) \in Nat
         /\ Group = Ascending(H) /\ ToSet(Group) = H /\ Len(Group) = Cardinality(H) /\ DOMAIN Group = 1 .. Cardinality(H)
         /\ \A i \in H : at[i] + 1 \in 1 .. Len(BuiltTerms(b[i])) /\ BuiltTerms(b[i])[at[i] + 1] = AllTerms(b)[k + 1]
         /\ Walked(TermTables(b), AllTerms(b), Len(b), Advanced, k + 1)
         /\ WrittenAs(b, p)
  <1> DEFINE tt == TermTables(b)
             T == AllTerms(b)
             n == Len(b)
             x == T[k + 1]
             V == {i \in Sources : Valid(i)}
             Least(t) == t \in {TermHere(i) : i \in V} /\ \A i \in V : ~ Less(TermHere(i), t)
  <1>1. WrittenAs(b, p) /\ Walked(tt, T, n, at, k)
    BY DEF CursorsAt
  <1>2. /\ Table(tt, T, n) /\ k \in 0 .. Len(T) /\ Len(T) \in Nat
        /\ \A i \in 1 .. n : /\ tt[i] = BuiltTerms(b[i]) /\ at[i] \in Nat
                             /\ Valid(i) <=> at[i] < Len(tt[i])
                             /\ Valid(i) => TermHere(i) = tt[i][at[i] + 1] /\ at[i] + 1 \in 1 .. Len(tt[i])
    BY CursorsAre
  <1>3. Sources = 1 .. n /\ n \in Nat
    BY ONLY <1>1, FilesAre
  <1>4. /\ \A h \in 1 .. Len(T) : T[h] \in Seq(Nat)
        /\ \A g, h \in 1 .. Len(T) : (T[g] = T[h] => g = h) /\ (Less(T[g], T[h]) <=> g < h)
    BY ONLY <1>2, TableFacts
  <1>5. k < Len(T) /\ k + 1 \in 1 .. Len(T) /\ k \in Nat
    BY ONLY <1>2, k # Len(AllTerms(b))
  <1>6. H = {i \in 1 .. n : at[i] < Len(tt[i]) /\ tt[i][at[i] + 1] = T[k + 1]}
    BY DEF NextHolders, Holding
  <1>7. \E i \in 1 .. n : at[i] < Len(tt[i]) /\ tt[i][at[i] + 1] = T[k + 1]
    <2>1. Table(tt, T, n) /\ Walked(tt, T, n, at, k) /\ k < Len(T)
      BY ONLY <1>1, <1>2, <1>5
    <2> HIDE DEF tt, T, n
    <2>2. /\ (\A i \in 1 .. n : ~ (at[i] < Len(tt[i]))) <=> k = Len(T)
          /\ k < Len(T) => \E i \in 1 .. n : at[i] < Len(tt[i]) /\ tt[i][at[i] + 1] = T[k + 1]
      BY ONLY <2>1, WalkDone
    <2>. QED
      BY ONLY <2>1, <2>2
  <1>8. LeastTerm = CHOOSE t : Least(t)
    BY DEF LeastTerm
  <1>21. x = T[k + 1]
    OBVIOUS
  <1>22. V = {i \in 1 .. n : Valid(i)}
    BY ONLY <1>3
  <1> HIDE DEF tt, T, n, x, V
  <1>9. ASSUME NEW i \in V PROVE \E h \in 1 .. Len(T) : h > k /\ TermHere(i) = T[h]
    <2>1. i \in 1 .. n /\ at[i] < Len(tt[i]) /\ TermHere(i) = tt[i][at[i] + 1]
      BY ONLY <1>2, <1>22
    <2>2. \E h \in 1 .. Len(T) : h > k /\ T[h] = tt[i][at[i] + 1]
      BY ONLY <1>1, <1>2, <2>1, WalkAhead
    <2>. QED
      BY ONLY <2>1, <2>2
  <1>10. ASSUME NEW i \in V PROVE ~ Less(TermHere(i), x)
    <2>1. PICK h \in 1 .. Len(T) : h > k /\ TermHere(i) = T[h]
      BY ONLY <1>9
    <2>2. ~ (h < k + 1)
      BY ONLY <1>5, <2>1
    <2>3. ~ Less(T[h], T[k + 1])
      BY ONLY <1>4, <1>5, <2>2
    <2>. QED
      BY ONLY <1>21, <2>1, <2>3
  <1>11. PICK j \in 1 .. n : at[j] < Len(tt[j]) /\ tt[j][at[j] + 1] = T[k + 1]
    BY ONLY <1>7
  <1>12. j \in V /\ TermHere(j) = x
    BY ONLY <1>2, <1>11, <1>21, <1>22
  <1>13. Least(x)
    BY ONLY <1>10, <1>12
  <1>14. ASSUME NEW t, Least(t) PROVE t = x
    <2>1. PICK i \in V : t = TermHere(i)
      BY ONLY <1>14
    <2>2. PICK h \in 1 .. Len(T) : h > k /\ TermHere(i) = T[h]
      BY ONLY <1>9
    <2>3. ~ Less(x, t)
      BY ONLY <1>12, <1>14
    <2>4. ~ Less(T[k + 1], T[h])
      BY ONLY <1>21, <2>1, <2>2, <2>3
    <2>5. ~ (k + 1 < h)
      BY ONLY <1>4, <1>5, <2>4
    <2>6. h = k + 1
      BY ONLY <1>5, <2>2, <2>5
    <2>. QED
      BY ONLY <1>21, <2>1, <2>2, <2>6
  <1>15. LeastTerm = x
    <2> HIDE DEF Least
    <2>. QED
      BY ONLY <1>8, <1>13, <1>14
  <1>16. H = {i \in Sources : Valid(i) /\ TermHere(i) = LeastTerm}
    <2>1. H = {i \in 1 .. n : Valid(i) /\ TermHere(i) = x}
      <3>1. \A i \in 1 .. n : (at[i] < Len(tt[i]) /\ tt[i][at[i] + 1] = T[k + 1]) <=> (Valid(i) /\ TermHere(i) = x)
        BY ONLY <1>2, <1>21
      <3>. QED
        BY ONLY <1>6, <3>1
    <2>. QED
      BY ONLY <1>3, <1>15, <2>1
  <1>17. Group = Ascending(H)
    BY ONLY <1>16 DEF Group, InGroup, Sorted, Ascending
  <1>18. H \in SUBSET (1 .. n) /\ IsFiniteSet(H)
    <2>1. H \in SUBSET (1 .. n)
      BY ONLY <1>6
    <2>2. IsFiniteSet(1 .. n)
      BY ONLY <1>3, FS_Interval
    <2>. QED
      BY ONLY <2>1, <2>2, FS_Subset
  <1>19. Len(Group) = Cardinality(H) /\ DOMAIN Group = 1 .. Cardinality(H) /\ ToSet(Group) = H
    <2>1. H \in SUBSET Int
      BY ONLY <1>3, <1>18
    <2>2. Group \in Seq(H) /\ Len(Group) = Cardinality(H) /\ H = {Group[i] : i \in 1 .. Cardinality(H)}
      BY ONLY <1>17, <1>18, <2>1, AscendingIs
    <2>3. DOMAIN Group = 1 .. Cardinality(H)
      BY ONLY <2>2, LenProperties
    <2>. QED
      BY ONLY <2>2, <2>3 DEF ToSet
  <1>20. Walked(tt, T, n, Advanced, k + 1)
    <2>1. \A i \in 1 .. n : Advanced[i] = IF i \in H THEN at[i] + 1 ELSE at[i]
      BY ONLY <1>3, <1>19 DEF Advanced
    <2>2. H = Holding(tt, T, n, at, k)
      BY ONLY <1>6 DEF Holding
    <2>3. \A i \in 1 .. n : Advanced[i] = IF i \in Holding(tt, T, n, at, k) THEN at[i] + 1 ELSE at[i]
      BY ONLY <2>1, <2>2
    <2>. QED
      BY ONLY <1>1, <1>2, <1>5, <2>3, WalkStep
  <1>23. \A i \in H : at[i] + 1 \in 1 .. Len(BuiltTerms(b[i])) /\ BuiltTerms(b[i])[at[i] + 1] = x
    <2> TAKE i \in H
    <2>1. i \in 1 .. n /\ at[i] < Len(tt[i]) /\ tt[i][at[i] + 1] = T[k + 1]
      BY ONLY <1>6
    <2>. QED
      BY ONLY <1>2, <1>21, <2>1
  <1>. QED
    BY <1>1, <1>3, <1>5, <1>15, <1>17, <1>18, <1>19, <1>20, <1>23 DEF x, T, tt, n

\* Identifiers of a source follow those of the sources before.
LEMMA BaseIs ==
  ASSUME NEW b, NEW p, WrittenAs(b, p), NEW i \in 1 .. Len(b)
  PROVE  Base(i) = SumTo(Lens(b), i - 1) /\ Base(i) \in Nat
  <1> DEFINE c == [j \in Sources |-> Len(files[j].docs)]
             n == Len(b)
  <1>0. b \in Seq(Seq(Documents)) /\ p \in BOOLEAN
    BY DEF WrittenAs
  <1>1. n \in Nat /\ Sources = 1 .. n /\ \A j \in 1 .. n : b[j] \in Seq(Documents) /\ files[j] = Write(Build(b[j], p))
    BY FilesAre
  <1>2. \A j \in 1 .. n : Lens(b)[j] = Len(b[j]) /\ Len(b[j]) \in Nat
    BY ONLY <1>0, LensNat
  <1>3. ASSUME NEW j \in 1 .. n PROVE Len(files[j].docs) = Len(b[j])
    <2> DEFINE ix == Build(b[j], p)
    <2>1. ix \in Index /\ ix.docs = [h \in 1 .. Len(b[j]) |-> BuiltDoc(b[j][h])] /\ Len(ix.docs) = Len(b[j])
      BY <1>0, <1>1, BuiltIndex
    <2> HIDE DEF ix
    <2>2. files[j].docs = DocumentRecords(ix.docs)
      <3>1. files[j] = Write(ix)
        BY <1>1 DEF ix
      <3>. QED
        BY ONLY <2>1, <3>1, WrittenFile
    <2>3. DOMAIN ix.docs = 1 .. Len(b[j])
      BY ONLY <2>1
    <2> DEFINE r == files[j].docs
    <2>4. r = [h \in 1 .. Len(b[j]) |-> r[h]]
      BY <2>2, <2>3 DEF DocumentRecords
    <2> HIDE DEF r
    <2>5. Len(r) = Len(b[j])
      BY ONLY <1>2, <2>4, j \in 1 .. n, FunLen
    <2>. QED
      BY <2>5 DEF r
  <1>4. Base(i) = SumTo(c, i - 1)
    BY DEF Base
  <1>5. \A j \in 1 .. n : c[j] = Lens(b)[j]
    BY <1>1, <1>2, <1>3
  <1>6. i - 1 \in Nat /\ \A j \in 1 .. (i - 1) : j \in 1 .. n
    BY ONLY <1>1, i \in 1 .. Len(b)
  <1> HIDE DEF c
  <1>7. \A j \in 1 .. (i - 1) : c[j] = Lens(b)[j]
    BY ONLY <1>5, <1>6
  <1>8. SumTo(c, i - 1) = SumTo(Lens(b), i - 1)
    BY ONLY <1>6, <1>7, SumToSame
  <1>9. SumTo(Lens(b), i - 1) \in Nat
    BY <1>1, <1>2, SumToBound
  <1>. QED
    BY ONLY <1>4, <1>8, <1>9

\* A batch without a term has no postings of it.
LEMMA ListEmpty ==
  ASSUME NEW parsed \in Seq(Documents), NEW p \in BOOLEAN, NEW t, t \notin TermsIn(parsed)
  PROVE  PostingList(parsed, p, t) = <<>>
  <1> DEFINE L == PostingList(parsed, p, t)
  <1>1. Holders(parsed, t) = {}
    BY TermsInAre
  <1>2. L \in Seq(Posting) /\ Len(L) = Cardinality(Holders(parsed, t))
    BY PostingListIs
  <1> HIDE DEF L
  <1>3. Len(L) = 0
    BY ONLY <1>1, <1>2, FS_EmptySet
  <1>4. L = <<>>
    BY ONLY <1>2, <1>3, EmptySeq
  <1>. QED
    BY <1>4 DEF L

\* Renumbering nothing.
LEMMA MovedEmpty ==
  ASSUME NEW n
  PROVE  Moved(<<>>, n) = <<>>
  <1> DEFINE e == <<>>
             M == Moved(e, n)
  <1>1. M = [k \in 1 .. 0 |-> M[k]]
    BY DEF Moved
  <1>2. \A k \in 1 .. 0 : M[k] \in Nat
    OBVIOUS
  <1>3. 0 \in Nat
    OBVIOUS
  <1> HIDE DEF M, e
  <1>4. M \in Seq(Nat) /\ Len(M) = 0
    BY ONLY <1>1, <1>2, <1>3, SeqIs
  <1>5. M = <<>>
    BY ONLY <1>4, EmptySeq
  <1>. QED
    BY <1>5 DEF M, e

\* The shares that the sources of the group have in the next term.
GroupShares(b, p, k) == Picked(Shares(b, p, AllTerms(b)[k + 1]), NextHolders(b, k))

\* The cursors that stand at the next term hold its whole posting list, cut
\* by source.
LEMMA GroupSharesAre ==
  ASSUME NEW b, NEW p, NEW k, CursorsAt(b, p, k), k # Len(AllTerms(b)),
         NEW ss, ss = GroupShares(b, p, k)
  PROVE  /\ ss \in Seq(Seq(Posting)) /\ Len(ss) = Cardinality(NextHolders(b, k)) /\ DOMAIN ss = DOMAIN Group
         /\ DOMAIN Group = 1 .. Cardinality(NextHolders(b, k))
         /\ FlattenSeq(ss) = PostingList(FlattenSeq(b), p, AllTerms(b)[k + 1])
         /\ \A g \in DOMAIN Group :
              /\ Group[g] \in NextHolders(b, k) /\ Group[g] \in 1 .. Len(b)
              /\ ss[g] = Moved(PostingList(b[Group[g]], p, AllTerms(b)[k + 1]), Base(Group[g]))
  <1> DEFINE x == AllTerms(b)[k + 1]
             H == NextHolders(b, k)
             n == Len(b)
             s == Shares(b, p, x)
             c == Cardinality(H)
  <1>0. WrittenAs(b, p) /\ H = NextHolders(b, k) /\ k # Len(AllTerms(b)) /\ CursorsAt(b, p, k)
    BY DEF CursorsAt
  <1>1. b \in Seq(Seq(Documents)) /\ p \in BOOLEAN
    BY <1>0 DEF WrittenAs
  <1>2. n \in Nat /\ \A i \in 1 .. n : b[i] \in Seq(Documents)
    BY <1>1, LensNat
  <1>3. /\ H \in SUBSET (1 .. n) /\ IsFiniteSet(H) /\ Group = Ascending(H)
        /\ DOMAIN Group = 1 .. c /\ k + 1 \in 1 .. Len(AllTerms(b)) /\ ToSet(Group) = H
    BY <1>0, WalkStepIs
  <1>4. s \in Seq(Seq(Posting)) /\ Len(s) = n
    BY <1>1, SharesAre
  <1>5. \A i \in 1 .. n : s[i] = Moved(PostingList(b[i], p, x), SumTo(Lens(b), i - 1))
    BY <1>1, SharesAre
  <1>6. \A i \in 1 .. n : Base(i) = SumTo(Lens(b), i - 1)
    BY <1>0, BaseIs
  <1>7. /\ Table(TermTables(b), AllTerms(b), n) /\ \A i \in 1 .. n : TermTables(b)[i] = BuiltTerms(b[i])
        /\ k \in 0 .. Len(AllTerms(b)) /\ Len(AllTerms(b)) \in Nat
    BY <1>0, CursorsAre
  <1>8. ASSUME NEW i \in 1 .. n, i \notin H PROVE x \notin TermsIn(b[i])
    <2> SUFFICES ASSUME x \in TermsIn(b[i]) PROVE FALSE
      OBVIOUS
    <2>1. TermsIn(b[i]) = {BuiltTerms(b[i])[j] : j \in 1 .. Len(BuiltTerms(b[i]))}
      <3>1. b[i] \in Seq(Documents)
        BY <1>2
      <3>. QED
        BY ONLY <3>1, BuiltTermsAre
    <2>2. PICK j \in 1 .. Len(TermTables(b)[i]) : TermTables(b)[i][j] = x
      BY <1>7, <2>1
    <2>3. k < Len(AllTerms(b)) /\ Walked(TermTables(b), AllTerms(b), n, at, k)
      <3>1. Walked(TermTables(b), AllTerms(b), n, at, k)
        BY <1>0 DEF CursorsAt
      <3>2. k < Len(AllTerms(b))
        BY ONLY <1>0, <1>7
      <3>. QED
        BY <3>1, <3>2
    <2>4. at[i] < Len(TermTables(b)[i]) /\ j = at[i] + 1
      BY <1>7, <2>2, <2>3, WalkThere
    <2>5. i \in Holding(TermTables(b), AllTerms(b), n, at, k)
      BY <2>2, <2>4 DEF Holding
    <2>. QED
      BY <1>8, <2>5 DEF NextHolders
  <1>9. \A i \in (1 .. Len(s)) \ H : s[i] = <<>>
    <2> TAKE i \in (1 .. Len(s)) \ H
    <2>1. i \in 1 .. n /\ i \notin H
      BY <1>4
    <2>2. PostingList(b[i], p, x) = <<>>
      BY <1>1, <1>2, <1>8, <2>1, ListEmpty
    <2>3. s[i] = Moved(<<>>, SumTo(Lens(b), i - 1))
      BY ONLY <1>5, <2>1, <2>2
    <2>. QED
      BY ONLY <2>3, MovedEmpty
  <1>10. ss = Picked(s, H)
    BY DEF GroupShares
  <1>11. PostingList(FlattenSeq(b), p, x) = FlattenSeq(s)
    BY <1>1, PostingListFlatten
  <1>12. c \in Nat
    BY <1>3, FS_CardinalityType
  <1> HIDE DEF x, H, n, s, c
  <1>13. FlattenSeq(ss) = FlattenSeq(s) /\ ss \in Seq(Seq(Posting))
    <2>1. H \in SUBSET (1 .. Len(s))
      BY ONLY <1>3, <1>4
    <2>. QED
      BY ONLY <1>4, <1>9, <1>10, <2>1, FlattenPicked
  <1>14. ss = [g \in 1 .. c |-> s[Group[g]]]
    BY ONLY <1>3, <1>10 DEF Picked, c
  <1>15. ss = [g \in 1 .. c |-> ss[g]] /\ \A g \in 1 .. c : ss[g] = s[Group[g]]
    BY ONLY <1>14
  <1>16. Len(ss) = c /\ DOMAIN ss = 1 .. c
    BY ONLY <1>12, <1>15, FunLen
  <1>17. ASSUME NEW g \in DOMAIN Group
         PROVE  /\ Group[g] \in H /\ Group[g] \in 1 .. n
                /\ ss[g] = Moved(PostingList(b[Group[g]], p, x), Base(Group[g]))
    <2>1. Group[g] \in H
      <3>1. ToSet(Group) = H
        BY ONLY <1>3
      <3>. QED
        BY ONLY <3>1, g \in DOMAIN Group DEF ToSet
    <2>2. Group[g] \in 1 .. n
      BY ONLY <1>3, <2>1
    <2>3. ss[g] = s[Group[g]]
      BY ONLY <1>3, <1>15, g \in DOMAIN Group
    <2>. QED
      BY ONLY <1>5, <1>6, <2>1, <2>2, <2>3
  <1>. QED
    BY <1>3, <1>11, <1>13, <1>16, <1>17 DEF x, H, n, c

\* What the second walk copies for one term: the positions, the records behind n
\* positions, and the document counts, source by source of the group.
GroupParts == [g \in DOMAIN Group |-> CopiedPlaces(Group[g])]
GroupPosts(n) == [g \in DOMAIN Group |-> CopiedPosts(Group[g], n + SumTo(Lens(GroupParts), g - 1))]
GroupCounts == [g \in DOMAIN Group |-> files[Group[g]].terms[at[Group[g]] + 1].df]

\* What the merge copies for the next term is its posting list in one batch.
LEMMA GroupCopied ==
  ASSUME NEW b, NEW p, NEW k, CursorsAt(b, p, k), k # Len(AllTerms(b)), NEW n \in Nat,
         NEW L, L = PostingList(FlattenSeq(b), p, AllTerms(b)[k + 1])
  PROVE  /\ L \in Seq(Posting)
         /\ FlattenSeq(GroupParts) = PlacesIn(L)
         /\ FlattenSeq(GroupPosts(n)) = Rows(L, p, n)
         /\ Sum(GroupCounts) = Len(L)
  <1> DEFINE x == AllTerms(b)[k + 1]
             H == NextHolders(b, k)
             c == Cardinality(H)
             ss == GroupShares(b, p, k)
             D == DOMAIN Group
             K(g) == PostingList(b[Group[g]], p, x)
  <1>0. WrittenAs(b, p) /\ CursorsAt(b, p, k) /\ k # Len(AllTerms(b)) /\ H = NextHolders(b, k) /\ n \in Nat
    BY DEF CursorsAt
  <1>1. p \in BOOLEAN
    BY <1>0 DEF WrittenAs
  <1>2. /\ ss \in Seq(Seq(Posting)) /\ Len(ss) = c /\ D = 1 .. c
        /\ FlattenSeq(ss) = L
        /\ \A g \in D : /\ Group[g] \in H /\ Group[g] \in 1 .. Len(b)
                        /\ ss[g] = Moved(K(g), Base(Group[g]))
    <2>1. /\ ss \in Seq(Seq(Posting)) /\ Len(ss) = c /\ D = 1 .. c
          /\ FlattenSeq(ss) = PostingList(FlattenSeq(b), p, AllTerms(b)[k + 1])
      BY <1>0, GroupSharesAre
    <2>2. \A g \in DOMAIN Group :
              /\ Group[g] \in NextHolders(b, k) /\ Group[g] \in 1 .. Len(b)
              /\ ss[g] = Moved(PostingList(b[Group[g]], p, AllTerms(b)[k + 1]), Base(Group[g]))
      BY <1>0, GroupSharesAre
    <2>. QED
      BY <2>1, <2>2
  <1>3. \A i \in H : at[i] + 1 \in 1 .. Len(BuiltTerms(b[i])) /\ BuiltTerms(b[i])[at[i] + 1] = x
    BY <1>0, WalkStepIs
  <1>4. c \in Nat
    BY <1>2, LenProperties
  <1>5. \A i \in 1 .. Len(b) : \A j \in 1 .. Len(BuiltTerms(b[i])) :
          ListIn(Build(b[i], p), files[i], j, PostingList(b[i], p, BuiltTerms(b[i])[j]))
    BY <1>0, FilesAre
  <1>6. \A i \in 1 .. Len(b) : Build(b[i], p).positions = p
    <2> TAKE i \in 1 .. Len(b)
    <2>1. b[i] \in Seq(Documents)
      BY <1>0, FilesAre
    <2>. QED
      BY ONLY <1>1, <2>1, BuiltIndex
  <1>7. \A i \in 1 .. Len(b) : Base(i) \in Nat
    BY <1>0, BaseIs
  <1> HIDE DEF x, H, c, ss, D
  <1>8. ASSUME NEW g \in D
        PROVE  /\ CopiedPlaces(Group[g]) = PlacesIn(ss[g])
               /\ \A m \in Nat : CopiedPosts(Group[g], m) = Rows(ss[g], p, m)
               /\ files[Group[g]].terms[at[Group[g]] + 1].df = Len(ss[g])
    <2> DEFINE i == Group[g]
               ix == Build(b[i], p)
               LL == PostingList(b[i], p, x)
    <2>1. i \in H /\ i \in 1 .. Len(b) /\ ss[g] = Moved(LL, Base(i))
      BY <1>2
    <2>2. at[i] + 1 \in 1 .. Len(BuiltTerms(b[i])) /\ BuiltTerms(b[i])[at[i] + 1] = x
      BY ONLY <1>3, <2>1
    <2>3. ListIn(ix, files[i], at[i] + 1, LL)
      <3>1. ListIn(Build(b[i], p), files[i], at[i] + 1, PostingList(b[i], p, BuiltTerms(b[i])[at[i] + 1]))
        BY ONLY <1>5, <2>1, <2>2
      <3>. QED
        BY ONLY <2>2, <3>1
    <2>4. ix.positions = p /\ Base(i) \in Nat
      BY ONLY <1>6, <1>7, <2>1
    <2> HIDE DEF i, ix, LL
    <2>5. LL \in Seq(Posting) /\ files[i].terms[at[i] + 1].df = Len(LL)
      BY ONLY <2>3, ListInGood DEF Fits
    <2>6. CopiedPlaces(i) = PlacesIn(Moved(LL, Base(i)))
      <3>1. 0 \in Nat
        OBVIOUS
      <3>. QED
        BY ONLY <2>3, <2>4, <3>1, CopyIs
    <2>7. \A m \in Nat : CopiedPosts(i, m) = Rows(Moved(LL, Base(i)), p, m)
      <3> TAKE m \in Nat
      <3>1. CopiedPosts(i, m) = Rows(Moved(LL, Base(i)), ix.positions, m)
        BY ONLY <2>3, <2>4, m \in Nat, CopyIs
      <3>. QED
        BY ONLY <2>4, <3>1
    <2>8. Len(Moved(LL, Base(i))) = Len(LL)
      BY ONLY <2>4, <2>5, MovedIs
    <2>. QED
      BY <2>1, <2>5, <2>6, <2>7, <2>8 DEF i
  <1>9. /\ PartsOf(ss) \in Seq(Seq(Nat)) /\ DOMAIN ss = 1 .. c
        /\ \A g \in 1 .. c : SumTo(Lens(PartsOf(ss)), g - 1) \in Nat
    BY ONLY <1>0, <1>1, <1>2, PartsAre
  <1>10. GroupParts = PartsOf(ss)
    <2>1. \A g \in D : CopiedPlaces(Group[g]) = PlacesIn(ss[g])
      BY ONLY <1>8
    <2>. QED
      BY ONLY <1>2, <1>9, <2>1 DEF GroupParts, PartsOf, D
  <1>11. GroupPosts(n) = RowsOf(ss, p, n)
    <2>1. \A g \in D : CopiedPosts(Group[g], n + SumTo(Lens(PartsOf(ss)), g - 1))
                         = Rows(ss[g], p, n + SumTo(Lens(PartsOf(ss)), g - 1))
      <3> TAKE g \in D
      <3>1. n + SumTo(Lens(PartsOf(ss)), g - 1) \in Nat
        BY ONLY <1>0, <1>2, <1>9
      <3>. QED
        BY ONLY <1>8, <3>1
    <2>2. GroupPosts(n) = [g \in D |-> CopiedPosts(Group[g], n + SumTo(Lens(PartsOf(ss)), g - 1))]
      BY <1>10 DEF GroupPosts, D
    <2>3. RowsOf(ss, p, n) = [g \in D |-> Rows(ss[g], p, n + SumTo(Lens(PartsOf(ss)), g - 1))]
      BY ONLY <1>2, <1>9 DEF RowsOf
    <2>. QED
      BY ONLY <2>1, <2>2, <2>3
  <1>12. FlattenSeq(PartsOf(ss)) = PlacesIn(FlattenSeq(ss)) /\ FlattenSeq(RowsOf(ss, p, n)) = Rows(FlattenSeq(ss), p, n)
    BY ONLY <1>0, <1>1, <1>2, RowsFlatten
  <1>13. FlattenSeq(ss) \in Seq(Posting) /\ Len(FlattenSeq(ss)) = SumTo(Lens(ss), c)
    BY ONLY <1>2, FlattenAt
  <1>14. Sum(GroupCounts) = SumTo(Lens(ss), c)
    <2>1. GroupCounts = [g \in 1 .. c |-> GroupCounts[g]] /\ \A g \in 1 .. c : GroupCounts[g] = Len(ss[g])
      <3>1. \A g \in D : files[Group[g]].terms[at[Group[g]] + 1].df = Len(ss[g])
        BY ONLY <1>8
      <3>. QED
        BY ONLY <1>2, <3>1 DEF GroupCounts, D
    <2>2. \A g \in 1 .. c : GroupCounts[g] = Lens(ss)[g]
      BY ONLY <1>9, <2>1 DEF Lens
    <2>3. SumTo(GroupCounts, c) = SumTo(Lens(ss), c)
      BY ONLY <1>4, <2>2, SumToSame
    <2>4. Sum(GroupCounts) = SumTo(GroupCounts, c)
      BY ONLY <1>4, <2>1, SumIs
    <2>. QED
      BY ONLY <2>3, <2>4
  <1>. QED
    BY <1>2, <1>10, <1>11, <1>12, <1>13, <1>14

\* One batch of all documents.
OneBatch(b, p) == Build(FlattenSeq(b), p)
AllLists(b, p) == ListsOf(OneBatch(b, p))
AllRecords(b, p) == TermRecords(AllTerms(b), CountsOf(OneBatch(b, p)))

\* The index of one batch of all documents: its terms and their lists.
LEMMA WholeIs ==
  ASSUME NEW b \in Seq(Seq(Documents)), NEW p \in BOOLEAN, NEW T, T = AllTerms(b), NEW m, m = Len(T)
  PROVE  /\ OneBatch(b, p) \in Index /\ Good(OneBatch(b, p)) /\ OneBatch(b, p).positions = p
         /\ m \in Nat /\ T \in Seq(Seq(Nat))
         /\ TermsOf(OneBatch(b, p)) = T
         /\ AllLists(b, p) \in Seq(Seq(Posting)) /\ Len(AllLists(b, p)) = m
         /\ \A h \in 1 .. m : /\ AllLists(b, p)[h] = PostingList(FlattenSeq(b), p, T[h])
                              /\ CountsOf(OneBatch(b, p))[h] = Len(AllLists(b, p)[h])
                              /\ CountsOf(OneBatch(b, p))[h] \in Nat
  <1> DEFINE F == FlattenSeq(b)
             ix == OneBatch(b, p)
  <1>0. T = AllTerms(b) /\ m = Len(T)
    OBVIOUS
  <1>1. F \in Seq(Documents)
    BY FlattenAt
  <1>2. T = BuiltTerms(F)
    BY DEF AllTerms
  <1>3. ix = Build(F, p)
    BY DEF OneBatch
  <1> HIDE DEF F, ix
  <1>4. /\ ix \in Index /\ ix.positions = p /\ m \in Nat /\ Len(ix.postings) = m
        /\ \A j \in 1 .. m : ix.postings[j] = [term |-> T[j], list |-> PostingList(F, p, T[j])]
    <2>1. /\ Build(F, p) \in Index /\ Build(F, p).positions = p /\ Len(BuiltTerms(F)) \in Nat
          /\ Len(Build(F, p).postings) = Len(BuiltTerms(F))
      BY ONLY <1>1, p \in BOOLEAN, BuiltIndex
    <2>2. \A j \in 1 .. Len(BuiltTerms(F)) :
              Build(F, p).postings[j] =
                [term |-> BuiltTerms(F)[j], list |-> PostingList(F, p, BuiltTerms(F)[j])]
      BY ONLY <1>1, p \in BOOLEAN, BuiltIndex
    <2>. QED
      BY ONLY <1>0, <1>2, <1>3, <2>1, <2>2
  <1>5. Good(ix)
    BY ONLY <1>1, <1>3, p \in BOOLEAN, BuildGood
  <1>6. T \in Seq(Seq(Nat))
    BY ONLY <1>1, <1>2, BuiltTermsAre
  <1>7. \A j \in 1 .. m : ix.postings[j].term = T[j] /\ ix.postings[j].list = PostingList(F, p, T[j])
    <2> TAKE j \in 1 .. m
    <2> DEFINE e == ix.postings[j]
    <2>1. e = [term |-> T[j], list |-> PostingList(F, p, T[j])]
      BY ONLY <1>4
    <2> HIDE DEF e
    <2>2. e.term = T[j] /\ e.list = PostingList(F, p, T[j])
      BY ONLY <2>1
    <2>. QED
      BY ONLY <2>2 DEF e
  <1>8. /\ TermsOf(ix) \in Seq(Seq(Nat)) /\ Len(TermsOf(ix)) = m
        /\ ListsOf(ix) \in Seq(Seq(Posting)) /\ Len(ListsOf(ix)) = m
    BY ONLY <1>4, IndexParts
  <1>9. \A i \in 1 .. m : /\ TermsOf(ix)[i] = ix.postings[i].term /\ ListsOf(ix)[i] = ix.postings[i].list
                          /\ CountsOf(ix)[i] = Len(ix.postings[i].list) /\ CountsOf(ix)[i] \in Nat
    BY ONLY <1>4, IndexParts
  <1>10. TermsOf(ix) = T
    <2> DEFINE u == TermsOf(ix)
    <2>1. u = [i \in 1 .. m |-> u[i]]
      <3>1. u \in [1 .. Len(u) -> Seq(Nat)]
        BY <1>8, LenProperties
      <3>. QED
        BY <1>8, <3>1
    <2>2. T = [i \in 1 .. m |-> T[i]]
      <3>1. T \in [1 .. Len(T) -> Seq(Nat)]
        BY <1>6, LenProperties
      <3>. QED
        BY <1>0, <3>1
    <2>3. \A i \in 1 .. m : u[i] = T[i]
      BY <1>7, <1>9
    <2> HIDE DEF u
    <2>4. u = T
      BY ONLY <2>1, <2>2, <2>3
    <2>. QED
      BY <2>4 DEF u
  <1>11. \A h \in 1 .. m : /\ ListsOf(ix)[h] = PostingList(F, p, T[h])
                           /\ CountsOf(ix)[h] = Len(ListsOf(ix)[h]) /\ CountsOf(ix)[h] \in Nat
    BY ONLY <1>7, <1>9
  <1>. QED
    BY <1>4, <1>5, <1>6, <1>8, <1>10, <1>11 DEF ix, F, AllLists

\* The spool s holds the first k terms of that batch.
ListsUpto(b, p, k) == FlattenSeq(Upto(AllLists(b, p), k))
TermsCopied(s, b, p, k) ==
  /\ s.terms = Upto(AllRecords(b, p), k)
  /\ s.names = FlattenSeq(Upto(AllTerms(b), k))
  /\ s.posts = Rows(ListsUpto(b, p, k), p, 0)
  /\ s.places = PlacesIn(ListsUpto(b, p, k))

\* What the second walk adds for a term is what the batch has for it.
LEMMA NextCopied ==
  ASSUME NEW b, NEW p, NEW k, CursorsAt(b, p, k), k # Len(AllTerms(b)),
         NEW s, TermsCopied(s, b, p, k),
         NEW L, L = PostingList(FlattenSeq(b), p, AllTerms(b)[k + 1])
  PROVE  /\ Upto(AllRecords(b, p), k + 1) = Append(s.terms, AllRecords(b, p)[k + 1])
         /\ FlattenSeq(Upto(AllTerms(b), k + 1)) = s.names \o AllTerms(b)[k + 1]
         /\ Rows(ListsUpto(b, p, k + 1), p, 0) = s.posts \o Rows(L, p, Len(s.places))
         /\ PlacesIn(ListsUpto(b, p, k + 1)) = s.places \o PlacesIn(L)
         /\ Len(s.places) \in Nat
         /\ AllRecords(b, p)[k + 1] =
              [offset |-> CountSize + TermRecordSize * Len(AllTerms(b)) + Len(s.names),
               length |-> Len(AllTerms(b)[k + 1]), df |-> Len(L),
               start |-> PostingRecordSize * Len(s.posts), bytes |-> PostingRecordSize * Len(L)]
  <1> DEFINE T == AllTerms(b)
             m == Len(T)
             R == AllRecords(b, p)
             X == AllLists(b, p)
             P == ListsUpto(b, p, k)
             N == ListsUpto(b, p, k + 1)
             C == CountsOf(OneBatch(b, p))
  <1>0. WrittenAs(b, p) /\ CursorsAt(b, p, k)
    BY DEF CursorsAt
  <1>1. b \in Seq(Seq(Documents)) /\ p \in BOOLEAN
    BY <1>0 DEF WrittenAs
  <1>2. k \in 0 .. m /\ m \in Nat /\ k # m
    BY <1>0, CursorsAre
  <1>3. /\ T \in Seq(Seq(Nat)) /\ X \in Seq(Seq(Posting)) /\ Len(X) = m /\ OneBatch(b, p) \in Index
        /\ \A h \in 1 .. m : X[h] = PostingList(FlattenSeq(b), p, T[h]) /\ C[h] = Len(X[h]) /\ C[h] \in Nat
    BY <1>1, WholeIs
  <1>4. /\ s.terms = Upto(R, k) /\ s.names = FlattenSeq(Upto(T, k))
        /\ s.posts = Rows(P, p, 0) /\ s.places = PlacesIn(P)
    BY DEF TermsCopied
  <1>5. P = FlattenSeq(Upto(X, k)) /\ N = FlattenSeq(Upto(X, k + 1))
    BY DEF ListsUpto
  <1>6. R = TermRecords(T, C) /\ m = Len(T)
    BY DEF AllRecords
  <1>7. L = PostingList(FlattenSeq(b), p, T[k + 1])
    OBVIOUS
  <1> HIDE DEF T, m, R, X, P, N, C
  <1>8. k \in 0 .. m /\ k < m /\ k \in Nat /\ k + 1 \in 1 .. m /\ (k + 1) - 1 = k
    BY ONLY <1>2
  <1>9. R \in Seq(TermRow) /\ Len(R) = m
    <2>1. \A i \in 1 .. Len(T) : C[i] \in Nat
      BY ONLY <1>3, <1>6
    <2> DEFINE ix == OneBatch(b, p)
               e == <<>>
    <2> HIDE DEF e
    <2>2. e \in Seq(Posting)
      BY DEF e
    <2>3. TermRecords(T, C) \in Seq(TermRow)
      BY ONLY <1>1, <1>3, <2>1, <2>2, RecordsTyped
    <2>4. DOMAIN T = 1 .. m
      BY ONLY <1>3, <1>6, LenProperties
    <2>5. R = [i \in 1 .. m |-> R[i]]
      BY ONLY <1>6, <2>4 DEF TermRecords
    <2>6. Len(R) = m
      BY ONLY <1>2, <2>5, FunLen
    <2>. QED
      BY ONLY <1>6, <2>3, <2>6
  <1>10. Upto(R, k + 1) = Append(Upto(R, k), R[k + 1])
    BY ONLY <1>8, <1>9, UptoNext
  <1>11. /\ FlattenSeq(Upto(T, k + 1)) = FlattenSeq(Upto(T, k)) \o T[k + 1]
         /\ Len(FlattenSeq(Upto(T, k))) = SumTo(Lens(T), k)
    BY ONLY <1>3, <1>6, <1>8, FlattenNext
  <1>12. /\ N = P \o X[k + 1] /\ P \in Seq(Posting) /\ X[k + 1] \in Seq(Posting) /\ Len(P) = SumTo(Lens(X), k)
    BY ONLY <1>3, <1>5, <1>8, FlattenNext
  <1>13. X[k + 1] = L /\ C[k + 1] = Len(L)
    BY ONLY <1>3, <1>7, <1>8
  <1>14. TwoLists(P, L, N)
    BY ONLY <1>12, <1>13 DEF TwoLists
  <1>15. 0 \in Nat /\ Len(PlacesIn(P)) \in Nat /\ 0 + Len(PlacesIn(P)) = Len(PlacesIn(P))
    <2>1. Len(PlacesIn(P)) \in Nat
      BY ONLY <1>12, PlacesAre
    <2>. QED
      BY ONLY <2>1
  <1>16. PlacesIn(N) = PlacesIn(P) \o PlacesIn(L)
    BY ONLY <1>1, <1>14, <1>15, RowsConcat, ZenonT(60)
  <1>17. Rows(N, p, 0) = Rows(P, p, 0) \o Rows(L, p, 0 + Len(PlacesIn(P)))
    BY ONLY <1>1, <1>14, <1>15, RowsConcat, ZenonT(60)
  <1>18. Len(s.posts) = SumTo(C, k)
    <2>1. Len(Rows(P, p, 0)) = Len(P)
      BY ONLY <1>1, <1>12, <1>15, RowsAre
    <2>2. \A h \in 1 .. k : Lens(X)[h] = C[h]
      <3>1. \A h \in 1 .. k : h \in 1 .. m
        BY ONLY <1>8, <1>2
      <3>2. DOMAIN X = 1 .. m
        BY ONLY <1>3, LenProperties
      <3>. QED
        BY ONLY <1>3, <3>1, <3>2 DEF Lens
    <2>3. SumTo(Lens(X), k) = SumTo(C, k)
      BY ONLY <1>8, <2>2, SumToSame
    <2>. QED
      BY ONLY <1>4, <1>12, <2>1, <2>3
  <1>19. R[k + 1] = [offset |-> CountSize + TermRecordSize * m + Len(s.names),
                     length |-> Len(T[k + 1]), df |-> Len(L),
                     start |-> PostingRecordSize * Len(s.posts), bytes |-> PostingRecordSize * Len(L)]
    <2> DEFINE l == [i \in DOMAIN T |-> Len(T[i])]
    <2>1. l = Lens(T)
      BY DEF Lens
    <2>2. DOMAIN T = 1 .. m
      BY ONLY <1>3, <1>6, LenProperties
    <2>3. R[k + 1] = [offset |-> CountSize + TermRecordSize * m + SumTo(l, k),
                      length |-> l[k + 1], df |-> C[k + 1],
                      start |-> PostingRecordSize * SumTo(C, k), bytes |-> PostingRecordSize * C[k + 1]]
      BY ONLY <1>6, <1>8, <2>2 DEF TermRecords
    <2>4. l[k + 1] = Len(T[k + 1])
      BY ONLY <1>8, <2>2
    <2> HIDE DEF l
    <2>. QED
      BY ONLY <1>4, <1>11, <1>13, <1>18, <2>1, <2>3, <2>4
  <1>. QED
    BY <1>4, <1>10, <1>11, <1>15, <1>16, <1>17, <1>19 DEF T, m, R, P, N

-----------------------------------------------------------------------------
(* The documents. *)

\* The paths of documents, and their records from identifier n and byte o on.
PathList(A) == [i \in DOMAIN A |-> A[i].path]
PathBytes(A) == FlattenSeq(PathList(A))
DocRow(doc, n, o) ==
  [id |-> n, live |-> doc.live, tokens |-> Len(doc.text), length |-> Len(doc.path), offset |-> o]
DocRows(A, n, o) == [i \in DOMAIN A |-> DocRow(A[i], n + (i - 1), o + SumTo(Lens(PathList(A)), i - 1))]

\* The paths of a batch, in a row.
LEMMA PathsAre ==
  ASSUME NEW A \in Seq(Documents)
  PROVE  /\ Len(A) \in Nat /\ DOMAIN A = 1 .. Len(A) /\ \A i \in 1 .. Len(A) : A[i] \in Documents
         /\ PathList(A) \in Seq(Seq(Nat)) /\ Len(PathList(A)) = Len(A)
         /\ PathList(A) = [i \in 1 .. Len(A) |-> PathList(A)[i]]
         /\ \A i \in 1 .. Len(A) : /\ PathList(A)[i] = A[i].path
                                   /\ Lens(PathList(A))[i] = Len(A[i].path) /\ Len(A[i].path) \in Nat
         /\ PathBytes(A) \in Seq(Nat) /\ Len(PathBytes(A)) = SumTo(Lens(PathList(A)), Len(A))
         /\ Len(PathBytes(A)) \in Nat
  <1> DEFINE c == Len(A)
             q == PathList(A)
  <1>1. c \in Nat /\ DOMAIN A = 1 .. c
    BY LenProperties
  <1>2. \A i \in 1 .. c : A[i] \in Documents
    BY ElementOfSeq
  <1>3. \A i \in 1 .. c : A[i].path \in Seq(Nat)
    BY ONLY <1>2, DocumentTyped
  <1>4. q = [i \in 1 .. c |-> q[i]] /\ \A i \in 1 .. c : q[i] = A[i].path
    BY <1>1 DEF PathList
  <1> HIDE DEF q, c
  <1>5. q \in Seq(Seq(Nat)) /\ Len(q) = c
    BY ONLY <1>1, <1>3, <1>4, SeqIs
  <1>6. \A i \in 1 .. c : Lens(q)[i] = Len(q[i]) /\ Len(q[i]) \in Nat
    BY ONLY <1>5, LensNat
  <1>7. FlattenSeq(q) \in Seq(Nat) /\ Len(FlattenSeq(q)) = SumTo(Lens(q), Len(q))
    BY ONLY <1>5, FlattenAt
  <1>8. Len(FlattenSeq(q)) \in Nat
    BY ONLY <1>7, LenProperties
  <1>. QED
    BY <1>1, <1>2, <1>4, <1>5, <1>6, <1>7, <1>8 DEF q, c, PathBytes

\* The document records of a batch whose numbers begin at n and whose paths
\* begin at o.
LEMMA DocRowsAre ==
  ASSUME NEW A \in Seq(Documents), NEW n \in Nat, NEW o \in Nat
  PROVE  /\ DocRows(A, n, o) \in Seq(DocumentRow) /\ Len(DocRows(A, n, o)) = Len(A)
         /\ DocRows(A, n, o) = [i \in 1 .. Len(A) |-> DocRows(A, n, o)[i]]
         /\ \A i \in 1 .. Len(A) :
              DocRows(A, n, o)[i] = DocRow(A[i], n + (i - 1), o + SumTo(Lens(PathList(A)), i - 1))
  <1> DEFINE c == Len(A)
             e == Lens(PathList(A))
             R == DocRows(A, n, o)
  <1>1. c \in Nat /\ DOMAIN A = 1 .. c /\ \A i \in 1 .. c : A[i] \in Documents /\ e[i] \in Nat
    BY PathsAre
  <1>2. \A i \in 1 .. c : n + (i - 1) \in Nat /\ o + SumTo(e, i - 1) \in Nat
    <2>1. \A i \in 1 .. c : SumTo(e, i - 1) \in Nat
      BY ONLY <1>1, SumToBound
    <2>2. \A i \in 1 .. c : i - 1 \in Nat
      BY ONLY <1>1
    <2>. QED
      BY ONLY <2>1, <2>2, n \in Nat, o \in Nat
  <1>3. R = [i \in 1 .. c |-> R[i]] /\ \A i \in 1 .. c : R[i] = DocRow(A[i], n + (i - 1), o + SumTo(e, i - 1))
    BY <1>1 DEF DocRows
  <1> HIDE DEF c, e, R
  <1>4. ASSUME NEW doc \in Documents, NEW h \in Nat, NEW g \in Nat PROVE DocRow(doc, h, g) \in DocumentRow
    <2>1. doc.live \in BOOLEAN /\ Len(doc.text) \in Nat /\ doc.path \in Seq(Nat)
      BY DocumentTyped
    <2>2. Len(doc.path) \in Nat
      BY ONLY <2>1, LenProperties
    <2>. QED
      BY ONLY <2>1, <2>2, h \in Nat, g \in Nat DEF DocRow, DocumentRow
  <1>5. \A i \in 1 .. c : R[i] \in DocumentRow
    BY ONLY <1>1, <1>2, <1>3, <1>4
  <1>6. R \in Seq(DocumentRow) /\ Len(R) = c
    BY ONLY <1>1, <1>3, <1>5, SeqIs
  <1>. QED
    BY <1>3, <1>6 DEF R, c, e

\* The records of two batches: those of the second behind the first's.
LEMMA DocRowsConcat ==
  ASSUME NEW A, NEW B, NEW C, TwoBatches(A, B, C)
  PROVE  /\ C \in Seq(Documents)
         /\ PathBytes(C) = PathBytes(A) \o PathBytes(B)
         /\ DocRows(C, 0, 0) = DocRows(A, 0, 0) \o DocRows(B, Len(A), Len(PathBytes(A)))
  <1> DEFINE a == Len(A)
             d == Len(B)
             u == PathList(A)
             v == PathList(B)
             w == PathList(C)
             y == Len(PathBytes(A))
             P == DocRows(A, 0, 0)
             Q == DocRows(B, a, y)
             R == DocRows(C, 0, 0)
  <1>0. A \in Seq(Documents) /\ B \in Seq(Documents) /\ C = A \o B /\ 0 \in Nat
    BY DEF TwoBatches
  <1>1. /\ a \in Nat /\ d \in Nat
        /\ C \in Seq(Documents) /\ Len(C) = a + d
        /\ \A k \in 1 .. a : C[k] = A[k]
        /\ \A k \in 1 .. d : C[a + k] = B[k]
    <2>1. A \in Seq(Documents) /\ B \in Seq(Documents) /\ a = Len(A) /\ d = Len(B) /\ C = A \o B
      BY <1>0
    <2> HIDE DEF a, d
    <2>. QED
      BY ONLY <2>1, ConcatAt
  <1>2. /\ u \in Seq(Seq(Nat)) /\ Len(u) = a
        /\ \A k \in 1 .. a : u[k] = A[k].path /\ Lens(u)[k] = Len(A[k].path) /\ Len(A[k].path) \in Nat
        /\ y = SumTo(Lens(u), a) /\ y \in Nat
    BY <1>0, PathsAre
  <1>3. /\ v \in Seq(Seq(Nat)) /\ Len(v) = d
        /\ \A k \in 1 .. d : v[k] = B[k].path /\ Lens(v)[k] = Len(B[k].path) /\ Len(B[k].path) \in Nat
    BY <1>0, PathsAre
  <1> DEFINE z == a + d
  <1>4. /\ w \in Seq(Seq(Nat)) /\ Len(w) = z /\ w = [k \in 1 .. z |-> w[k]]
        /\ \A k \in 1 .. z : w[k] = C[k].path /\ Lens(w)[k] = Len(C[k].path) /\ Len(C[k].path) \in Nat
    <2> DEFINE c == Len(C)
    <2>1. c = z
      BY <1>1
    <2>2. w \in Seq(Seq(Nat)) /\ Len(w) = c
      BY <1>1, PathsAre
    <2>3. w = [k \in 1 .. c |-> w[k]]
      BY <1>1, PathsAre
    <2>4. \A k \in 1 .. c : w[k] = C[k].path /\ Lens(w)[k] = Len(C[k].path) /\ Len(C[k].path) \in Nat
      BY <1>1, PathsAre
    <2> HIDE DEF c, w, z
    <2>. QED
      BY ONLY <2>1, <2>2, <2>3, <2>4
  <1>5. P \in Seq(DocumentRow) /\ Len(P) = a /\ \A k \in 1 .. a : P[k] = DocRow(A[k], 0 + (k - 1), 0 + SumTo(Lens(u), k - 1))
    BY <1>0, DocRowsAre
  <1>6. Q \in Seq(DocumentRow) /\ Len(Q) = d /\ \A k \in 1 .. d : Q[k] = DocRow(B[k], a + (k - 1), y + SumTo(Lens(v), k - 1))
    BY <1>0, <1>1, <1>2, DocRowsAre, ZenonT(60)
  <1>7. R = [k \in 1 .. z |-> R[k]] /\ \A k \in 1 .. z : R[k] = DocRow(C[k], 0 + (k - 1), 0 + SumTo(Lens(w), k - 1))
    <2> DEFINE c == Len(C)
    <2>1. R = [k \in 1 .. c |-> R[k]]
      BY <1>0, <1>1, DocRowsAre, ZenonT(60)
    <2>2. \A k \in 1 .. c : R[k] = DocRow(C[k], 0 + (k - 1), 0 + SumTo(Lens(w), k - 1))
      BY <1>0, <1>1, DocRowsAre
    <2>3. c = z
      BY <1>1
    <2> HIDE DEF c, R, w, z
    <2>. QED
      BY ONLY <2>1, <2>2, <2>3
  <1>20. z = a + d
    OBVIOUS
  <1> HIDE DEF a, d, u, v, w, y, P, Q, R, z
  <1>8. w = u \o v
    <2>2. \A k \in 1 .. a : w[k] = u[k]
      <3> TAKE k \in 1 .. a
      <3>1. k \in 1 .. z
        BY ONLY <1>1, <1>20
      <3>2. w[k] = C[k].path /\ u[k] = A[k].path /\ C[k] = A[k]
        BY ONLY <1>1, <1>2, <1>4, <3>1
      <3>. QED
        BY ONLY <3>2
    <2>3. \A k \in 1 .. d : w[a + k] = v[k]
      <3> TAKE k \in 1 .. d
      <3>1. a + k \in 1 .. z
        BY ONLY <1>1, <1>20
      <3>2. w[a + k] = C[a + k].path /\ v[k] = B[k].path /\ C[a + k] = B[k]
        BY ONLY <1>1, <1>3, <1>4, <3>1
      <3>. QED
        BY ONLY <3>2
    <2>4. JoinOf(Seq(Nat), u, v, w)
      BY ONLY <1>2, <1>3, <1>4, <1>20, <2>2, <2>3 DEF JoinOf
    <2>. QED
      BY ONLY <2>4, ConcatIs
  <1>9. FlattenSeq(w) = FlattenSeq(u) \o FlattenSeq(v)
    BY ONLY <1>2, <1>3, <1>8, FlattenConcat
  <1>14. \A h \in 1 .. a : Lens(w)[h] = Lens(u)[h]
    <2> TAKE h \in 1 .. a
    <2>1. h \in 1 .. z
      BY ONLY <1>1, <1>20
    <2>2. Lens(w)[h] = Len(C[h].path) /\ Lens(u)[h] = Len(A[h].path) /\ C[h] = A[h]
      BY ONLY <1>1, <1>2, <1>4, <2>1
    <2>. QED
      BY ONLY <2>2
  <1>15. \A h \in 1 .. d : Lens(v)[h] = Lens(w)[a + h]
    <2> TAKE h \in 1 .. d
    <2>1. a + h \in 1 .. z
      BY ONLY <1>1, <1>20
    <2>2. Lens(w)[a + h] = Len(C[a + h].path) /\ Lens(v)[h] = Len(B[h].path) /\ C[a + h] = B[h]
      BY ONLY <1>1, <1>3, <1>4, <2>1
    <2>. QED
      BY ONLY <2>2
  <1>10. ASSUME NEW k \in 1 .. a PROVE R[k] = P[k]
    <2>1. k \in 1 .. z /\ k - 1 \in Nat /\ \A h \in 1 .. (k - 1) : h \in 1 .. a
      BY ONLY <1>1, <1>20
    <2>2. \A h \in 1 .. (k - 1) : Lens(w)[h] = Lens(u)[h]
      BY ONLY <1>14, <2>1
    <2>3. SumTo(Lens(w), k - 1) = SumTo(Lens(u), k - 1)
      BY ONLY <2>1, <2>2, SumToSame
    <2>. QED
      BY ONLY <1>1, <1>5, <1>7, <2>1, <2>3
  <1>11. ASSUME NEW k \in 1 .. d PROVE R[a + k] = Q[k]
    <2> DEFINE j == k - 1
    <2>1. /\ a + k \in 1 .. z /\ (a + k) - 1 = a + j /\ j \in Nat /\ 0 + (a + j) = a + j
          /\ \A h \in 1 .. (a + j) : h \in 1 .. z
          /\ \A h \in 1 .. j : h \in 1 .. d
      BY ONLY <1>1, <1>20
    <2>4. k - 1 = j
      OBVIOUS
    <2> HIDE DEF j
    <2>3. \A h \in 1 .. j : Lens(v)[h] = Lens(w)[a + h]
      BY ONLY <1>15, <2>1
    <2>5. \A h \in 1 .. (a + j) : Lens(w)[h] \in Nat
      BY ONLY <1>4, <2>1
    <2>6. SumTo(Lens(w), a + j) = SumTo(Lens(w), a) + SumTo(Lens(v), j)
      <3>1. Continues(Lens(w), Lens(v), a, j)
        BY ONLY <1>1, <2>1, <2>3, <2>5 DEF Continues
      <3>. QED
        BY ONLY <3>1, SumContinues
    <2>7. SumTo(Lens(w), a) = y
      <3>1. a \in Nat
        BY ONLY <1>1
      <3>2. SumTo(Lens(w), a) = SumTo(Lens(u), a)
        BY ONLY <3>1, <1>14, SumToSame
      <3>. QED
        BY ONLY <1>2, <3>2
    <2>8. SumTo(Lens(v), j) \in Nat
      <3>1. \A h \in 1 .. j : Lens(v)[h] \in Nat
        BY ONLY <1>3, <2>1
      <3>. QED
        BY ONLY <2>1, <3>1, SumToNat
    <2>9. 0 + SumTo(Lens(w), a + j) = y + SumTo(Lens(v), j)
      BY ONLY <2>6, <2>7, <2>8, <1>2
    <2>10. C[a + k] = B[k]
      BY ONLY <1>1
    <2>11. R[a + k] = DocRow(C[a + k], 0 + (a + j), 0 + SumTo(Lens(w), a + j))
      BY ONLY <1>7, <2>1
    <2>12. Q[k] = DocRow(B[k], a + j, y + SumTo(Lens(v), j))
      BY ONLY <1>6, <2>4
    <2>. QED
      BY ONLY <2>1, <2>9, <2>10, <2>11, <2>12
  <1>12. JoinOf(DocumentRow, P, Q, R)
    BY ONLY <1>5, <1>6, <1>7, <1>10, <1>11, <1>20 DEF JoinOf
  <1>13. R = P \o Q
    BY ONLY <1>12, ConcatIs
  <1>. QED
    BY <1>1, <1>9, <1>13 DEF R, P, Q, u, v, w, y, a, PathBytes

\* The document table of a batch, and the bytes of its paths.
LEMMA RecordsOfBuilt ==
  ASSUME NEW A \in Seq(Documents), NEW p \in BOOLEAN
  PROVE  /\ DocumentRecords(Build(A, p).docs) = DocRows(A, 0, 0)
         /\ FlattenSeq(PathsOf(Build(A, p))) = PathBytes(A)
  <1> DEFINE n == Len(A)
             D == Build(A, p).docs
             q == PathList(A)
             l == [j \in DOMAIN D |-> Len(D[j].path)]
             R == DocRows(A, 0, 0)
             X == DocumentRecords(D)
             P == PathsOf(Build(A, p))
  <1>1. D = [i \in 1 .. n |-> BuiltDoc(A[i])] /\ n \in Nat
    BY BuiltIndex, LenProperties
  <1>2. /\ q = [i \in 1 .. n |-> q[i]]
        /\ \A i \in 1 .. n : q[i] = A[i].path /\ Lens(q)[i] = Len(A[i].path) /\ Len(A[i].path) \in Nat
    BY PathsAre
  <1>3. R = [i \in 1 .. n |-> R[i]] /\ \A i \in 1 .. n : R[i] = DocRow(A[i], 0 + (i - 1), 0 + SumTo(Lens(q), i - 1))
    <2>1. 0 \in Nat
      OBVIOUS
    <2>2. R = [i \in 1 .. n |-> R[i]]
      BY <2>1, DocRowsAre
    <2>3. \A i \in 1 .. n : R[i] = DocRow(A[i], 0 + (i - 1), 0 + SumTo(Lens(q), i - 1))
      BY <2>1, DocRowsAre
    <2>. QED
      BY ONLY <2>2, <2>3
  <1>4. P = [i \in DOMAIN D |-> D[i].path] /\ q = PathList(A) /\ PathBytes(A) = FlattenSeq(q)
    BY DEF PathsOf, PathBytes
  <1>5. X = DocumentRecords(D)
    OBVIOUS
  <1> HIDE DEF D, n, q, R, X, P
  <1>6. DOMAIN D = 1 .. n
    BY ONLY <1>1
  <1>7. ASSUME NEW i \in 1 .. n
        PROVE  D[i].path = A[i].path /\ D[i].live = A[i].live /\ D[i].tokens = Len(A[i].text)
    <2> DEFINE e == D[i]
    <2>1. e = [path |-> A[i].path, live |-> A[i].live, tokens |-> Len(A[i].text)]
      BY ONLY <1>1 DEF BuiltDoc
    <2> HIDE DEF e
    <2>2. e.path = A[i].path /\ e.live = A[i].live /\ e.tokens = Len(A[i].text)
      BY ONLY <2>1
    <2>. QED
      BY ONLY <2>2 DEF e
  <1>8. \A i \in 1 .. n : l[i] = Lens(q)[i] /\ l[i] = Len(A[i].path)
    BY ONLY <1>2, <1>6, <1>7
  <1>9. \A i \in 1 .. n : X[i] = [id |-> i - 1, live |-> D[i].live, tokens |-> D[i].tokens,
                                  length |-> Len(D[i].path), offset |-> SumTo(l, i - 1)]
    BY ONLY <1>5, <1>6 DEF DocumentRecords
  <1>10. X = [i \in 1 .. n |-> X[i]]
    BY ONLY <1>5, <1>6 DEF DocumentRecords
  <1>11. P = [i \in 1 .. n |-> P[i]] /\ \A i \in 1 .. n : P[i] = D[i].path
    BY ONLY <1>4, <1>6
  <1> HIDE DEF l
  <1>12. ASSUME NEW i \in 1 .. n PROVE X[i] = R[i]
    <2>1. i - 1 \in Nat /\ (i - 1) \in 0 .. n /\ \A h \in 1 .. (i - 1) : h \in 1 .. n
      BY ONLY <1>1
    <2>2. SumTo(l, i - 1) = SumTo(Lens(q), i - 1)
      BY ONLY <1>8, <2>1, SumToSame
    <2>3. SumTo(Lens(q), i - 1) \in Nat
      <3>1. \A h \in 1 .. (i - 1) : Lens(q)[h] \in Nat
        BY ONLY <1>2, <2>1
      <3>. QED
        BY ONLY <2>1, <3>1, SumToNat
    <2>4. 0 + (i - 1) = i - 1 /\ 0 + SumTo(Lens(q), i - 1) = SumTo(Lens(q), i - 1)
      BY ONLY <2>1, <2>3
    <2>5. R[i] = [id |-> i - 1, live |-> A[i].live, tokens |-> Len(A[i].text),
                  length |-> Len(A[i].path), offset |-> SumTo(Lens(q), i - 1)]
      BY ONLY <1>3, <2>4 DEF DocRow
    <2>6. X[i] = [id |-> i - 1, live |-> D[i].live, tokens |-> D[i].tokens,
                  length |-> Len(D[i].path), offset |-> SumTo(l, i - 1)]
      BY ONLY <1>9
    <2>. QED
      BY ONLY <1>7, <2>2, <2>5, <2>6
  <1>13. X = R
    BY ONLY <1>3, <1>10, <1>12
  <1>14. ASSUME NEW i \in 1 .. n PROVE P[i] = q[i]
    BY ONLY <1>2, <1>7, <1>11
  <1>15. P = q
    BY ONLY <1>2, <1>11, <1>14
  <1>. QED
    BY <1>4, <1>13, <1>15 DEF X, D, R, P

-----------------------------------------------------------------------------
(* What merge_documents copies of one source, its paths placed from byte n on. *)

CopiedDocs(i, n) ==
  LET f == files[i] IN
    [k \in DOMAIN f.docs |->
       [f.docs[k] EXCEPT !.id = Base(i) + f.docs[k].id,
          !.offset = n + SumTo([j \in DOMAIN f.docs |-> f.docs[j].length], k - 1)]]
CopiedBytes(i) == LET f == files[i] IN FlattenSeq([k \in DOMAIN f.docs |-> PathAt(f, f.docs[k])])

\* What the merge copies of a source is what it would write of its documents
\* at their place among all.
LEMMA SourceCopied ==
  ASSUME NEW b, NEW p, WrittenAs(b, p), NEW i \in 1 .. Len(b), NEW n \in Nat
  PROVE  /\ CopiedDocs(i, n) = DocRows(b[i], Base(i), n)
         /\ CopiedBytes(i) = PathBytes(b[i])
  <1> DEFINE A == b[i]
             f == files[i]
             ix == Build(A, p)
             c == Len(A)
             B == Base(i)
             e == Lens(PathList(A))
             l == [j \in DOMAIN f.docs |-> f.docs[j].length]
             R == DocRows(A, 0, 0)
             Q == DocRows(A, B, n)
             X == CopiedDocs(i, n)
             Y == [k \in DOMAIN f.docs |-> PathAt(f, f.docs[k])]
  <1>1. A \in Seq(Documents) /\ f = Write(ix) /\ p \in BOOLEAN
    BY FilesAre DEF WrittenAs
  <1>2. B \in Nat /\ 0 \in Nat
    BY BaseIs
  <1>3. ix \in Index /\ Good(ix)
    BY <1>1, BuiltIndex, BuildGood
  <1>4. f.docs = R
    <2>1. f.docs = DocumentRecords(ix.docs)
      BY ONLY <1>1, <1>3, WrittenFile
    <2>2. DocumentRecords(ix.docs) = R
      BY <1>1, RecordsOfBuilt
    <2>. QED
      BY ONLY <2>1, <2>2
  <1>5. LoadedDocs(f) = ix.docs
    BY ONLY <1>1, <1>3, DocsReadBack
  <1>6. FlattenSeq(PathsOf(ix)) = PathBytes(A)
    BY <1>1, RecordsOfBuilt
  <1>7. c \in Nat /\ DOMAIN A = 1 .. c /\ \A h \in 1 .. c : e[h] = Len(A[h].path) /\ e[h] \in Nat
    BY <1>1, PathsAre
  <1>8. R = [h \in 1 .. c |-> R[h]] /\ \A h \in 1 .. c : R[h] = DocRow(A[h], 0 + (h - 1), 0 + SumTo(e, h - 1))
    <2>1. R = [h \in 1 .. c |-> R[h]]
      BY <1>1, <1>2, DocRowsAre
    <2>2. \A h \in 1 .. c : R[h] = DocRow(A[h], 0 + (h - 1), 0 + SumTo(e, h - 1))
      BY <1>1, <1>2, DocRowsAre
    <2>. QED
      BY ONLY <2>1, <2>2
  <1>9. Q = [h \in 1 .. c |-> Q[h]] /\ \A h \in 1 .. c : Q[h] = DocRow(A[h], B + (h - 1), n + SumTo(e, h - 1))
    <2>1. Q = [h \in 1 .. c |-> Q[h]]
      BY <1>1, <1>2, DocRowsAre
    <2>2. \A h \in 1 .. c : Q[h] = DocRow(A[h], B + (h - 1), n + SumTo(e, h - 1))
      BY <1>1, <1>2, DocRowsAre
    <2>. QED
      BY ONLY <2>1, <2>2
  <1>10. X = [k \in DOMAIN f.docs |-> [f.docs[k] EXCEPT !.id = B + f.docs[k].id, !.offset = n + SumTo(l, k - 1)]]
    BY DEF CopiedDocs
  <1>11. CopiedBytes(i) = FlattenSeq(Y)
    BY DEF CopiedBytes
  <1> HIDE DEF A, f, ix, c, B, e, R, Q, X
  <1>12. DOMAIN f.docs = 1 .. c
    BY ONLY <1>4, <1>8
  <1>13. X = [k \in 1 .. c |-> X[k]]
    BY ONLY <1>10, <1>12
  <1>14. \A k \in 1 .. c : X[k] = [f.docs[k] EXCEPT !.id = B + f.docs[k].id, !.offset = n + SumTo(l, k - 1)]
    BY ONLY <1>10, <1>12
  <1>15. \A k \in 1 .. c : f.docs[k] = DocRow(A[k], 0 + (k - 1), 0 + SumTo(e, k - 1))
    BY ONLY <1>4, <1>8
  <1>16. \A k \in 1 .. c : l[k] = e[k]
    <2> TAKE k \in 1 .. c
    <2> DEFINE r == f.docs[k]
    <2>1. r = DocRow(A[k], 0 + (k - 1), 0 + SumTo(e, k - 1))
      BY ONLY <1>15
    <2>3. l[k] = r.length
      BY ONLY <1>12
    <2> HIDE DEF r
    <2>2. r.length = Len(A[k].path)
      BY ONLY <2>1 DEF DocRow
    <2>. QED
      BY ONLY <1>7, <2>2, <2>3
  <1> HIDE DEF l
  <1>17. ASSUME NEW k \in 1 .. c PROVE X[k] = Q[k]
    <2> DEFINE r == f.docs[k]
               g == SumTo(l, k - 1)
    <2>1. k - 1 \in Nat /\ 0 + (k - 1) = k - 1 /\ \A h \in 1 .. (k - 1) : h \in 1 .. c
      BY ONLY <1>7
    <2>2. g = SumTo(e, k - 1)
      BY ONLY <1>16, <2>1, SumToSame
    <2>3. r = DocRow(A[k], k - 1, 0 + SumTo(e, k - 1))
      BY ONLY <1>15, <2>1
    <2>4. X[k] = [r EXCEPT !.id = B + r.id, !.offset = n + g]
      BY ONLY <1>14
    <2>5. Q[k] = DocRow(A[k], B + (k - 1), n + SumTo(e, k - 1))
      BY ONLY <1>9
    <2> HIDE DEF r, g
    <2>. QED
      BY ONLY <2>2, <2>3, <2>4, <2>5 DEF DocRow
  <1>18. X = Q
    BY ONLY <1>9, <1>13, <1>17
  <1>19. Y = PathsOf(ix)
    <2> DEFINE D == ix.docs
               L == LoadedDocs(f)
               P == PathsOf(ix)
    <2>1. P = [h \in DOMAIN D |-> D[h].path]
      BY DEF PathsOf
    <2>2. DOMAIN L = 1 .. c
      BY ONLY <1>12 DEF LoadedDocs
    <2>3. L = D
      BY ONLY <1>5
    <2>4. \A h \in 1 .. c : L[h] = [path |-> PathAt(f, f.docs[h]), live |-> f.docs[h].live, tokens |-> f.docs[h].tokens]
      BY ONLY <1>12 DEF LoadedDocs
    <2>5. \A h \in 1 .. c : L[h].path = PathAt(f, f.docs[h])
      <3> TAKE h \in 1 .. c
      <3> DEFINE r == L[h]
      <3>1. r = [path |-> PathAt(f, f.docs[h]), live |-> f.docs[h].live, tokens |-> f.docs[h].tokens]
        BY ONLY <2>4
      <3> HIDE DEF r
      <3>2. r.path = PathAt(f, f.docs[h])
        BY ONLY <3>1
      <3>. QED
        BY ONLY <3>2 DEF r
    <2> HIDE DEF D, L, P
    <2>6. P = [h \in 1 .. c |-> L[h].path]
      BY ONLY <2>1, <2>2, <2>3
    <2>. QED
      BY ONLY <1>12, <2>5, <2>6 DEF P
  <1>. QED
    BY <1>6, <1>11, <1>18, <1>19 DEF X, Q, A, B

\* The spool s holds the documents of the first n batches.
DocsCopied(s, b, n) ==
  /\ s.docs = DocRows(FlattenSeq(Upto(b, n)), 0, 0)
  /\ s.paths = PathBytes(FlattenSeq(Upto(b, n)))

\* Before the first source nothing is copied.
LEMMA NoDocs ==
  ASSUME NEW b \in Seq(Seq(Documents))
  PROVE  DocRows(FlattenSeq(Upto(b, 0)), 0, 0) = <<>> /\ PathBytes(FlattenSeq(Upto(b, 0))) = <<>>
  <1> DEFINE A == FlattenSeq(Upto(b, 0))
             e == <<>>
  <1>1. A = e
    BY FlattenNext
  <1>2. e \in Seq(Documents) /\ e \in Seq(Seq(Nat)) /\ Len(e) = 0 /\ FlattenSeq(e) = e
    <2>1. e \in Seq(Documents) /\ e \in Seq(Seq(Nat)) /\ Len(e) = 0
      OBVIOUS
    <2>2. FlattenSeq(e) = e
      <3>1. Upto(b, 0) = e
        BY UptoZero
      <3>. QED
        BY <1>1, <3>1
    <2>. QED
      BY <2>1, <2>2
  <1>3. DOMAIN e = {}
    OBVIOUS
  <1>4. \A f : DOMAIN f = {} /\ f = [i \in {} |-> f[i]] => f = e
    OBVIOUS
  <1> HIDE DEF e
  <1>5. PathList(e) = e
    BY ONLY <1>3, <1>4 DEF PathList
  <1>6. DocRows(e, 0, 0) = e
    BY ONLY <1>3, <1>4 DEF DocRows
  <1>7. PathBytes(e) = e
    BY ONLY <1>2, <1>5 DEF PathBytes
  <1>. QED
    BY <1>1, <1>6, <1>7 DEF e

\* Copying the next source copies the documents of one more batch.
LEMMA NextDocsCopied ==
  ASSUME NEW b, NEW p, WrittenAs(b, p), NEW n \in 0 .. Len(b), n < Len(b), NEW s, DocsCopied(s, b, n)
  PROVE  /\ n + 1 \in 1 .. Len(b) /\ Len(s.paths) \in Nat
         /\ DocRows(FlattenSeq(Upto(b, n + 1)), 0, 0) = s.docs \o CopiedDocs(n + 1, Len(s.paths))
         /\ PathBytes(FlattenSeq(Upto(b, n + 1))) = s.paths \o CopiedBytes(n + 1)
  <1> DEFINE A == FlattenSeq(Upto(b, n))
             C == FlattenSeq(Upto(b, n + 1))
             B == b[n + 1]
             y == Len(PathBytes(A))
  <1>1. b \in Seq(Seq(Documents)) /\ n \in 0 .. Len(b) /\ n < Len(b)
    BY DEF WrittenAs
  <1>2. n + 1 \in 1 .. Len(b) /\ B \in Seq(Documents) /\ C = A \o B
    BY ONLY <1>1, FlattenNext
  <1>3. A \in Seq(Documents) /\ Len(A) = SumTo(Lens(b), n)
    BY ONLY <1>1, FlattenNext
  <1>4. s.docs = DocRows(A, 0, 0) /\ s.paths = PathBytes(A)
    BY DEF DocsCopied
  <1>5. n \in Nat /\ (n + 1) - 1 = n
    BY ONLY <1>1
  <1>6. Base(n + 1) = Len(A)
    <2>1. Base(n + 1) = SumTo(Lens(b), (n + 1) - 1)
      BY <1>2, BaseIs
    <2>. QED
      BY <1>3, <1>5, <2>1
  <1>7. y \in Nat
    BY <1>3, PathsAre
  <1>8. CopiedDocs(n + 1, y) = DocRows(B, Base(n + 1), y) /\ CopiedBytes(n + 1) = PathBytes(B)
    BY <1>2, <1>7, SourceCopied
  <1>9. TwoBatches(A, B, C)
    BY <1>2, <1>3 DEF TwoBatches
  <1>10. /\ PathBytes(C) = PathBytes(A) \o PathBytes(B)
         /\ DocRows(C, 0, 0) = DocRows(A, 0, 0) \o DocRows(B, Len(A), Len(PathBytes(A)))
    BY ONLY <1>9, DocRowsConcat
  <1> HIDE DEF A, B, C
  <1>. QED
    BY <1>2, <1>4, <1>6, <1>7, <1>8, <1>10 DEF A, C

\* A spool that holds all documents and all terms is the file of one batch.
LEMMA AssembledIs ==
  ASSUME NEW b, NEW p, WrittenAs(b, p), Len(b) # 0, NEW s, DocsCopied(s, b, Len(b)),
         TermsCopied(s, b, p, Len(AllTerms(b)))
  PROVE  WithHeader([flags |-> files[1].flags, docs |-> s.docs, paths |-> s.paths,
                     terms |-> s.terms, names |-> s.names, posts |-> s.posts, places |-> s.places])
           = Write(OneBatch(b, p))
  <1> DEFINE ix == OneBatch(b, p)
             F == FlattenSeq(b)
             T == AllTerms(b)
             m == Len(T)
             X == AllLists(b, p)
             all == FlattenSeq(X)
             R == AllRecords(b, p)
  <1>1. b \in Seq(Seq(Documents)) /\ p \in BOOLEAN /\ Len(b) \in Nat /\ \A i \in 1 .. Len(b) : files[i].flags = p
    BY FilesAre, ZenonT(60) DEF WrittenAs
  <1>2. files[1].flags = p
    BY ONLY <1>1, Len(b) # 0
  <1>3. Upto(b, Len(b)) = b
    BY ONLY <1>1, UptoAll
  <1>4. F \in Seq(Documents)
    BY ONLY <1>1, FlattenAt
  <1>5. s.docs = DocRows(F, 0, 0) /\ s.paths = PathBytes(F)
    BY <1>3 DEF DocsCopied
  <1>6. ix = Build(F, p)
    BY DEF OneBatch
  <1>7. s.docs = DocumentRecords(ix.docs) /\ s.paths = FlattenSeq(PathsOf(ix))
    <2>1. DocumentRecords(Build(F, p).docs) = DocRows(F, 0, 0) /\ FlattenSeq(PathsOf(Build(F, p))) = PathBytes(F)
      BY ONLY <1>1, <1>4, RecordsOfBuilt
    <2>. QED
      BY ONLY <1>5, <1>6, <2>1
  <1>8. /\ ix \in Index /\ Good(ix) /\ ix.positions = p /\ m \in Nat /\ T \in Seq(Seq(Nat)) /\ TermsOf(ix) = T
        /\ X \in Seq(Seq(Posting)) /\ Len(X) = m
        /\ \A h \in 1 .. m : CountsOf(ix)[h] \in Nat
    BY <1>1, WholeIs
  <1>9. X = ListsOf(ix)
    BY DEF AllLists
  <1>10. R = TermRecords(T, CountsOf(ix))
    BY DEF AllRecords
  <1>11. /\ s.terms = Upto(R, m) /\ s.names = FlattenSeq(Upto(T, m))
         /\ s.posts = Rows(ListsUpto(b, p, m), p, 0) /\ s.places = PlacesIn(ListsUpto(b, p, m))
    BY DEF TermsCopied
  <1>12. ListsUpto(b, p, m) = FlattenSeq(Upto(X, m))
    BY DEF ListsUpto
  <1>20. m = Len(T) /\ all = FlattenSeq(X)
    OBVIOUS
  <1> HIDE DEF ix, F, T, m, X, all, R
  <1>13. Upto(T, m) = T /\ Upto(X, m) = X
    <2>1. Upto(T, m) = T
      BY ONLY <1>8, <1>20, UptoAll
    <2>2. Upto(X, m) = X
      BY ONLY <1>8, UptoAll
    <2>. QED
      BY ONLY <2>1, <2>2
  <1>14. Upto(R, m) = R
    <2>1. DOMAIN T = 1 .. m
      BY ONLY <1>8, <1>20, LenProperties
    <2>2. R = [i \in 1 .. m |-> R[i]]
      BY ONLY <1>10, <2>1 DEF TermRecords
    <2>. QED
      BY ONLY <2>2 DEF Upto
  <1>15. all = AllOf(ix) /\ all \in Seq(Posting)
    <2>1. all \in Seq(Posting)
      BY ONLY <1>8, <1>20, FlattenAt
    <2>. QED
      BY ONLY <1>9, <1>20, <2>1 DEF AllOf
  <1>16. Fits(all, p)
    <2>1. \A h \in 1 .. Len(all) : Len(all[h].positions) = IF p THEN all[h].freq ELSE 0
      <3> TAKE h \in 1 .. Len(all)
      <3>1. PICK i \in 1 .. Len(X) : \E j \in 1 .. Len(X[i]) : h = SumTo(Lens(X), i - 1) + j /\ all[h] = X[i][j]
        <4>1. \E i \in 1 .. Len(X) : \E j \in 1 .. Len(X[i]) :
                h = SumTo(Lens(X), i - 1) + j /\ FlattenSeq(X)[h] = X[i][j]
          <5>1. h \in 1 .. Len(FlattenSeq(X))
            BY ONLY <1>20, h \in 1 .. Len(all)
          <5>. QED
            BY ONLY <1>8, <5>1, FlattenMember
        <4>. QED
          BY ONLY <1>20, <4>1
      <3>2. PICK j \in 1 .. Len(X[i]) : all[h] = X[i][j]
        BY ONLY <3>1
      <3>3. Len(ix.postings) = m
        <4>1. Len(ListsOf(ix)) = Len(ix.postings)
          BY ONLY <1>8, IndexParts
        <4>. QED
          BY ONLY <1>8, <1>9, <4>1
      <3>4. X[i] = ix.postings[i].list /\ i \in 1 .. Len(ix.postings)
        <4>1. i \in 1 .. Len(ix.postings)
          BY ONLY <1>8, <3>3
        <4>2. ListsOf(ix)[i] = ix.postings[i].list
          BY ONLY <1>8, <4>1, IndexParts
        <4>. QED
          BY ONLY <1>9, <4>1, <4>2
      <3>5. \A k \in 1 .. Len(ix.postings[i].list) :
               Len(ix.postings[i].list[k].positions) = IF ix.positions THEN ix.postings[i].list[k].freq ELSE 0
        BY ONLY <1>8, <3>4 DEF Good
      <3>. QED
        BY ONLY <1>8, <3>2, <3>4, <3>5
    <2>. QED
      BY <1>15, <2>1 DEF Fits
  <1>17. PostingRecords(all, p) = Rows(all, p, 0)
    BY ONLY <1>1, <1>16, PostingRecordsAre
  <1>18. PlacesIn(all) = FlattenSeq([k \in DOMAIN all |-> all[k].positions])
    BY ONLY TRUE DEF PlacesIn, PositionsOf
  <1>19. Write(ix) = WithHeader([flags |-> ix.positions, docs |-> DocumentRecords(ix.docs),
            paths |-> FlattenSeq(PathsOf(ix)),
            terms |-> TermRecords(TermsOf(ix), CountsOf(ix)), names |-> FlattenSeq(TermsOf(ix)),
            posts |-> PostingRecords(all, ix.positions),
            places |-> FlattenSeq([k \in DOMAIN all |-> all[k].positions])])
    BY ONLY <1>9, <1>20, WriteIs
  <1>21. /\ s.terms = TermRecords(TermsOf(ix), CountsOf(ix)) /\ s.names = FlattenSeq(TermsOf(ix))
         /\ s.posts = PostingRecords(all, ix.positions)
         /\ s.places = FlattenSeq([k \in DOMAIN all |-> all[k].positions])
         /\ files[1].flags = ix.positions
    BY ONLY <1>2, <1>8, <1>10, <1>11, <1>12, <1>13, <1>14, <1>17, <1>18, <1>20
  <1>. QED
    BY <1>7, <1>19, <1>21 DEF ix

\* A spool is the record of its six parts.
IsSpool(s) ==
  s = [docs |-> s.docs, paths |-> s.paths, terms |-> s.terms, names |-> s.names,
       posts |-> s.posts, places |-> s.places]

\* Nothing of the terms is in an empty spool.
LEMMA NoTerms ==
  ASSUME NEW b \in Seq(Seq(Documents)), NEW p \in BOOLEAN
  PROVE  TermsCopied(Empty, b, p, 0) /\ DocsCopied(Empty, b, 0) /\ IsSpool(Empty)
  <1> DEFINE e == <<>>
             X == AllLists(b, p)
             T == AllTerms(b)
  <1>1. /\ Empty.docs = e /\ Empty.paths = e /\ Empty.terms = e /\ Empty.names = e /\ Empty.posts = e
        /\ Empty.places = e /\ IsSpool(Empty)
    BY DEF Empty, IsSpool
  <1>2. DocRows(FlattenSeq(Upto(b, 0)), 0, 0) = e /\ PathBytes(FlattenSeq(Upto(b, 0))) = e
    BY NoDocs
  <1>3. PlacesIn(e) = e /\ Rows(e, p, 0) = e
    BY RowsEmpty
  <1>4. X \in Seq(Seq(Posting)) /\ T \in Seq(Seq(Nat))
    BY WholeIs
  <1>5. Upto(AllRecords(b, p), 0) = e
    BY UptoZero
  <1> HIDE DEF e
  <1>6. FlattenSeq(Upto(T, 0)) = e
    <2>1. FlattenSeq(Upto(T, 0)) = <<>>
      BY <1>4, FlattenNext
    <2>. QED
      BY <2>1 DEF e
  <1>7. ListsUpto(b, p, 0) = e
    <2>1. FlattenSeq(Upto(X, 0)) = <<>>
      BY <1>4, FlattenNext
    <2>. QED
      BY <2>1 DEF e, ListsUpto
  <1> HIDE DEF X
  <1>8. TermsCopied(Empty, b, p, 0)
    BY <1>1, <1>3, <1>5, <1>6, <1>7 DEF TermsCopied
  <1>9. DocsCopied(Empty, b, 0)
    BY <1>1, <1>2 DEF DocsCopied
  <1>. QED
    BY <1>1, <1>8, <1>9

\* A step of merge_documents.
LEMMA CopyDocumentsIs ==
  ASSUME NEW b, NEW p, WrittenAs(b, p), CopyDocuments, source \in 1 .. (Len(b) + 1),
         DocsCopied(spool, b, source - 1), TermsCopied(spool, b, p, 0), IsSpool(spool)
  PROVE  /\ source' \in 1 .. (Len(b) + 1) /\ DocsCopied(spool', b, source' - 1)
         /\ TermsCopied(spool', b, p, 0) /\ IsSpool(spool')
  <1> DEFINE n == source - 1
             X == CopiedDocs(source, Len(spool.paths))
             Y == CopiedBytes(source)
  <1>1. Len(files) = Len(b) /\ Len(b) \in Nat
    BY FilesAre
  <1>2. source <= Len(files) /\ source' = source + 1
    BY DEF CopyDocuments
  <1>3. spool' = [spool EXCEPT !.docs = @ \o X, !.paths = @ \o Y]
    BY DEF CopyDocuments, CopiedDocs, CopiedBytes
  <1>4. n \in 0 .. Len(b) /\ n < Len(b) /\ n + 1 = source /\ source' \in 1 .. (Len(b) + 1) /\ source' - 1 = n + 1
    BY ONLY <1>1, <1>2, source \in 1 .. (Len(b) + 1)
  <1>5. DocsCopied(spool, b, n)
    OBVIOUS
  <1> HIDE DEF n
  <1>6. /\ DocRows(FlattenSeq(Upto(b, n + 1)), 0, 0) = spool.docs \o X
        /\ PathBytes(FlattenSeq(Upto(b, n + 1))) = spool.paths \o Y
    BY <1>4, <1>5, NextDocsCopied
  <1> HIDE DEF X, Y
  <1>7. /\ spool'.docs = spool.docs \o X /\ spool'.paths = spool.paths \o Y
        /\ spool'.terms = spool.terms /\ spool'.names = spool.names /\ spool'.posts = spool.posts
        /\ spool'.places = spool.places /\ IsSpool(spool')
    BY ONLY <1>3, IsSpool(spool) DEF IsSpool
  <1>8. DocsCopied(spool', b, source' - 1)
    BY ONLY <1>4, <1>6, <1>7 DEF DocsCopied
  <1>9. TermsCopied(spool', b, p, 0)
    BY ONLY <1>7, TermsCopied(spool, b, p, 0) DEF TermsCopied
  <1>. QED
    BY ONLY <1>4, <1>7, <1>8, <1>9

\* The cursors move from one term to the next.
LEMMA CursorsMove ==
  ASSUME NEW b, NEW p, NEW k, CursorsAt(b, p, k), ~ WalkEnds, at' = Advanced, files' = files
  PROVE  CursorsAt(b, p, k + 1)'
  <1>1. k # Len(AllTerms(b))
    BY WalkEndIs
  <1>2. Walked(TermTables(b), AllTerms(b), Len(b), Advanced, k + 1) /\ WrittenAs(b, p)
    BY <1>1, WalkStepIs
  <1>3. WrittenAs(b, p)'
    BY <1>2 DEF WrittenAs
  <1>. QED
    BY <1>2, <1>3 DEF CursorsAt

\* And back to the first.
LEMMA CursorsBegin ==
  ASSUME NEW b, NEW p, WrittenAs(b, p)', \A i \in 1 .. Len(b) : at'[i] = 0
  PROVE  CursorsAt(b, p, 0)'
  <1>1. b \in Seq(Seq(Documents))
    BY DEF WrittenAs
  <1>2. Table(TermTables(b), AllTerms(b), Len(b))
    BY <1>1, TableBuilt
  <1>3. Walked(TermTables(b), AllTerms(b), Len(b), at', 0)
    BY <1>2, WalkBegins
  <1>. QED
    BY <1>3 DEF CursorsAt

\* A step of the second walk.
LEMMA CopyTermIs ==
  ASSUME NEW b, NEW p, NEW k, CursorsAt(b, p, k), CopyTerm, count = Len(AllTerms(b)),
         TermsCopied(spool, b, p, k), IsSpool(spool)
  PROVE  /\ CursorsAt(b, p, k + 1)' /\ TermsCopied(spool', b, p, k + 1) /\ IsSpool(spool')
         /\ spool'.docs = spool.docs /\ spool'.paths = spool.paths
  <1> DEFINE x == AllTerms(b)[k + 1]
             L == PostingList(FlattenSeq(b), p, x)
             n == Len(spool.places)
             r == [offset |-> CountSize + TermRecordSize * count + Len(spool.names),
                   length |-> Len(LeastTerm), df |-> Sum(GroupCounts),
                   start |-> PostingRecordSize * Len(spool.posts),
                   bytes |-> PostingRecordSize * Sum(GroupCounts)]
             before == [g \in DOMAIN Group |->
                          n + SumTo([h \in DOMAIN GroupParts |-> Len(GroupParts[h])], g - 1)]
  <1>1. ~ WalkEnds /\ at' = Advanced /\ files' = files
    BY DEF CopyTerm
  <1>2. CursorsAt(b, p, k + 1)'
    BY <1>1, CursorsMove
  <1>3. k # Len(AllTerms(b))
    BY <1>1, WalkEndIs
  <1>4. LeastTerm = x
    BY <1>3, WalkStepIs
  <1>5. /\ Upto(AllRecords(b, p), k + 1) = Append(spool.terms, AllRecords(b, p)[k + 1])
        /\ FlattenSeq(Upto(AllTerms(b), k + 1)) = spool.names \o x
        /\ Rows(ListsUpto(b, p, k + 1), p, 0) = spool.posts \o Rows(L, p, n)
        /\ PlacesIn(ListsUpto(b, p, k + 1)) = spool.places \o PlacesIn(L)
        /\ n \in Nat
        /\ AllRecords(b, p)[k + 1] =
              [offset |-> CountSize + TermRecordSize * Len(AllTerms(b)) + Len(spool.names),
               length |-> Len(x), df |-> Len(L),
               start |-> PostingRecordSize * Len(spool.posts), bytes |-> PostingRecordSize * Len(L)]
    BY <1>3, NextCopied
  <1>6. FlattenSeq(GroupParts) = PlacesIn(L) /\ FlattenSeq(GroupPosts(n)) = Rows(L, p, n) /\ Sum(GroupCounts) = Len(L)
    <2>1. CursorsAt(b, p, k) /\ k # Len(AllTerms(b)) /\ n \in Nat /\ L = PostingList(FlattenSeq(b), p, AllTerms(b)[k + 1])
      BY <1>3, <1>5
    <2> HIDE DEF L, n
    <2>. QED
      BY ONLY <2>1, GroupCopied
  <1>7. AllRecords(b, p)[k + 1] = r
    BY <1>4, <1>5, <1>6
  <1>8. [g \in DOMAIN Group |-> CopiedPosts(Group[g], before[g])] = GroupPosts(n)
    BY DEF GroupPosts, Lens
  <1>9. spool' = [spool EXCEPT !.terms = Append(@, r), !.names = @ \o LeastTerm,
                    !.posts = @ \o FlattenSeq([g \in DOMAIN Group |-> CopiedPosts(Group[g], before[g])]),
                    !.places = @ \o FlattenSeq(GroupParts)]
    BY DEF CopyTerm, GroupParts, GroupCounts
  <1>10. spool' = [spool EXCEPT !.terms = Append(@, r), !.names = @ \o x,
                    !.posts = @ \o FlattenSeq(GroupPosts(n)), !.places = @ \o FlattenSeq(GroupParts)]
    BY ONLY <1>4, <1>8, <1>9
  <1> HIDE DEF x, L, n, r, before
  <1>11. /\ spool'.terms = Append(spool.terms, r) /\ spool'.names = spool.names \o x
         /\ spool'.posts = spool.posts \o FlattenSeq(GroupPosts(n))
         /\ spool'.places = spool.places \o FlattenSeq(GroupParts)
         /\ spool'.docs = spool.docs /\ spool'.paths = spool.paths /\ IsSpool(spool')
    BY ONLY <1>10, IsSpool(spool) DEF IsSpool
  <1>12. TermsCopied(spool', b, p, k + 1)
    BY ONLY <1>5, <1>6, <1>7, <1>11 DEF TermsCopied
  <1>. QED
    BY ONLY <1>2, <1>11, <1>12

\* The indexes in memory are built from the batches b, and the merge of their
\* segments has come as far as pc says.
MergeFrom(b, p) ==
  /\ b \in Seq(Seq(Documents)) /\ p \in BOOLEAN
  /\ memory = [i \in 1 .. Len(b) |-> Build(b[i], p)] /\ whole = OneBatch(b, p)
  /\ IsSpool(spool)
  /\ pc \in {"write", "written", "documents", "count"} => TermsCopied(spool, b, p, 0)
  /\ pc \in {"write", "written"} => source = 1 /\ count = 0 /\ DocsCopied(spool, b, 0)
  /\ pc \in {"written", "documents"} => CursorsAt(b, p, 0) /\ count = 0
  /\ pc = "documents" => source \in 1 .. (Len(b) + 1) /\ DocsCopied(spool, b, source - 1)
  /\ pc \in {"count", "terms"} => DocsCopied(spool, b, Len(b))
  /\ pc \in {"documents", "count", "terms"} => Len(b) > 1
  /\ pc = "count" => CursorsAt(b, p, count)
  /\ pc = "terms" =>
       /\ count = Len(AllTerms(b))
       /\ \E k \in 0 .. Len(AllTerms(b)) : CursorsAt(b, p, k) /\ TermsCopied(spool, b, p, k)
  /\ pc = "merged" => /\ out = Write(whole) /\ WrittenAs(b, p)
                      /\ peak = SpoolBytes(out) + out.size

MergeInv == \E b \in Seq(Seq(Documents)), p \in BOOLEAN : MergeFrom(b, p)

\* The invariant of the merge holds at the start ...
LEMMA MergeBegins == Init => MergeInv
  <1> SUFFICES ASSUME Init PROVE MergeInv
    OBVIOUS
  <1>1. PICK b \in Batches \cup {<<s>> : s \in Singles}, p \in BOOLEAN :
          memory = [i \in DOMAIN b |-> Build(b[i], p)] /\ whole = Build(FlattenSeq(b), p)
    BY DEF Init
  <1>2. b \in Seq(Seq(Documents)) /\ DOMAIN b = 1 .. Len(b)
    BY BatchesTyped
  <1>3. pc = "write" /\ source = 1 /\ count = 0 /\ spool = Empty
    BY DEF Init
  <1>4. TermsCopied(Empty, b, p, 0) /\ DocsCopied(Empty, b, 0) /\ IsSpool(Empty)
    BY <1>2, NoTerms
  <1>5. memory = [i \in 1 .. Len(b) |-> Build(b[i], p)] /\ whole = OneBatch(b, p)
    BY <1>1, <1>2 DEF OneBatch
  <1>6. MergeFrom(b, p)
    BY ONLY <1>2, <1>3, <1>4, <1>5, p \in BOOLEAN DEF MergeFrom
  <1>. QED
    BY ONLY <1>2, <1>6, p \in BOOLEAN DEF MergeInv

\* ... every step keeps it ...
LEMMA MergeContinues == MergeInv /\ [Next]_vars => MergeInv'
  <1> SUFFICES ASSUME MergeInv, [Next]_vars PROVE MergeInv'
    OBVIOUS
  <1>1. PICK b \in Seq(Seq(Documents)), p \in BOOLEAN : MergeFrom(b, p)
    BY DEF MergeInv
  <1>2. /\ memory = [i \in 1 .. Len(b) |-> Build(b[i], p)] /\ whole = OneBatch(b, p)
        /\ IsSpool(spool) /\ Len(b) \in Nat
    BY <1>1, LensNat DEF MergeFrom
  <1>3. Len(memory) = Len(b) /\ DOMAIN memory = 1 .. Len(b)
    <2> DEFINE m == memory
    <2>1. m = [i \in 1 .. Len(b) |-> m[i]]
      BY ONLY <1>2
    <2> HIDE DEF m
    <2>2. Len(m) = Len(b) /\ DOMAIN m = 1 .. Len(b)
      BY ONLY <1>2, <2>1, FunLen
    <2>. QED
      BY <2>2 DEF m
  <1> SUFFICES MergeFrom(b, p)'
    BY DEF MergeInv
  <1>4. CASE WriteSources
    <2>1. /\ pc = "write" /\ pc' = "written" /\ files' = [i \in DOMAIN memory |-> Write(memory[i])]
          /\ at' = [i \in DOMAIN memory |-> 0]
          /\ UNCHANGED <<memory, whole, source, count, spool, out>>
      BY <1>4 DEF WriteSources
    <2>2. source = 1 /\ count = 0 /\ DocsCopied(spool, b, 0) /\ TermsCopied(spool, b, p, 0)
      BY ONLY <1>1, <2>1 DEF MergeFrom
    <2>3. files' = [i \in 1 .. Len(b) |-> Write(Build(b[i], p))]
      BY ONLY <1>2, <1>3, <2>1
    <2>4. WrittenAs(b, p)'
      BY ONLY <2>3, b \in Seq(Seq(Documents)), p \in BOOLEAN DEF WrittenAs
    <2>5. \A i \in 1 .. Len(b) : at'[i] = 0
      BY ONLY <1>3, <2>1
    <2>6. CursorsAt(b, p, 0)'
      BY ONLY <2>4, <2>5, CursorsBegin
    <2>. QED
      BY ONLY <1>2, <2>1, <2>2, <2>6, b \in Seq(Seq(Documents)), p \in BOOLEAN DEF MergeFrom, IsSpool, DocsCopied, TermsCopied
  <1>5. CASE CheckFeatures
    <2>1. /\ pc = "written" /\ Len(memory) > 1 /\ pc' \in {"documents", "rejected"}
          /\ UNCHANGED <<memory, whole, files, at, source, count, spool, out>>
      BY <1>5 DEF CheckFeatures
    <2>2. /\ source = 1 /\ count = 0 /\ DocsCopied(spool, b, 0) /\ TermsCopied(spool, b, p, 0)
          /\ CursorsAt(b, p, 0)
      BY ONLY <1>1, <2>1 DEF MergeFrom
    <2>3. CursorsAt(b, p, 0)'
      BY ONLY <2>1, <2>2 DEF CursorsAt, WrittenAs
    <2>4. source \in 1 .. (Len(b) + 1) /\ DocsCopied(spool, b, source - 1) /\ Len(b) > 1
      BY ONLY <1>2, <1>3, <2>1, <2>2
    <2>5. DocsCopied(spool', b, source' - 1) /\ TermsCopied(spool', b, p, 0) /\ IsSpool(spool')
      BY ONLY <1>2, <2>1, <2>2, <2>4
    <2>. QED
      BY ONLY <1>2, <2>1, <2>2, <2>3, <2>4, <2>5, b \in Seq(Seq(Documents)), p \in BOOLEAN DEF MergeFrom
  <1>6. CASE CopyDocuments
    <2>1. /\ pc = "documents" /\ pc' = pc /\ UNCHANGED <<memory, whole, files, at, count, out>>
      BY <1>6 DEF CopyDocuments
    <2>2. /\ source \in 1 .. (Len(b) + 1) /\ DocsCopied(spool, b, source - 1) /\ TermsCopied(spool, b, p, 0)
          /\ CursorsAt(b, p, 0) /\ count = 0 /\ Len(b) > 1
      BY ONLY <1>1, <2>1 DEF MergeFrom
    <2>3. WrittenAs(b, p)
      BY ONLY <2>2 DEF CursorsAt
    <2>4. /\ source' \in 1 .. (Len(b) + 1) /\ DocsCopied(spool', b, source' - 1)
          /\ TermsCopied(spool', b, p, 0) /\ IsSpool(spool')
      BY ONLY <1>2, <1>6, <2>2, <2>3, CopyDocumentsIs
    <2>5. CursorsAt(b, p, 0)'
      BY ONLY <2>1, <2>2 DEF CursorsAt, WrittenAs
    <2>. QED
      BY ONLY <1>2, <2>1, <2>2, <2>4, <2>5, b \in Seq(Seq(Documents)), p \in BOOLEAN DEF MergeFrom
  <1>7. CASE DocumentsDone
    <2>1. /\ pc = "documents" /\ source > Len(files) /\ pc' = "count"
          /\ UNCHANGED <<memory, whole, files, at, source, count, spool, out>>
      BY <1>7 DEF DocumentsDone
    <2>2. /\ source \in 1 .. (Len(b) + 1) /\ DocsCopied(spool, b, source - 1) /\ TermsCopied(spool, b, p, 0)
          /\ CursorsAt(b, p, 0) /\ count = 0 /\ Len(b) > 1
      BY ONLY <1>1, <2>1 DEF MergeFrom
    <2>3. Len(files) = Len(b)
      BY ONLY <2>2, FilesAre DEF CursorsAt
    <2>4. source - 1 = Len(b)
      BY ONLY <1>2, <2>1, <2>2, <2>3
    <2>5. CursorsAt(b, p, count)'
      <3>1. CursorsAt(b, p, 0)'
        BY ONLY <2>1, <2>2 DEF CursorsAt, WrittenAs
      <3>2. count' = 0
        BY ONLY <2>1, <2>2
      <3>. QED
        BY ONLY <3>1, <3>2 DEF CursorsAt
    <2>6. DocsCopied(spool', b, Len(b)) /\ TermsCopied(spool', b, p, 0) /\ IsSpool(spool')
      BY ONLY <1>2, <2>1, <2>2, <2>4
    <2>. QED
      BY ONLY <1>2, <2>1, <2>2, <2>5, <2>6, b \in Seq(Seq(Documents)), p \in BOOLEAN DEF MergeFrom
  <1>8. CASE CountTerm
    <2>1. pc = "count" /\ UNCHANGED <<memory, whole, files, spool, out>>
      BY <1>8 DEF CountTerm
    <2>2. CursorsAt(b, p, count) /\ DocsCopied(spool, b, Len(b)) /\ TermsCopied(spool, b, p, 0) /\ Len(b) > 1
      BY ONLY <1>1, <2>1 DEF MergeFrom
    <2>3. DocsCopied(spool', b, Len(b)) /\ TermsCopied(spool', b, p, 0) /\ IsSpool(spool')
      BY ONLY <1>2, <2>1, <2>2
    <2>4. CASE WalkEnds
      <3>1. pc' = "terms" /\ at' = Rewound /\ count' = count
        BY ONLY <1>8, <2>4 DEF CountTerm
      <3>2. count = Len(AllTerms(b))
        BY ONLY <2>2, <2>4, WalkEndIs
      <3>3. WrittenAs(b, p) /\ Len(AllTerms(b)) \in Nat
        BY ONLY <2>2, CursorsAre
      <3>4. Sources = 1 .. Len(b)
        BY ONLY <3>3, FilesAre
      <3>5. WrittenAs(b, p)'
        BY ONLY <2>1, <3>3 DEF WrittenAs
      <3>6. \A i \in 1 .. Len(b) : at'[i] = 0
        BY ONLY <3>1, <3>4 DEF Rewound
      <3>7. CursorsAt(b, p, 0)'
        BY ONLY <3>5, <3>6, CursorsBegin
      <3>8. 0 \in 0 .. Len(AllTerms(b))
        BY ONLY <3>3
      <3>. QED
        BY ONLY <1>2, <2>1, <2>2, <2>3, <3>1, <3>2, <3>7, <3>8, b \in Seq(Seq(Documents)), p \in BOOLEAN DEF MergeFrom
    <2>5. CASE ~ WalkEnds
      <3>1. pc' = pc /\ at' = Advanced /\ count' = count + 1
        BY ONLY <1>8, <2>5 DEF CountTerm
      <3>2. PICK k : k = count
        OBVIOUS
      <3>4. CursorsAt(b, p, k) /\ count' = k + 1
        BY ONLY <2>2, <3>1, <3>2
      <3>5. CursorsAt(b, p, k + 1)'
        BY ONLY <2>1, <2>5, <3>1, <3>4, CursorsMove
      <3>3. CursorsAt(b, p, count)'
        BY ONLY <3>4, <3>5 DEF CursorsAt
      <3>. QED
        BY ONLY <1>2, <2>1, <2>2, <2>3, <3>1, <3>3, b \in Seq(Seq(Documents)), p \in BOOLEAN DEF MergeFrom
    <2>. QED
      BY ONLY <2>4, <2>5
  <1>9. CASE CopyTerm
    <2>1. /\ pc = "terms" /\ pc' = pc /\ UNCHANGED <<memory, whole, files, count, out>> /\ ~ WalkEnds
      BY <1>9 DEF CopyTerm
    <2>2. count = Len(AllTerms(b)) /\ DocsCopied(spool, b, Len(b)) /\ Len(b) > 1
      BY ONLY <1>1, <2>1 DEF MergeFrom
    <2>3. PICK k \in 0 .. Len(AllTerms(b)) : CursorsAt(b, p, k) /\ TermsCopied(spool, b, p, k)
      BY ONLY <1>1, <2>1 DEF MergeFrom
    <2>4. /\ CursorsAt(b, p, k + 1)' /\ TermsCopied(spool', b, p, k + 1) /\ IsSpool(spool')
          /\ spool'.docs = spool.docs /\ spool'.paths = spool.paths
      BY ONLY <1>2, <1>9, <2>2, <2>3, CopyTermIs
    <2>5. k + 1 \in 0 .. Len(AllTerms(b))
      <3>1. k # Len(AllTerms(b)) /\ Len(AllTerms(b)) \in Nat
        BY ONLY <2>1, <2>3, WalkEndIs, CursorsAre
      <3>. QED
        BY ONLY <3>1, k \in 0 .. Len(AllTerms(b))
    <2>6. DocsCopied(spool', b, Len(b))
      BY ONLY <2>2, <2>4 DEF DocsCopied
    <2>. QED
      BY ONLY <1>2, <2>1, <2>2, <2>4, <2>5, <2>6, b \in Seq(Seq(Documents)), p \in BOOLEAN DEF MergeFrom
  <1>10. CASE AssembleFile
    <2>1. /\ pc = "terms" /\ WalkEnds /\ pc' = "merged" /\ UNCHANGED <<memory, whole, files>> /\ spool' = Empty
          /\ peak' = SpoolBytes(spool) + out'.size
          /\ out' = WithHeader([flags |-> files[1].flags, docs |-> spool.docs, paths |-> spool.paths,
                        terms |-> spool.terms, names |-> spool.names,
                        posts |-> spool.posts, places |-> spool.places])
      BY <1>10 DEF AssembleFile
    <2>2. DocsCopied(spool, b, Len(b)) /\ Len(b) > 1
      BY ONLY <1>1, <2>1 DEF MergeFrom
    <2>3. PICK k \in 0 .. Len(AllTerms(b)) : CursorsAt(b, p, k) /\ TermsCopied(spool, b, p, k)
      BY ONLY <1>1, <2>1 DEF MergeFrom
    <2>4. WrittenAs(b, p) /\ k = Len(AllTerms(b))
      BY ONLY <2>1, <2>3, WalkEndIs DEF CursorsAt
    <2>5. TermsCopied(spool, b, p, Len(AllTerms(b))) /\ Len(b) # 0
      BY ONLY <1>2, <2>2, <2>3, <2>4
    <2>6. out' = Write(OneBatch(b, p))
      <3>1. WithHeader([flags |-> files[1].flags, docs |-> spool.docs, paths |-> spool.paths,
                        terms |-> spool.terms, names |-> spool.names,
                        posts |-> spool.posts, places |-> spool.places]) = Write(OneBatch(b, p))
        BY ONLY <2>2, <2>4, <2>5, AssembledIs
      <3>. QED
        BY ONLY <2>1, <3>1
    <2>7. IsSpool(spool')
      BY ONLY <2>1, b \in Seq(Seq(Documents)), p \in BOOLEAN, NoTerms
    <2>8. peak' = SpoolBytes(out') + out'.size
      <3> DEFINE f == [flags |-> files[1].flags, docs |-> spool.docs, paths |-> spool.paths,
                       terms |-> spool.terms, names |-> spool.names,
                       posts |-> spool.posts, places |-> spool.places]
      <3>1. /\ f.docs = spool.docs /\ f.paths = spool.paths /\ f.terms = spool.terms /\ f.names = spool.names
            /\ f.posts = spool.posts /\ f.places = spool.places
        OBVIOUS
      <3>2. out' = WithHeader(f)
        BY ONLY <2>1
      <3> HIDE DEF f
      <3>3. /\ out'.docs = spool.docs /\ out'.paths = spool.paths /\ out'.terms = spool.terms
            /\ out'.names = spool.names /\ out'.posts = spool.posts /\ out'.places = spool.places
        BY ONLY <3>1, <3>2 DEF WithHeader
      <3>4. SpoolBytes(out') = SpoolBytes(spool)
        BY ONLY <3>3 DEF SpoolBytes, Sections
      <3>. QED
        BY ONLY <2>1, <3>4
    <2>9. WrittenAs(b, p)'
      BY ONLY <2>1, <2>4 DEF WrittenAs
    <2>. QED
      BY ONLY <1>2, <2>1, <2>6, <2>7, <2>8, <2>9, b \in Seq(Seq(Documents)), p \in BOOLEAN DEF MergeFrom
  <1>11. CASE Damage
    <2>1. pc' = "damaged" /\ UNCHANGED <<memory, whole, spool>>
      BY <1>11 DEF Damage
    <2>. QED
      BY ONLY <1>2, <2>1, b \in Seq(Seq(Documents)), p \in BOOLEAN DEF MergeFrom
  <1>12. CASE Read
    <2>1. pc' \in {"accepted", "rejected"} /\ UNCHANGED <<memory, whole, spool>>
      BY <1>12 DEF Read
    <2>. QED
      BY ONLY <1>2, <2>1, b \in Seq(Seq(Documents)), p \in BOOLEAN DEF MergeFrom
  <1>13. CASE UNCHANGED vars
    <2>1. UNCHANGED <<memory, whole, files, pc, at, source, count, spool, out, peak>>
      BY <1>13 DEF vars
    <2>3. WrittenAs(b, p)' <=> WrittenAs(b, p)
      BY ONLY <2>1 DEF WrittenAs
    <2>2. \A k : CursorsAt(b, p, k)' <=> CursorsAt(b, p, k)
      BY ONLY <2>1 DEF CursorsAt, WrittenAs
    <2>. QED
      BY ONLY <1>1, <2>1, <2>2, <2>3 DEF MergeFrom
  <1>. QED
    BY <1>4, <1>5, <1>6, <1>7, <1>8, <1>9, <1>10, <1>11, <1>12, <1>13 DEF Next

\* ... so it always holds.
LEMMA MergeInvHolds == Spec => []MergeInv
  BY MergeBegins, MergeContinues, PTL DEF Spec

\* Merging segments gives the segment that one batch of all their documents
\* would have been written as (merge_index_files).
THEOREM MergeIsOneBatch == Spec => []MergedIsOneBatch
  <1>1. MergeInv => MergedIsOneBatch
    BY DEF MergeInv, MergeFrom, MergedIsOneBatch
  <1>. QED
    BY <1>1, MergeInvHolds, PTL

\* Every file that the writer or the merge produces is accepted, and a written
\* one loads as the index in memory.
THEOREM WrittenIsRead == Spec => []WrittenReadsBack
  <1>1. MergeInv => WrittenReadsBack
    <2> SUFFICES ASSUME MergeInv PROVE WrittenReadsBack
      OBVIOUS
    <2>1. PICK b \in Seq(Seq(Documents)), p \in BOOLEAN : MergeFrom(b, p)
      BY DEF MergeInv
    <2>2. memory = [i \in 1 .. Len(b) |-> Build(b[i], p)] /\ whole = OneBatch(b, p)
      BY ONLY <2>1 DEF MergeFrom
    <2>3. ASSUME pc = "written", NEW i \in Sources PROVE Accepted(files[i]) /\ Loaded(files[i]) = memory[i]
      <3>1. WrittenAs(b, p)
        BY ONLY <2>1, <2>3 DEF MergeFrom, CursorsAt
      <3>2. i \in 1 .. Len(b) /\ files[i] = Write(Build(b[i], p)) /\ b[i] \in Seq(Documents)
        <4>1. Sources = 1 .. Len(b)
          BY ONLY <3>1, FilesAre
        <4>2. i \in 1 .. Len(b)
          BY ONLY <4>1, i \in Sources
        <4>. QED
          BY ONLY <3>1, <4>2, FilesAre
      <3>3. Good(Build(b[i], p)) /\ Build(b[i], p) \in Index
        BY ONLY <3>2, p \in BOOLEAN, BuildGood, BuiltIndex
      <3>4. Accepted(Write(Build(b[i], p))) /\ Loaded(Write(Build(b[i], p))) = Build(b[i], p)
        BY ONLY <3>3, GoodReadsBack
      <3>5. memory[i] = Build(b[i], p)
        BY ONLY <2>2, <3>2
      <3>. QED
        BY ONLY <3>2, <3>4, <3>5
    <2>4. ASSUME pc = "merged" PROVE Accepted(out)
      <3>1. out = Write(OneBatch(b, p))
        BY ONLY <2>1, <2>2, <2>4 DEF MergeFrom
      <3>2. OneBatch(b, p) \in Index /\ Good(OneBatch(b, p))
        BY WholeIs
      <3>3. Accepted(Write(OneBatch(b, p)))
        BY ONLY <3>2, GoodReadsBack
      <3>. QED
        BY ONLY <3>1, <3>3
    <2>. QED
      BY <2>3, <2>4 DEF WrittenReadsBack
  <1>. QED
    BY <1>1, MergeInvHolds, PTL

-----------------------------------------------------------------------------
(* The bytes that a batch takes: those of its documents, and of its terms    *)
(* with their postings.                                                      *)

TermSize(A, p, t) ==
  TermRecordSize + Len(t) + PostingRecordSize * Len(PostingList(A, p, t))
    + PositionSize * Len(PlacesIn(PostingList(A, p, t)))
TermSizes(A, p) == [j \in DOMAIN BuiltTerms(A) |-> TermSize(A, p, BuiltTerms(A)[j])]
BatchSize(A, p) ==
  2 * CountSize + DocumentRecordSize * Len(A) + Len(PathBytes(A)) + SumTo(TermSizes(A, p), Len(BuiltTerms(A)))

\* The total size of terms, by the parts of each size.
LEMMA SumLinear ==
  ASSUME NEW c, NEW u, NEW v, NEW w, NEW n \in Nat,
         \A k \in 1 .. n : /\ u[k] \in Nat /\ v[k] \in Nat /\ w[k] \in Nat
                           /\ c[k] = TermRecordSize + u[k] + PostingRecordSize * v[k] + PositionSize * w[k]
  PROVE  SumTo(c, n) = TermRecordSize * n + SumTo(u, n) + PostingRecordSize * SumTo(v, n) + PositionSize * SumTo(w, n)
  <1> DEFINE Sums(k) == /\ SumTo(u, k) \in Nat /\ SumTo(v, k) \in Nat /\ SumTo(w, k) \in Nat
                        /\ SumTo(c, k) = TermRecordSize * k + SumTo(u, k) + PostingRecordSize * SumTo(v, k)
                                           + PositionSize * SumTo(w, k)
             T == {k \in Nat : Sums(k)}
  <1>1. 0 \in T
    <2>1. SumTo(c, 0) = 0 /\ SumTo(u, 0) = 0 /\ SumTo(v, 0) = 0 /\ SumTo(w, 0) = 0
      BY SumToRec
    <2>. QED
      BY ONLY <2>1 DEF TermRecordSize, PostingRecordSize, PositionSize
  <1>2. ASSUME NEW k \in 0 .. n, k < n, k \in T PROVE k + 1 \in T
    <2>1. k \in Nat /\ k + 1 \in Nat /\ k + 1 \in 1 .. n
      BY <1>2
    <2>2. /\ SumTo(c, k + 1) = SumTo(c, k) + c[k + 1] /\ SumTo(u, k + 1) = SumTo(u, k) + u[k + 1]
          /\ SumTo(v, k + 1) = SumTo(v, k) + v[k + 1] /\ SumTo(w, k + 1) = SumTo(w, k) + w[k + 1]
      BY ONLY <2>1, SumToRec
    <2>3. /\ u[k + 1] \in Nat /\ v[k + 1] \in Nat /\ w[k + 1] \in Nat
          /\ c[k + 1] = TermRecordSize + u[k + 1] + PostingRecordSize * v[k + 1] + PositionSize * w[k + 1]
      BY <2>1
    <2>4. Sums(k)
      BY <1>2
    <2>5. Sums(k + 1)
      BY ONLY <2>1, <2>2, <2>3, <2>4 DEF TermRecordSize, PostingRecordSize, PositionSize
    <2>. QED
      BY ONLY <2>1, <2>5
  <1> HIDE DEF T
  <1>3. n \in T
    BY <1>1, <1>2, BoundInductive
  <1>. QED
    BY <1>3 DEF T

\* Sizes are natural.
LEMMA SizeNat ==
  ASSUME NEW a \in Nat, NEW b \in Nat, NEW c \in Nat
  PROVE  TermRecordSize + a + PostingRecordSize * b + PositionSize * c \in Nat
  BY DEF TermRecordSize, PostingRecordSize, PositionSize

\* The bytes each term of a batch costs a file.
LEMMA TermSizesAre ==
  ASSUME NEW A \in Seq(Documents), NEW p \in BOOLEAN, NEW T, T = BuiltTerms(A), NEW m, m = Len(T)
  PROVE  /\ m \in Nat
         /\ \A j \in 1 .. m : /\ TermSizes(A, p)[j] = TermSize(A, p, T[j])
                              /\ Len(T[j]) \in Nat /\ Len(PostingList(A, p, T[j])) \in Nat
                              /\ Len(PlacesIn(PostingList(A, p, T[j]))) \in Nat
                              /\ TermSizes(A, p)[j] \in Nat
         /\ SumTo(TermSizes(A, p), m) \in Nat
  <1>1. T = BuiltTerms(A) /\ m = Len(T)
    OBVIOUS
  <1>2. T \in Seq(Seq(Nat)) /\ m \in Nat /\ DOMAIN T = 1 .. m
    BY ONLY <1>1, A \in Seq(Documents), BuiltTermsAre
  <1>3. ASSUME NEW j \in 1 .. m
        PROVE  /\ TermSizes(A, p)[j] = TermSize(A, p, T[j])
               /\ Len(T[j]) \in Nat /\ Len(PostingList(A, p, T[j])) \in Nat
               /\ Len(PlacesIn(PostingList(A, p, T[j]))) \in Nat
               /\ TermSizes(A, p)[j] \in Nat
    <2> DEFINE L == PostingList(A, p, T[j])
               z == TermSizes(A, p)[j]
    <2>1. z = TermSize(A, p, T[j])
      BY ONLY <1>1, <1>2, j \in 1 .. m DEF TermSizes
    <2>2. L \in Seq(Posting)
      BY ONLY A \in Seq(Documents), p \in BOOLEAN, PostingListIs
    <2>3. z = TermRecordSize + Len(T[j]) + PostingRecordSize * Len(L) + PositionSize * Len(PlacesIn(L))
      BY ONLY <2>1 DEF TermSize
    <2> HIDE DEF L, z
    <2>4. Len(L) \in Nat /\ Len(PlacesIn(L)) \in Nat
      BY ONLY <2>2, PlacesAre
    <2>5. T[j] \in Seq(Nat)
      BY ONLY <1>1, <1>2, j \in 1 .. m, ElementOfSeq
    <2>6. Len(T[j]) \in Nat
      BY ONLY <2>5, LenProperties
    <2>7. z \in Nat
      BY ONLY <2>3, <2>4, <2>6, SizeNat
    <2>. QED
      BY ONLY <2>1, <2>4, <2>6, <2>7 DEF L, z
  <1>4. SumTo(TermSizes(A, p), m) \in Nat
    BY ONLY <1>2, <1>3, SumToNat
  <1>. QED
    BY ONLY <1>2, <1>3, <1>4

\* The size of the file of a batch, from its documents and terms.
LEMMA FileSize ==
  ASSUME NEW A \in Seq(Documents), NEW p \in BOOLEAN
  PROVE  /\ Sum(Sections(Write(Build(A, p)))) = BatchSize(A, p) /\ BatchSize(A, p) \in Nat
         /\ Write(Build(A, p)).size = HeaderSize + BatchSize(A, p)
  <1> DEFINE ix == Build(A, p)
             f == Write(ix)
             T == BuiltTerms(A)
             m == Len(T)
             X == ListsOf(ix)
             all == AllOf(ix)
             S == Sections(f)
             c == TermSizes(A, p)
             u == Lens(T)
             v == Lens(X)
             w == Lens(PartsOf(X))
             y == Len(PathBytes(A))
  <1>1. ix \in Index /\ Good(ix) /\ Len(ix.docs) = Len(A) /\ Len(ix.postings) = m /\ ix.positions = p
    BY BuiltIndex, BuildGood
  <1>2. \A j \in 1 .. m : ix.postings[j] = [term |-> T[j], list |-> PostingList(A, p, T[j])]
    BY BuiltIndex
  <1>3. m \in Nat /\ \A j \in 1 .. m : /\ c[j] = TermSize(A, p, T[j]) /\ c[j] \in Nat
                                       /\ Len(T[j]) \in Nat /\ Len(PostingList(A, p, T[j])) \in Nat
                                       /\ Len(PlacesIn(PostingList(A, p, T[j]))) \in Nat
    BY TermSizesAre
  <1>4. T \in Seq(Seq(Nat)) /\ DOMAIN T = 1 .. m /\ SumTo(c, m) \in Nat
    BY BuiltTermsAre, TermSizesAre
  <1>5. /\ f \in SegmentFiles /\ f.docs = DocumentRecords(ix.docs) /\ f.paths = FlattenSeq(PathsOf(ix))
        /\ f.names = FlattenSeq(TermsOf(ix))
        /\ f.places = FlattenSeq([k \in DOMAIN all |-> all[k].positions])
        /\ all \in Seq(Posting)
    BY <1>1, WrittenFile
  <1>6. f.size = HeaderSize + Sum(S)
    BY <1>1, WriteTyped
  <1>7. DocumentRecords(ix.docs) = DocRows(A, 0, 0) /\ FlattenSeq(PathsOf(ix)) = PathBytes(A)
    BY RecordsOfBuilt
  <1>8. Len(DocRows(A, 0, 0)) = Len(A) /\ Len(A) \in Nat /\ y \in Nat
    <2>1. 0 \in Nat
      OBVIOUS
    <2>2. Len(DocRows(A, 0, 0)) = Len(A)
      BY <2>1, DocRowsAre
    <2>3. Len(A) \in Nat /\ y \in Nat
      BY PathsAre
    <2>. QED
      BY ONLY <2>2, <2>3
  <1>9. Len(f.terms) = m
    BY <1>1, TermsReadBack
  <1>10. Len(f.posts) = Len(all)
    <2>1. f = Write(ix) /\ all = AllOf(ix) /\ ix \in Index /\ Good(ix)
      BY ONLY <1>1
    <2> HIDE DEF ix, f, all
    <2>2. \A n : n = Len(all) => Len(f.posts) = n
      BY ONLY <2>1, PlacesReadBack
    <2>. QED
      BY ONLY <2>2
  <1>11. f.places = PlacesIn(all)
    BY <1>5 DEF PlacesIn, PositionsOf
  <1>12. all = FlattenSeq(X)
    BY DEF AllOf
  <1>13. BatchSize(A, p) = 2 * CountSize + DocumentRecordSize * Len(A) + y + SumTo(c, m)
    BY DEF BatchSize
  <1>14. /\ S[1] = CountSize + DocumentRecordSize * Len(f.docs)
         /\ S[2] = Len(f.paths)
         /\ S[3] = CountSize + TermRecordSize * Len(f.terms) + Len(f.names)
         /\ S[4] = PostingRecordSize * Len(f.posts)
         /\ S[5] = PositionSize * Len(f.places) /\ Len(S) = 5
    BY <1>5, SectionLengths
  <1>30. y = Len(PathBytes(A)) /\ u = Lens(T) /\ v = Lens(X) /\ w = Lens(PartsOf(X)) /\ m = Len(T)
    OBVIOUS
  <1> HIDE DEF ix, f, T, m, X, all, S, c, u, v, w, y
  <1>15. \A j \in 1 .. m : ix.postings[j].term = T[j] /\ ix.postings[j].list = PostingList(A, p, T[j])
    <2> TAKE j \in 1 .. m
    <2> DEFINE e == ix.postings[j]
    <2>1. e = [term |-> T[j], list |-> PostingList(A, p, T[j])]
      BY ONLY <1>2
    <2> HIDE DEF e
    <2>2. e.term = T[j] /\ e.list = PostingList(A, p, T[j])
      BY ONLY <2>1
    <2>. QED
      BY ONLY <2>2 DEF e
  <1>16. X \in Seq(Seq(Posting)) /\ Len(X) = m /\ \A j \in 1 .. m : X[j] = PostingList(A, p, T[j])
    <2>1. /\ ListsOf(ix) \in Seq(Seq(Posting)) /\ Len(ListsOf(ix)) = m
      BY ONLY <1>1, IndexParts
    <2>2. \A j \in 1 .. m : ListsOf(ix)[j] = ix.postings[j].list
      BY ONLY <1>1, IndexParts
    <2>. QED
      BY ONLY <1>15, <2>1, <2>2 DEF X
  <1>17. TermsOf(ix) = T
    <2> DEFINE z == TermsOf(ix)
    <2>1. z \in Seq(Seq(Nat)) /\ Len(z) = m
      BY ONLY <1>1, IndexParts
    <2>2. \A j \in 1 .. m : z[j] = ix.postings[j].term
      BY ONLY <1>1, IndexParts
    <2> HIDE DEF z
    <2>3. z = [j \in 1 .. m |-> z[j]]
      <3>1. z \in [1 .. m -> Seq(Nat)]
        BY ONLY <2>1, LenProperties
      <3>. QED
        BY ONLY <3>1
    <2>4. T = [j \in 1 .. m |-> T[j]]
      <3>1. T \in [1 .. m -> Seq(Nat)]
        BY ONLY <1>4, <1>30, LenProperties
      <3>. QED
        BY ONLY <3>1
    <2>5. \A j \in 1 .. m : z[j] = T[j]
      BY ONLY <1>15, <2>2
    <2>6. z = T
      BY ONLY <2>3, <2>4, <2>5
    <2>. QED
      BY ONLY <2>6 DEF z
  <1>18. Len(f.names) = SumTo(u, m)
    BY ONLY <1>4, <1>5, <1>17, <1>30, FlattenAt
  <1>19. Len(f.posts) = SumTo(v, m)
    BY ONLY <1>10, <1>12, <1>16, <1>30, FlattenAt
  <1>20. PartsOf(X) \in Seq(Seq(Nat)) /\ Len(PartsOf(X)) = m /\ \A j \in 1 .. m : PartsOf(X)[j] = PlacesIn(X[j])
    BY ONLY <1>16, p \in BOOLEAN, 0 \in Nat, PartsAre
  <1>21. Len(f.places) = SumTo(w, m)
    <2>1. FlattenSeq(PartsOf(X)) = PlacesIn(FlattenSeq(X))
      BY ONLY <1>16, p \in BOOLEAN, 0 \in Nat, RowsFlatten
    <2>2. Len(FlattenSeq(PartsOf(X))) = SumTo(w, m)
      BY ONLY <1>20, <1>30, FlattenAt
    <2>. QED
      BY ONLY <1>11, <1>12, <2>1, <2>2
  <1>22. ASSUME NEW j \in 1 .. m
         PROVE  /\ u[j] \in Nat /\ v[j] \in Nat /\ w[j] \in Nat
                /\ c[j] = TermRecordSize + u[j] + PostingRecordSize * v[j] + PositionSize * w[j]
    <2> DEFINE L == PostingList(A, p, T[j])
    <2>1. u[j] = Len(T[j])
      BY ONLY <1>4, <1>30, LensNat
    <2>2. v[j] = Len(X[j])
      BY ONLY <1>16, <1>30, LensNat
    <2>3. w[j] = Len(PartsOf(X)[j])
      BY ONLY <1>20, <1>30, LensNat
    <2>4. X[j] = L /\ PartsOf(X)[j] = PlacesIn(X[j])
      BY ONLY <1>16, <1>20
    <2>5. c[j] = TermRecordSize + Len(T[j]) + PostingRecordSize * Len(L) + PositionSize * Len(PlacesIn(L))
      BY ONLY <1>3 DEF TermSize
    <2>6. Len(T[j]) \in Nat /\ Len(L) \in Nat /\ Len(PlacesIn(L)) \in Nat
      BY ONLY <1>3
    <2> HIDE DEF L
    <2>. QED
      BY ONLY <2>1, <2>2, <2>3, <2>4, <2>5, <2>6
  <1>23. SumTo(c, m) = TermRecordSize * m + SumTo(u, m) + PostingRecordSize * SumTo(v, m) + PositionSize * SumTo(w, m)
    <2>1. \A j \in 1 .. m : /\ u[j] \in Nat /\ v[j] \in Nat /\ w[j] \in Nat
                           /\ c[j] = TermRecordSize + u[j] + PostingRecordSize * v[j] + PositionSize * w[j]
      BY ONLY <1>22
    <2>2. m \in Nat
      BY ONLY <1>3
    <2>. QED
      BY ONLY <2>1, <2>2, SumLinear
  <1>24. SumTo(u, m) \in Nat /\ SumTo(v, m) \in Nat /\ SumTo(w, m) \in Nat
    BY ONLY <1>3, <1>22, SumToNat
  <1>25. Sum(S) = S[1] + S[2] + S[3] + S[4] + S[5]
    <2>1. SumTo(S, 0) = 0
      BY ONLY 0 \in Nat, SumToRec
    <2>2. SumTo(S, 1) = SumTo(S, 0) + S[1]
      BY ONLY 0 \in Nat, 0 + 1 = 1, SumToRec
    <2>4. SumTo(S, 2) = SumTo(S, 1) + S[2]
      BY ONLY 1 \in Nat, 1 + 1 = 2, SumToRec
    <2>5. SumTo(S, 3) = SumTo(S, 2) + S[3]
      BY ONLY 2 \in Nat, 2 + 1 = 3, SumToRec
    <2>6. SumTo(S, 4) = SumTo(S, 3) + S[4]
      BY ONLY 3 \in Nat, 3 + 1 = 4, SumToRec
    <2>7. SumTo(S, 5) = SumTo(S, 4) + S[5]
      BY ONLY 4 \in Nat, 4 + 1 = 5, SumToRec
    <2>3. S[1] \in Int /\ S[2] \in Int /\ S[3] \in Int /\ S[4] \in Int /\ S[5] \in Int
      BY ONLY <1>3, <1>5, <1>7, <1>8, <1>9, <1>14, <1>18, <1>19, <1>21, <1>24, <1>30, SMTT(60)
         DEF CountSize, DocumentRecordSize, TermRecordSize, PostingRecordSize, PositionSize
    <2>8. Sum(S) = SumTo(S, 5)
      BY ONLY <1>14 DEF Sum
    <2>. QED
      BY ONLY <2>1, <2>2, <2>3, <2>4, <2>5, <2>6, <2>7, <2>8
  <1>26. Sum(S) = BatchSize(A, p) /\ BatchSize(A, p) \in Nat
    <2> DEFINE g == SumTo(u, m)
               h == SumTo(v, m)
               l == SumTo(w, m)
               d == Len(A)
    <2>1. S[1] = CountSize + DocumentRecordSize * d /\ S[2] = y
      BY ONLY <1>5, <1>7, <1>8, <1>14, <1>30
    <2>2. S[3] = CountSize + TermRecordSize * m + g /\ S[4] = PostingRecordSize * h /\ S[5] = PositionSize * l
      BY ONLY <1>9, <1>14, <1>18, <1>19, <1>21
    <2>3. SumTo(c, m) = TermRecordSize * m + g + PostingRecordSize * h + PositionSize * l
      BY ONLY <1>23
    <2>4. g \in Nat /\ h \in Nat /\ l \in Nat /\ d \in Nat /\ m \in Nat /\ y \in Nat
      BY ONLY <1>3, <1>8, <1>24
    <2>5. BatchSize(A, p) = 2 * CountSize + DocumentRecordSize * d + y + SumTo(c, m)
      BY ONLY <1>13
    <2> HIDE DEF g, h, l, d
    <2>. QED
      BY ONLY <1>25, <2>1, <2>2, <2>3, <2>4, <2>5
         DEF CountSize, DocumentRecordSize, TermRecordSize, PostingRecordSize, PositionSize
  <1>. QED
    BY ONLY <1>6, <1>26 DEF S, f, ix

\* The total cost of the shares of a term, by the parts of each cost.
LEMMA SumThree ==
  ASSUME NEW c, NEW u, NEW v, NEW w, NEW n \in Nat,
         \A k \in 1 .. n : /\ u[k] \in Nat /\ v[k] \in Nat /\ w[k] \in Nat
                           /\ c[k] = u[k] + PostingRecordSize * v[k] + PositionSize * w[k]
  PROVE  SumTo(c, n) = SumTo(u, n) + PostingRecordSize * SumTo(v, n) + PositionSize * SumTo(w, n)
  <1> DEFINE Sums(k) == /\ SumTo(u, k) \in Nat /\ SumTo(v, k) \in Nat /\ SumTo(w, k) \in Nat
                        /\ SumTo(c, k) = SumTo(u, k) + PostingRecordSize * SumTo(v, k) + PositionSize * SumTo(w, k)
             T == {k \in Nat : Sums(k)}
  <1>1. 0 \in T
    <2>1. SumTo(c, 0) = 0 /\ SumTo(u, 0) = 0 /\ SumTo(v, 0) = 0 /\ SumTo(w, 0) = 0
      BY SumToRec
    <2>. QED
      BY ONLY <2>1 DEF PostingRecordSize, PositionSize
  <1>2. ASSUME NEW k \in 0 .. n, k < n, k \in T PROVE k + 1 \in T
    <2>1. k \in Nat /\ k + 1 \in Nat /\ k + 1 \in 1 .. n
      BY <1>2
    <2>2. /\ SumTo(c, k + 1) = SumTo(c, k) + c[k + 1] /\ SumTo(u, k + 1) = SumTo(u, k) + u[k + 1]
          /\ SumTo(v, k + 1) = SumTo(v, k) + v[k + 1] /\ SumTo(w, k + 1) = SumTo(w, k) + w[k + 1]
      BY ONLY <2>1, SumToRec
    <2>3. /\ u[k + 1] \in Nat /\ v[k + 1] \in Nat /\ w[k + 1] \in Nat
          /\ c[k + 1] = u[k + 1] + PostingRecordSize * v[k + 1] + PositionSize * w[k + 1]
      BY <2>1
    <2>4. Sums(k)
      BY <1>2
    <2>5. Sums(k + 1)
      BY ONLY <2>1, <2>2, <2>3, <2>4 DEF PostingRecordSize, PositionSize
    <2>. QED
      BY ONLY <2>1, <2>5
  <1> HIDE DEF T
  <1>3. n \in T
    BY <1>1, <1>2, BoundInductive
  <1>. QED
    BY <1>3 DEF T

\* Costs are natural.
LEMMA CostNat ==
  ASSUME NEW a \in Nat, NEW b \in Nat, NEW c \in Nat
  PROVE  a + PostingRecordSize * b + PositionSize * c \in Nat
  BY DEF PostingRecordSize, PositionSize

\* What the batches in H take for a term that no other batch has.
TermCosts(b, p, t, H) == [i \in DOMAIN b |-> IF i \in H THEN TermSize(b[i], p, t) ELSE 0]

\* A term costs the file of all batches at most what it costs the files of
\* the batches that hold it.
LEMMA TermCheaper ==
  ASSUME NEW b \in Seq(Seq(Documents)), NEW p \in BOOLEAN, NEW t, Len(t) \in Nat,
         NEW H, H \in SUBSET (1 .. Len(b)), H # {},
         \A i \in 1 .. Len(b) : i \notin H => t \notin TermsIn(b[i])
  PROVE  /\ TermSize(FlattenSeq(b), p, t) <= SumTo(TermCosts(b, p, t, H), Len(b))
         /\ TermSize(FlattenSeq(b), p, t) \in Nat
         /\ \A i \in 1 .. Len(b) : /\ TermCosts(b, p, t, H)[i] = IF i \in H THEN TermSize(b[i], p, t) ELSE 0
                                   /\ TermCosts(b, p, t, H)[i] \in Nat
  <1> DEFINE n == Len(b)
             F == FlattenSeq(b)
             Sh == Shares(b, p, t)
             Pa == PartsOf(Sh)
             y == TermRecordSize + Len(t)
             c == TermCosts(b, p, t, H)
             u == [i \in 1 .. n |-> IF i \in H THEN y ELSE 0]
             v == Lens(Sh)
             w == Lens(Pa)
             L(i) == PostingList(b[i], p, t)
             z == TermSize(F, p, t)
  <1>0. 0 \in Nat
    OBVIOUS
  <1>1. n \in Nat /\ DOMAIN b = 1 .. n /\ \A i \in 1 .. n : b[i] \in Seq(Documents)
    BY LensNat
  <1>2. /\ Sh \in Seq(Seq(Posting)) /\ Len(Sh) = n
        /\ \A i \in 1 .. n : /\ Sh[i] = Moved(L(i), SumTo(Lens(b), i - 1)) /\ L(i) \in Seq(Posting)
                             /\ SumTo(Lens(b), i - 1) \in Nat
    BY SharesAre
  <1>3. PostingList(F, p, t) = FlattenSeq(Sh)
    BY PostingListFlatten
  <1>4. Pa \in Seq(Seq(Nat)) /\ Len(Pa) = n /\ \A i \in 1 .. n : Pa[i] = PlacesIn(Sh[i])
    BY <1>2, <1>0, PartsAre
  <1>5. FlattenSeq(Pa) = PlacesIn(FlattenSeq(Sh))
    BY <1>2, <1>0, RowsFlatten
  <1>6. \A i \in 1 .. n : i \notin H => L(i) = <<>>
    BY <1>1, ListEmpty
  <1>7. z = y + PostingRecordSize * Len(PostingList(F, p, t)) + PositionSize * Len(PlacesIn(PostingList(F, p, t)))
    BY DEF TermSize
  <1>8. \A i \in 1 .. n : c[i] = IF i \in H THEN TermSize(b[i], p, t) ELSE 0
    BY <1>1 DEF TermCosts
  <1>9. \A i \in 1 .. n : u[i] = IF i \in H THEN y ELSE 0
    OBVIOUS
  <1>10. \A i \in 1 .. n : TermSize(b[i], p, t) = y + PostingRecordSize * Len(L(i)) + PositionSize * Len(PlacesIn(L(i)))
    BY DEF TermSize
  <1>11. y \in Nat
    BY Len(t) \in Nat DEF TermRecordSize
  <1>12. v = Lens(Sh) /\ w = Lens(Pa)
    OBVIOUS
  <1>13. PlacesIn(<<>>) = <<>>
    BY <1>0, RowsEmpty
  <1>14. Len(<<>>) = 0
    OBVIOUS
  <1> DEFINE e == <<>>
  <1>15. (\A i \in 1 .. n : i \notin H => L(i) = e) /\ PlacesIn(e) = e /\ Len(e) = 0
    BY <1>6, <1>13, <1>14
  <1> HIDE DEF n, F, Sh, Pa, y, c, u, v, w, L, z, e
  <1>16. ASSUME NEW i \in 1 .. n
         PROVE  /\ v[i] = Len(L(i)) /\ w[i] = Len(PlacesIn(L(i))) /\ v[i] \in Nat /\ w[i] \in Nat
    <2>1. v[i] = Len(Sh[i])
      BY ONLY <1>2, <1>12, LensNat
    <2>2. w[i] = Len(Pa[i])
      BY ONLY <1>4, <1>12, LensNat
    <2>3. Len(Sh[i]) = Len(L(i)) /\ Len(L(i)) \in Nat
      BY ONLY <1>2, MovedIs
    <2>4. PlacesIn(Sh[i]) = PlacesIn(L(i))
      BY ONLY <1>2, MovedPlaces
    <2>5. Len(PlacesIn(L(i))) \in Nat
      BY ONLY <1>2, PlacesAre
    <2>. QED
      BY ONLY <1>4, <2>1, <2>2, <2>3, <2>4, <2>5
  <1>17. ASSUME NEW i \in 1 .. n
         PROVE  /\ u[i] \in Nat /\ v[i] \in Nat /\ w[i] \in Nat
                /\ c[i] = u[i] + PostingRecordSize * v[i] + PositionSize * w[i] /\ c[i] \in Nat
    <2>1. CASE i \in H
      <3>1. u[i] = y /\ c[i] = y + PostingRecordSize * Len(L(i)) + PositionSize * Len(PlacesIn(L(i)))
        BY ONLY <1>8, <1>9, <1>10, <2>1
      <3>. QED
        BY ONLY <1>11, <1>16, <3>1, CostNat
    <2>2. CASE i \notin H
      <3>1. u[i] = 0 /\ c[i] = 0
        BY ONLY <1>8, <1>9, <2>2
      <3>2. L(i) = e
        BY ONLY <1>15, <2>2
      <3>3. v[i] = 0 /\ w[i] = 0
        BY ONLY <1>15, <1>16, <3>2
      <3>. QED
        BY ONLY <3>1, <3>3 DEF PostingRecordSize, PositionSize
    <2>. QED
      BY ONLY <2>1, <2>2
  <1>18. /\ SumTo(c, n) = SumTo(u, n) + PostingRecordSize * SumTo(v, n) + PositionSize * SumTo(w, n)
         /\ SumTo(u, n) \in Nat /\ SumTo(v, n) \in Nat /\ SumTo(w, n) \in Nat
    <2>1. \A i \in 1 .. n : /\ u[i] \in Nat /\ v[i] \in Nat /\ w[i] \in Nat
                            /\ c[i] = u[i] + PostingRecordSize * v[i] + PositionSize * w[i]
      BY ONLY <1>17
    <2>2. n \in Nat
      BY ONLY <1>1
    <2>3. SumTo(c, n) = SumTo(u, n) + PostingRecordSize * SumTo(v, n) + PositionSize * SumTo(w, n)
      BY ONLY <2>1, <2>2, SumThree
    <2>4. SumTo(u, n) \in Nat /\ SumTo(v, n) \in Nat /\ SumTo(w, n) \in Nat
      BY ONLY <2>1, <2>2, SumToNat
    <2>. QED
      BY ONLY <2>3, <2>4
  <1>19. y <= SumTo(u, n)
    <2>1. PICK i \in H : TRUE
      BY ONLY H # {}
    <2>2. i \in 1 .. n
      BY H \in SUBSET (1 .. Len(b)) DEF n
    <2>3. \A k \in 1 .. n : u[k] \in Nat
      BY ONLY <1>17
    <2>4. u[i] <= SumTo(u, n)
      BY ONLY <1>1, <2>2, <2>3, SumToTerm
    <2>. QED
      BY ONLY <1>9, <2>2, <2>4, i \in H
  <1>20. Len(PostingList(F, p, t)) = SumTo(v, n)
    <2>1. Len(FlattenSeq(Sh)) = SumTo(v, n)
      BY ONLY <1>2, <1>12, FlattenAt
    <2>. QED
      BY ONLY <1>3, <2>1
  <1>21. Len(PlacesIn(PostingList(F, p, t))) = SumTo(w, n)
    <2>1. Len(FlattenSeq(Pa)) = SumTo(w, n)
      BY ONLY <1>4, <1>12, FlattenAt
    <2>. QED
      BY ONLY <1>3, <1>5, <2>1
  <1>22. z <= SumTo(c, n) /\ z \in Nat
    <2> DEFINE g == SumTo(u, n)
               h == SumTo(v, n)
               l == SumTo(w, n)
    <2>1. z = y + PostingRecordSize * h + PositionSize * l
      BY ONLY <1>7, <1>20, <1>21
    <2>2. SumTo(c, n) = g + PostingRecordSize * h + PositionSize * l /\ g \in Nat /\ h \in Nat /\ l \in Nat /\ y <= g
      BY ONLY <1>18, <1>19
    <2> HIDE DEF g, h, l
    <2>. QED
      BY ONLY <1>11, <2>1, <2>2 DEF PostingRecordSize, PositionSize
  <1>. QED
    BY ONLY <1>8, <1>17, <1>22 DEF z, F, c, n

\* What the terms that the cursors a have passed take in their own batches.
Paid(b, p, a) == [i \in DOMAIN b |-> SumTo(TermSizes(b[i], p), a[i])]

\* The cursors a have passed the first k terms, which take no more in one batch.
Covers(b, p, a, k) ==
  /\ Walked(TermTables(b), AllTerms(b), Len(b), a, k)
  /\ SumTo(TermSizes(FlattenSeq(b), p), k) <= SumTo(Paid(b, p, a), Len(b))

\* What the terms a cursor has passed cost its file.
LEMMA PaidAre ==
  ASSUME NEW b \in Seq(Seq(Documents)), NEW p \in BOOLEAN, NEW k, NEW a,
         Walked(TermTables(b), AllTerms(b), Len(b), a, k)
  PROVE  /\ \A i \in 1 .. Len(b) : /\ a[i] \in 0 .. Len(BuiltTerms(b[i])) /\ Len(BuiltTerms(b[i])) \in Nat
                                   /\ Paid(b, p, a)[i] = SumTo(TermSizes(b[i], p), a[i])
                                   /\ Paid(b, p, a)[i] \in Nat
                                   /\ Paid(b, p, a)[i] <= SumTo(TermSizes(b[i], p), Len(BuiltTerms(b[i])))
         /\ SumTo(Paid(b, p, a), Len(b)) \in Nat
  <1> DEFINE n == Len(b)
             g == Paid(b, p, a)
  <1>1. n \in Nat /\ DOMAIN b = 1 .. n /\ \A i \in 1 .. n : b[i] \in Seq(Documents)
    BY LensNat
  <1>2. \A i \in 1 .. n : g[i] = SumTo(TermSizes(b[i], p), a[i])
    BY <1>1 DEF Paid
  <1>3. \A i \in 1 .. n : a[i] \in 0 .. Len(TermTables(b)[i])
    BY DEF Walked
  <1>4. \A i \in 1 .. n : TermTables(b)[i] = BuiltTerms(b[i])
    BY TableBuilt
  <1> HIDE DEF n, g
  <1>5. ASSUME NEW i \in 1 .. n
        PROVE  /\ a[i] \in 0 .. Len(BuiltTerms(b[i])) /\ Len(BuiltTerms(b[i])) \in Nat
               /\ g[i] \in Nat /\ g[i] <= SumTo(TermSizes(b[i], p), Len(BuiltTerms(b[i])))
    <2> DEFINE m == Len(BuiltTerms(b[i]))
               c == TermSizes(b[i], p)
    <2>1. m \in Nat /\ \A j \in 1 .. m : c[j] \in Nat
      BY ONLY <1>1, p \in BOOLEAN, TermSizesAre
    <2>2. a[i] \in 0 .. m
      BY ONLY <1>3, <1>4
    <2>3. g[i] = SumTo(c, a[i])
      BY ONLY <1>2
    <2> HIDE DEF m, c
    <2>4. a[i] \in Nat /\ a[i] <= m /\ \A j \in 1 .. a[i] : j \in 1 .. m
      BY ONLY <2>1, <2>2
    <2>5. SumTo(c, a[i]) \in Nat
      BY ONLY <2>1, <2>4, SumToNat
    <2>6. SumTo(c, a[i]) <= SumTo(c, m)
      BY ONLY <2>1, <2>4, SumToMonotone
    <2>. QED
      BY ONLY <2>1, <2>2, <2>3, <2>5, <2>6 DEF m, c
  <1>6. SumTo(g, n) \in Nat
    BY ONLY <1>1, <1>5, SumToNat
  <1>. QED
    BY ONLY <1>2, <1>5, <1>6 DEF g, n

\* One more term of the walk.
LEMMA CoversNext ==
  ASSUME NEW b \in Seq(Seq(Documents)), NEW p \in BOOLEAN, NEW k, k < Len(AllTerms(b)), NEW a, Covers(b, p, a, k)
  PROVE  \E z : Covers(b, p, z, k + 1)
  <1> DEFINE n == Len(b)
             F == FlattenSeq(b)
             tt == TermTables(b)
             T == AllTerms(b)
             H == Holding(tt, T, n, a, k)
             x == T[k + 1]
             z == [i \in 1 .. n |-> IF i \in H THEN a[i] + 1 ELSE a[i]]
             g == TermCosts(b, p, x, H)
             c == TermSizes(F, p)
             u == Paid(b, p, a)
             w == Paid(b, p, z)
  <1>1. /\ n \in Nat /\ DOMAIN b = 1 .. n /\ \A i \in 1 .. n : b[i] \in Seq(Documents)
        /\ F \in Seq(Documents)
    BY LensNat, FlattenAt
  <1>2. Walked(tt, T, n, a, k) /\ SumTo(c, k) <= SumTo(u, n)
    BY DEF Covers
  <1>3. Table(tt, T, n) /\ \A i \in 1 .. n : tt[i] = BuiltTerms(b[i])
    BY TableBuilt
  <1>4. Len(T) \in Nat /\ \A h \in 1 .. Len(T) : T[h] \in Seq(Nat)
    BY ONLY <1>3, TableFacts
  <1>5. k \in 0 .. Len(T) /\ k < Len(T)
    BY <1>2 DEF Walked
  <1>6. k \in Nat /\ k + 1 \in 1 .. Len(T)
    BY ONLY <1>4, <1>5
  <1>7. \A i \in 1 .. n : i \in H <=> a[i] < Len(tt[i]) /\ tt[i][a[i] + 1] = x
    BY DEF Holding
  <1>8. H \in SUBSET (1 .. n)
    BY DEF Holding
  <1>9. T = BuiltTerms(F)
    BY DEF AllTerms
  <1>10. \A i \in 1 .. n : z[i] = IF i \in H THEN a[i] + 1 ELSE a[i]
    OBVIOUS
  <1>11. \A i \in 1 .. n : w[i] = SumTo(TermSizes(b[i], p), z[i])
    BY <1>1 DEF Paid
  <1>12. \A i \in 1 .. n : /\ a[i] \in 0 .. Len(BuiltTerms(b[i])) /\ Len(BuiltTerms(b[i])) \in Nat
                           /\ u[i] = SumTo(TermSizes(b[i], p), a[i]) /\ u[i] \in Nat
    BY <1>2, PaidAre
  <1>13. SumTo(u, n) \in Nat
    BY <1>2, PaidAre
  <1>30. H = Holding(tt, T, n, a, k) /\ x = T[k + 1]
    OBVIOUS
  <1>31. \A i \in 1 .. n : z[i] = IF i \in Holding(tt, T, n, a, k) THEN a[i] + 1 ELSE a[i]
    BY <1>10
  <1> HIDE DEF n, F, tt, T, H, x, z, g, c, u, w
  <1>14. Walked(tt, T, n, z, k + 1)
    BY ONLY <1>2, <1>3, <1>5, <1>31, WalkStep
  <1>15. H # {}
    <2>1. \E i \in 1 .. n : a[i] < Len(tt[i]) /\ tt[i][a[i] + 1] = T[k + 1]
      BY ONLY <1>2, <1>3, <1>5, WalkDone
    <2>. QED
      BY ONLY <1>7, <1>30, <2>1
  <1>16. ASSUME NEW i \in 1 .. n, i \notin H PROVE x \notin TermsIn(b[i])
    <2> SUFFICES ASSUME x \in TermsIn(b[i]) PROVE FALSE
      OBVIOUS
    <2>1. TermsIn(b[i]) = {tt[i][j] : j \in 1 .. Len(tt[i])}
      <3>1. TermsIn(b[i]) = {BuiltTerms(b[i])[j] : j \in 1 .. Len(BuiltTerms(b[i]))}
        BY ONLY <1>1, BuiltTermsAre
      <3>. QED
        BY ONLY <1>3, <3>1
    <2>2. PICK j \in 1 .. Len(tt[i]) : tt[i][j] = x
      BY <2>1
    <2>3. a[i] < Len(tt[i]) /\ j = a[i] + 1
      BY ONLY <1>2, <1>3, <1>5, <1>30, <2>2, i \in 1 .. n, WalkThere
    <2>. QED
      BY ONLY <1>7, <1>16, <2>2, <2>3
  <1>17. Len(x) \in Nat
    <2>1. x \in Seq(Nat)
      BY ONLY <1>4, <1>6, <1>30
    <2>. QED
      BY ONLY <2>1, LenProperties
  <1>18. /\ TermSize(F, p, x) <= SumTo(g, n) /\ TermSize(F, p, x) \in Nat
         /\ \A i \in 1 .. n : g[i] = IF i \in H THEN TermSize(b[i], p, x) ELSE 0
         /\ \A i \in 1 .. n : g[i] \in Nat
    <2>1. \A i \in 1 .. Len(b) : i \notin H => x \notin TermsIn(b[i])
      BY ONLY <1>16 DEF n
    <2>2. H \in SUBSET (1 .. Len(b))
      BY ONLY <1>8 DEF n
    <2>3. TermSize(FlattenSeq(b), p, x) <= SumTo(TermCosts(b, p, x, H), Len(b))
      BY ONLY <1>15, <1>17, <2>1, <2>2, b \in Seq(Seq(Documents)), p \in BOOLEAN, TermCheaper
    <2>4. TermSize(FlattenSeq(b), p, x) \in Nat
      BY ONLY <1>15, <1>17, <2>1, <2>2, b \in Seq(Seq(Documents)), p \in BOOLEAN, TermCheaper
    <2>5. \A i \in 1 .. Len(b) : TermCosts(b, p, x, H)[i] = IF i \in H THEN TermSize(b[i], p, x) ELSE 0
      BY ONLY <1>1 DEF TermCosts, n
    <2>6. \A i \in 1 .. Len(b) : TermCosts(b, p, x, H)[i] \in Nat
      BY ONLY <1>15, <1>17, <2>1, <2>2, b \in Seq(Seq(Documents)), p \in BOOLEAN, TermCheaper
    <2>. QED
      BY ONLY <2>3, <2>4, <2>5, <2>6 DEF F, g, n
  <1>19. SumTo(c, k + 1) = SumTo(c, k) + TermSize(F, p, x) /\ SumTo(c, k) \in Nat
    <2>1. \A j \in 1 .. Len(T) : c[j] = TermSize(F, p, T[j]) /\ c[j] \in Nat
      <3>1. \A j \in 1 .. Len(BuiltTerms(F)) : TermSizes(F, p)[j] = TermSize(F, p, BuiltTerms(F)[j])
        BY ONLY <1>1, p \in BOOLEAN, TermSizesAre
      <3>2. \A j \in 1 .. Len(BuiltTerms(F)) : TermSizes(F, p)[j] \in Nat
        BY ONLY <1>1, p \in BOOLEAN, TermSizesAre
      <3>. QED
        BY ONLY <1>9, <3>1, <3>2 DEF c
    <2>2. SumTo(c, k + 1) = SumTo(c, k) + c[k + 1]
      BY ONLY <1>6, SumToRec
    <2>3. \A j \in 1 .. k : c[j] \in Nat
      BY ONLY <1>6, <2>1
    <2>4. SumTo(c, k) \in Nat
      BY ONLY <1>6, <2>3, SumToNat
    <2>. QED
      BY ONLY <1>6, <1>30, <2>1, <2>2, <2>4
  <1>20. ASSUME NEW i \in 1 .. n PROVE u[i] \in Nat /\ g[i] \in Nat /\ w[i] = u[i] + g[i]
    <2> DEFINE e == TermSizes(b[i], p)
               m == Len(BuiltTerms(b[i]))
    <2>1. a[i] \in 0 .. m /\ m \in Nat /\ u[i] = SumTo(e, a[i]) /\ u[i] \in Nat /\ w[i] = SumTo(e, z[i])
      BY ONLY <1>11, <1>12
    <2>2. \A j \in 1 .. m : e[j] = TermSize(b[i], p, BuiltTerms(b[i])[j])
      BY ONLY <1>1, p \in BOOLEAN, TermSizesAre
    <2>3. tt[i] = BuiltTerms(b[i]) /\ Len(tt[i]) = m
      BY ONLY <1>3
    <2> HIDE DEF e, m
    <2>4. CASE i \in H
      <3>1. a[i] < m /\ BuiltTerms(b[i])[a[i] + 1] = x /\ z[i] = a[i] + 1
        BY ONLY <1>7, <1>10, <2>3, <2>4
      <3>2. a[i] \in Nat /\ a[i] + 1 \in 1 .. m
        BY ONLY <2>1, <3>1
      <3>3. SumTo(e, a[i] + 1) = SumTo(e, a[i]) + e[a[i] + 1]
        BY ONLY <3>2, SumToRec
      <3>4. e[a[i] + 1] = TermSize(b[i], p, x)
        BY ONLY <2>2, <3>1, <3>2
      <3>5. g[i] = TermSize(b[i], p, x)
        BY ONLY <1>18, <2>4
      <3>. QED
        BY ONLY <1>18, <2>1, <3>1, <3>3, <3>4, <3>5
    <2>5. CASE i \notin H
      <3>1. z[i] = a[i] /\ g[i] = 0
        BY ONLY <1>10, <1>18, <2>5
      <3>. QED
        BY ONLY <2>1, <3>1
    <2>. QED
      BY ONLY <2>4, <2>5
  <1>21. SumTo(w, n) = SumTo(u, n) + SumTo(g, n)
    <2>1. \A i \in 1 .. n : u[i] \in Nat /\ g[i] \in Nat /\ w[i] = u[i] + g[i]
      BY ONLY <1>20
    <2>. QED
      BY ONLY <1>1, <2>1, SumToPlus
  <1>22. SumTo(g, n) \in Nat
    BY ONLY <1>1, <1>18, SumToNat
  <1>23. SumTo(c, k + 1) <= SumTo(w, n)
    BY ONLY <1>2, <1>13, <1>18, <1>19, <1>21, <1>22
  <1>24. Covers(b, p, z, k + 1)
    BY ONLY <1>14, <1>23 DEF Covers, w, c, n, F, tt, T
  <1>. QED
    BY ONLY <1>24

\* The terms of one batch take no more than those of its parts.
LEMMA TermsCheaper ==
  ASSUME NEW b \in Seq(Seq(Documents)), NEW p \in BOOLEAN
  PROVE  /\ SumTo(TermSizes(FlattenSeq(b), p), Len(AllTerms(b)))
              <= SumTo([i \in DOMAIN b |-> SumTo(TermSizes(b[i], p), Len(BuiltTerms(b[i])))], Len(b))
  <1> DEFINE n == Len(b)
             T == AllTerms(b)
             m == Len(T)
             c == TermSizes(FlattenSeq(b), p)
             Q == {k \in Nat : \E a : Covers(b, p, a, k)}
             w == [i \in DOMAIN b |-> SumTo(TermSizes(b[i], p), Len(BuiltTerms(b[i])))]
             z == [i \in 1 .. n |-> 0]
  <1>1. n \in Nat /\ DOMAIN b = 1 .. n /\ \A i \in 1 .. n : b[i] \in Seq(Documents)
    BY LensNat
  <1>2. Table(TermTables(b), T, n)
    BY TableBuilt
  <1>3. m \in Nat
    BY ONLY <1>2, TableFacts
  <1>4. 0 \in Q
    <2>1. Walked(TermTables(b), T, n, z, 0)
      <3>1. \A i \in 1 .. n : z[i] = 0
        OBVIOUS
      <3> HIDE DEF z
      <3>. QED
        BY ONLY <1>2, <3>1, WalkBegins
    <2>2. SumTo(c, 0) = 0
      BY SumToRec
    <2>3. SumTo(Paid(b, p, z), n) \in Nat
      BY <2>1, PaidAre
    <2>4. Covers(b, p, z, 0)
      BY ONLY <2>1, <2>2, <2>3 DEF Covers
    <2>. QED
      BY ONLY <2>4
  <1>5. ASSUME NEW k \in 0 .. m, k < m, k \in Q PROVE k + 1 \in Q
    <2>1. PICK a : Covers(b, p, a, k)
      BY <1>5
    <2>2. \E d : Covers(b, p, d, k + 1)
      BY <1>5, <2>1, CoversNext
    <2>3. k + 1 \in Nat
      BY ONLY <1>3, k \in 0 .. m
    <2>. QED
      BY ONLY <2>2, <2>3
  <1>6. m \in Q
    <2> HIDE DEF Q
    <2>. QED
      BY <1>3, <1>4, <1>5, BoundInductive
  <1>7. PICK a : Covers(b, p, a, m)
    BY <1>6
  <1>8. Walked(TermTables(b), T, n, a, m) /\ SumTo(c, m) <= SumTo(Paid(b, p, a), n)
    BY <1>7 DEF Covers
  <1> DEFINE u == Paid(b, p, a)
  <1>9. \A i \in 1 .. n : u[i] \in Nat /\ u[i] <= SumTo(TermSizes(b[i], p), Len(BuiltTerms(b[i])))
    BY <1>8, PaidAre
  <1>10. SumTo(u, n) \in Nat
    BY <1>8, PaidAre
  <1>11. \A i \in 1 .. n : w[i] = SumTo(TermSizes(b[i], p), Len(BuiltTerms(b[i])))
    BY <1>1
  <1>12. \A i \in 1 .. n : SumTo(TermSizes(b[i], p), Len(BuiltTerms(b[i]))) \in Nat
    BY <1>1, TermSizesAre
  <1>13. \A j \in 1 .. m : c[j] \in Nat
    <2>1. T = BuiltTerms(FlattenSeq(b)) /\ FlattenSeq(b) \in Seq(Documents)
      BY FlattenAt DEF AllTerms
    <2>2. \A j \in 1 .. Len(BuiltTerms(FlattenSeq(b))) : TermSizes(FlattenSeq(b), p)[j] \in Nat
      BY ONLY <2>1, p \in BOOLEAN, TermSizesAre
    <2>. QED
      BY ONLY <2>1, <2>2
  <1> HIDE DEF n, c, w, u, m
  <1>14. \A i \in 1 .. n : u[i] \in Nat /\ w[i] \in Nat /\ u[i] <= w[i]
    BY ONLY <1>9, <1>11, <1>12
  <1>15. SumTo(u, n) <= SumTo(w, n)
    BY ONLY <1>1, <1>14, SumToLess
  <1>16. SumTo(c, m) <= SumTo(u, n) /\ SumTo(c, m) \in Nat /\ SumTo(w, n) \in Nat
    <2>1. SumTo(c, m) \in Nat
      BY ONLY <1>3, <1>13, SumToNat
    <2>2. SumTo(w, n) \in Nat
      BY ONLY <1>1, <1>14, SumToNat
    <2>3. SumTo(c, m) <= SumTo(u, n)
      BY <1>8 DEF u
    <2>. QED
      BY ONLY <2>1, <2>2, <2>3
  <1>17. SumTo(c, m) <= SumTo(w, n)
    BY ONLY <1>10, <1>15, <1>16
  <1>. QED
    BY ONLY <1>17 DEF c, m, w, n

\* The bytes that documents take.
DocsSize(A) == DocumentRecordSize * Len(A) + Len(PathBytes(A))

\* The documents of one batch take what those of its parts do.
LEMMA DocsFlat ==
  ASSUME NEW b \in Seq(Seq(Documents))
  PROVE  DocsSize(FlattenSeq(b)) = SumTo([i \in DOMAIN b |-> DocsSize(b[i])], Len(b))
  <1> DEFINE n == Len(b)
             c == [i \in DOMAIN b |-> DocsSize(b[i])]
             F(k) == FlattenSeq(Upto(b, k))
             Q == {k \in Nat : DocsSize(F(k)) = SumTo(c, k)}
  <1>1. n \in Nat /\ DOMAIN b = 1 .. n /\ \A i \in 1 .. n : b[i] \in Seq(Documents)
    BY LensNat
  <1>2. \A i \in 1 .. n : c[i] = DocsSize(b[i])
    BY <1>1
  <1>3. 0 \in Q
    <2>1. F(0) = <<>> /\ PathBytes(F(0)) = <<>>
      BY NoDocs, FlattenNext
    <2>2. Len(<<>>) = 0
      OBVIOUS
    <2>3. SumTo(c, 0) = 0
      BY SumToRec
    <2>4. Len(F(0)) = 0 /\ Len(PathBytes(F(0))) = 0
      BY <2>1, <2>2
    <2> HIDE DEF F, c
    <2>5. DocsSize(F(0)) = SumTo(c, 0)
      BY ONLY <2>3, <2>4 DEF DocsSize, DocumentRecordSize
    <2>. QED
      BY ONLY <2>5
  <1>4. ASSUME NEW k \in 0 .. n, k < n, k \in Q PROVE k + 1 \in Q
    <2> DEFINE A == F(k)
               B == b[k + 1]
               C == F(k + 1)
    <2>1. k \in Nat /\ k + 1 \in Nat /\ k + 1 \in 1 .. n
      BY <1>1, <1>4
    <2>2. A \in Seq(Documents) /\ B \in Seq(Documents) /\ C = A \o B
      BY <1>4, FlattenNext
    <2>3. DocsSize(A) = SumTo(c, k)
      BY <1>4
    <2>4. c[k + 1] = DocsSize(B)
      BY <1>2, <2>1
    <2> HIDE DEF A, B, C, c
    <2>5. SumTo(c, k + 1) = SumTo(c, k) + c[k + 1]
      BY ONLY <2>1, SumToRec
    <2>6. TwoBatches(A, B, C)
      BY ONLY <2>2 DEF TwoBatches
    <2>7. PathBytes(C) = PathBytes(A) \o PathBytes(B)
      BY ONLY <2>6, DocRowsConcat
    <2>8. /\ PathBytes(A) \in Seq(Nat) /\ PathBytes(B) \in Seq(Nat)
          /\ Len(PathBytes(A)) \in Nat /\ Len(PathBytes(B)) \in Nat /\ Len(A) \in Nat /\ Len(B) \in Nat
      BY ONLY <2>2, PathsAre
    <2>9. Len(PathBytes(C)) = Len(PathBytes(A)) + Len(PathBytes(B))
      BY ONLY <2>7, <2>8, ConcatProperties
    <2>10. Len(C) = Len(A) + Len(B)
      BY ONLY <2>2, ConcatProperties
    <2>11. DocsSize(C) = DocsSize(A) + DocsSize(B)
      BY ONLY <2>8, <2>9, <2>10 DEF DocsSize, DocumentRecordSize
    <2>12. DocsSize(C) = SumTo(c, k + 1)
      BY ONLY <2>3, <2>4, <2>5, <2>11
    <2>. QED
      BY ONLY <2>1, <2>12 DEF C
  <1>5. n \in Q
    <2> HIDE DEF Q, n
    <2>. QED
      BY <1>1, <1>3, <1>4, BoundInductive
  <1>6. Upto(b, n) = b
    BY UptoAll
  <1>. QED
    BY <1>5, <1>6

\* One batch takes no more than its parts, and the two counts of its tables.
LEMMA PartsCover ==
  ASSUME NEW b \in Seq(Seq(Documents)), NEW p \in BOOLEAN, NEW s, \A i \in 1 .. Len(b) : s[i] = BatchSize(b[i], p)
  PROVE  /\ BatchSize(FlattenSeq(b), p) <= 2 * CountSize + SumTo(s, Len(b))
         /\ BatchSize(FlattenSeq(b), p) \in Nat /\ SumTo(s, Len(b)) \in Nat
  <1> DEFINE n == Len(b)
             F == FlattenSeq(b)
             c == [i \in DOMAIN b |-> DocsSize(b[i])]
             d == [i \in DOMAIN b |-> SumTo(TermSizes(b[i], p), Len(BuiltTerms(b[i])))]
             u == [i \in 1 .. n |-> c[i] + d[i]]
             z == SumTo(TermSizes(F, p), Len(BuiltTerms(F)))
  <1>1. n \in Nat /\ DOMAIN b = 1 .. n /\ \A i \in 1 .. n : b[i] \in Seq(Documents)
    BY LensNat
  <1>2. F \in Seq(Documents)
    BY FlattenAt
  <1>3. DocsSize(F) = SumTo(c, n)
    BY DocsFlat
  <1>4. z <= SumTo(d, n)
    <2>1. SumTo(TermSizes(F, p), Len(AllTerms(b))) <= SumTo(d, n)
      BY TermsCheaper
    <2>2. AllTerms(b) = BuiltTerms(F)
      BY DEF AllTerms
    <2>. QED
      BY <2>1, <2>2
  <1>5. z \in Nat
    BY <1>2, TermSizesAre
  <1>6. \A i \in 1 .. n : c[i] = DocsSize(b[i]) /\ d[i] = SumTo(TermSizes(b[i], p), Len(BuiltTerms(b[i])))
    BY <1>1
  <1>7. \A i \in 1 .. n : u[i] = c[i] + d[i]
    OBVIOUS
  <1>8. BatchSize(F, p) = 2 * CountSize + DocumentRecordSize * Len(F) + Len(PathBytes(F)) + z
    BY DEF BatchSize
  <1>9. \A i \in 1 .. n : s[i] = BatchSize(b[i], p)
    OBVIOUS
  <1> HIDE DEF n, F, c, d, u, z
  <1>10. ASSUME NEW A \in Seq(Documents) PROVE DocsSize(A) \in Nat
    <2>1. Len(A) \in Nat /\ Len(PathBytes(A)) \in Nat
      BY ONLY A \in Seq(Documents), PathsAre
    <2>. QED
      BY ONLY <2>1 DEF DocsSize, DocumentRecordSize
  <1>11. ASSUME NEW i \in 1 .. n PROVE c[i] \in Nat /\ d[i] \in Nat /\ u[i] \in Nat /\ s[i] \in Nat /\ u[i] <= s[i]
    <2> DEFINE A == b[i]
               g == SumTo(TermSizes(A, p), Len(BuiltTerms(A)))
    <2>1. A \in Seq(Documents)
      BY ONLY <1>1
    <2>2. g \in Nat
      BY ONLY <2>1, p \in BOOLEAN, TermSizesAre
    <2>3. BatchSize(A, p) = 2 * CountSize + DocumentRecordSize * Len(A) + Len(PathBytes(A)) + g
      BY ONLY TRUE DEF BatchSize
    <2>4. Len(A) \in Nat /\ Len(PathBytes(A)) \in Nat
      BY ONLY <2>1, PathsAre
    <2>5. c[i] = DocumentRecordSize * Len(A) + Len(PathBytes(A)) /\ d[i] = g
      BY ONLY <1>6 DEF DocsSize
    <2>6. u[i] = c[i] + d[i] /\ s[i] = BatchSize(A, p)
      BY ONLY <1>7, <1>9
    <2> HIDE DEF A, g
    <2>. QED
      BY ONLY <2>2, <2>3, <2>4, <2>5, <2>6 DEF CountSize, DocumentRecordSize
  <1>12. SumTo(u, n) = SumTo(c, n) + SumTo(d, n)
    <2>1. \A i \in 1 .. n : c[i] \in Nat /\ d[i] \in Nat /\ u[i] = c[i] + d[i]
      BY ONLY <1>7, <1>11
    <2>. QED
      BY ONLY <1>1, <2>1, SumToPlus
  <1>13. SumTo(u, n) <= SumTo(s, n)
    <2>1. \A i \in 1 .. n : u[i] \in Nat /\ s[i] \in Nat /\ u[i] <= s[i]
      BY ONLY <1>11
    <2>. QED
      BY ONLY <1>1, <2>1, SumToLess
  <1>14. SumTo(c, n) \in Nat /\ SumTo(d, n) \in Nat /\ SumTo(u, n) \in Nat /\ SumTo(s, n) \in Nat
    BY ONLY <1>1, <1>11, SumToNat
  <1>15. BatchSize(F, p) = 2 * CountSize + DocsSize(F) + z /\ DocsSize(F) \in Nat
    <2>1. Len(F) \in Nat /\ Len(PathBytes(F)) \in Nat
      BY ONLY <1>2, PathsAre
    <2>2. DocsSize(F) = DocumentRecordSize * Len(F) + Len(PathBytes(F))
      BY ONLY TRUE DEF DocsSize
    <2>. QED
      BY ONLY <1>5, <1>8, <2>1, <2>2 DEF CountSize, DocumentRecordSize
  <1>16. BatchSize(F, p) <= 2 * CountSize + SumTo(s, n) /\ BatchSize(F, p) \in Nat
    BY ONLY <1>3, <1>4, <1>5, <1>12, <1>13, <1>14, <1>15 DEF CountSize
  <1>. QED
    BY ONLY <1>14, <1>16 DEF F, n

\* The spools and the merged segment never take more than is required for them
\* before the merge starts (merge_segment_group, merge_index_files).
THEOREM PeakIsCovered == Spec => []PeakCovered
  <1>1. MergeInv => PeakCovered
    <2> SUFFICES ASSUME MergeInv, pc = "merged"
                 PROVE  peak <= 2 * (HeaderSize + Sum([i \in Sources |-> files[i].size - HeaderSize]))
      BY DEF PeakCovered
    <2> DEFINE s == [i \in Sources |-> files[i].size - HeaderSize]
    <2>1. PICK b \in Seq(Seq(Documents)), p \in BOOLEAN : MergeFrom(b, p)
      BY DEF MergeInv
    <2>2. out = Write(whole) /\ WrittenAs(b, p) /\ peak = SpoolBytes(out) + out.size /\ whole = OneBatch(b, p)
      BY <2>1 DEF MergeFrom
    <2> DEFINE F == FlattenSeq(b)
               n == Len(b)
               x == BatchSize(F, p)
    <2>3. F \in Seq(Documents)
      BY FlattenAt
    <2>4. out = Write(Build(F, p))
      BY <2>2 DEF OneBatch
    <2>5. n \in Nat /\ Sources = 1 .. n /\ \A i \in 1 .. n : b[i] \in Seq(Documents) /\ files[i] = Write(Build(b[i], p))
      BY ONLY <2>2, FilesAre
    <2>6. Sum(Sections(out)) = x /\ out.size = HeaderSize + x /\ x \in Nat
      <3>1. /\ Sum(Sections(Write(Build(F, p)))) = x /\ x \in Nat
            /\ Write(Build(F, p)).size = HeaderSize + x
        BY <2>3, FileSize
      <3>. QED
        BY <2>4, <3>1
    <2>7. \A i \in 1 .. n : s[i] = BatchSize(b[i], p)
      <3> TAKE i \in 1 .. n
      <3> DEFINE g == BatchSize(b[i], p)
      <3>1. s[i] = files[i].size - HeaderSize
        BY <2>5
      <3>2. files[i].size = HeaderSize + g /\ g \in Nat
        <4>1. b[i] \in Seq(Documents) /\ files[i] = Write(Build(b[i], p))
          BY ONLY <2>5
        <4>2. BatchSize(b[i], p) \in Nat /\ Write(Build(b[i], p)).size = HeaderSize + BatchSize(b[i], p)
          BY ONLY <4>1, p \in BOOLEAN, FileSize
        <4>. QED
          BY ONLY <4>1, <4>2
      <3> HIDE DEF g, s
      <3>3. s[i] = g
        BY ONLY <3>1, <3>2 DEF HeaderSize
      <3>. QED
        BY ONLY <3>3 DEF g
    <2>8. s = [i \in 1 .. n |-> s[i]]
      BY <2>5
    <2>9. peak = SpoolBytes(out) + out.size /\ SpoolBytes(out) = Sum(Sections(out)) - CountSize
      BY <2>2 DEF SpoolBytes
    <2> HIDE DEF s, n, F, x
    <2>10. Sum(s) = SumTo(s, n)
      BY ONLY <2>5, <2>8, SumIs
    <2>11. x <= 2 * CountSize + SumTo(s, n) /\ SumTo(s, n) \in Nat
      <3>1. \A i \in 1 .. Len(b) : s[i] = BatchSize(b[i], p)
        BY ONLY <2>7 DEF n
      <3>2. BatchSize(FlattenSeq(b), p) <= 2 * CountSize + SumTo(s, Len(b))
        BY ONLY <3>1, b \in Seq(Seq(Documents)), p \in BOOLEAN, PartsCover
      <3>3. SumTo(s, Len(b)) \in Nat
        BY ONLY <3>1, b \in Seq(Seq(Documents)), p \in BOOLEAN, PartsCover
      <3>. QED
        BY ONLY <3>2, <3>3 DEF x, F, n
    <2>12. peak <= 2 * (HeaderSize + SumTo(s, n))
      BY ONLY <2>6, <2>9, <2>11 DEF HeaderSize, CountSize
    <2>. QED
      BY ONLY <2>10, <2>12 DEF s
  <1>. QED
    BY <1>1, MergeInvHolds, PTL
=============================================================================
