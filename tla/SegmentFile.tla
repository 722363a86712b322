----------------------------- MODULE SegmentFile -----------------------------
(***************************************************************************)
(* The segment format: what write_index_file_bounded lays out              *)
(* (src/storage/index_file.cpp) and what the validating reader accepts     *)
(* (src/storage/index_validation.cpp, src/storage/index_header.cpp).       *)
(*                                                                         *)
(* A file is a record of its header (flags, size, section offsets and      *)
(* lengths) and of its sections.  Fixed-width records are TLA+ records,    *)
(* counted with their real widths; paths and terms are sequences of bytes. *)
(* A checksum always matches: these operators are about files that are     *)
(* whole, by whomever they were written.                                   *)
(***************************************************************************)
EXTENDS Integers, Sequences, FiniteSets, SequencesExt

HeaderSize == 200           \* kIndexHeaderSize
CountSize == 8              \* the record count before a table
DocumentRecordSize == 48
TermRecordSize == 32
PostingRecordSize == 16
PositionSize == 4

\* Total of the first n numbers.
SumTo(s, n) ==
  LET upTo[k \in 0 .. n] == IF k = 0 THEN 0 ELSE upTo[k - 1] + s[k] IN upTo[n]

Sum(s) == SumTo(s, Len(s))

\* operator< of std::string.
Less(s, t) ==
  \E k \in 0 .. Len(s) :
    /\ k < Len(t) /\ SubSeq(s, 1, k) = SubSeq(t, 1, k)
    /\ k = Len(s) \/ s[k + 1] < t[k + 1]

Increasing(s) == \A i, j \in DOMAIN s : i < j => s[i] < s[j]

\* The members of a finite set, ordered.
Sorted(set, before(_, _)) ==
  CHOOSE s \in [1 .. Cardinality(set) -> set] :
    \A i, j \in DOMAIN s : i < j => before(s[i], s[j])

-----------------------------------------------------------------------------
(* The index in memory: whether it stores positions; its documents, each    *)
(* with path, liveness and token count; its terms in order, each with the   *)
(* postings of its documents.                                               *)

\* A parsed document has a path, is live or a tombstone, and has its tokens
\* in text; a tombstone has none.
TermsIn(parsed) ==
  UNION {{parsed[i].text[k] : k \in DOMAIN parsed[i].text} : i \in DOMAIN parsed}

\* Positions of term t in a document, counted from 0.
Occurrences(doc, t) ==
  Sorted({p \in 0 .. Len(doc.text) - 1 : doc.text[p + 1] = t}, <)

\* InMemoryIndex::add_occurrence, one call per token in document order: the
\* posting list of t.
PostingList(parsed, positions, t) ==
  LET ids == Sorted({i \in DOMAIN parsed : Occurrences(parsed[i], t) # <<>>}, <)
  IN [k \in DOMAIN ids |->
        LET found == Occurrences(parsed[ids[k]], t) IN
          [doc |-> ids[k] - 1, freq |-> Len(found),
           positions |-> IF positions THEN found ELSE <<>>]]

\* commit_document for each document; sorted_terms.
Build(parsed, positions) ==
  LET terms == Sorted(TermsIn(parsed), Less) IN
    [positions |-> positions,
     docs |-> [i \in DOMAIN parsed |->
                 [path |-> parsed[i].path, live |-> parsed[i].live,
                  tokens |-> Len(parsed[i].text)]],
     postings |-> [i \in DOMAIN terms |->
                     [term |-> terms[i], list |-> PostingList(parsed, positions, terms[i])]]]

-----------------------------------------------------------------------------
(* Writing. *)

Sections(f) ==
  <<CountSize + DocumentRecordSize * Len(f.docs), Len(f.paths),
    CountSize + TermRecordSize * Len(f.terms) + Len(f.names),
    PostingRecordSize * Len(f.posts), PositionSize * Len(f.places)>>

\* Packs the sections behind the header and fills it in.
WithHeader(f) ==
  [flags |-> f.flags, size |-> HeaderSize + Sum(Sections(f)),
   offsets |-> [s \in 1 .. 5 |-> HeaderSize + SumTo(Sections(f), s - 1)],
   lengths |-> Sections(f),
   docs |-> f.docs, paths |-> f.paths, terms |-> f.terms, names |-> f.names,
   posts |-> f.posts, places |-> f.places]

DocumentRecords(docs) ==
  [i \in DOMAIN docs |->
     [id |-> i - 1, live |-> docs[i].live, tokens |-> docs[i].tokens,
      length |-> Len(docs[i].path),
      offset |-> SumTo([j \in DOMAIN docs |-> Len(docs[j].path)], i - 1)]]

\* Mutant of PlaceOffset: the offset counts positions, not bytes.
BugPlaceOffset(all, k) == SumTo([j \in DOMAIN all |-> all[j].freq], k - 1)

\* Where the positions written so far end.
PlaceOffset(all, k) == PositionSize * SumTo([j \in DOMAIN all |-> all[j].freq], k - 1)

\* The records of all postings, term by term.
PostingRecords(all, positions) ==
  [k \in DOMAIN all |->
     [doc |-> all[k].doc, freq |-> all[k].freq,
      offset |-> IF positions THEN PlaceOffset(all, k) ELSE 0]]

\* The table precedes the bytes of the terms.
TermRecords(terms, counts) ==
  LET lengths == [i \in DOMAIN terms |-> Len(terms[i])] IN
    [i \in DOMAIN terms |->
       [offset |-> CountSize + TermRecordSize * Len(terms) + SumTo(lengths, i - 1),
        length |-> lengths[i], df |-> counts[i],
        start |-> PostingRecordSize * SumTo(counts, i - 1),
        bytes |-> PostingRecordSize * counts[i]]]

\* What the writer requires of an index.
Writable(ix) ==
  \A i \in DOMAIN ix.postings :
    LET list == ix.postings[i].list IN
      /\ list # <<>>
      /\ \A k \in DOMAIN list :
           /\ list[k].doc < Len(ix.docs) /\ ix.docs[list[k].doc + 1].live
           /\ list[k].freq > 0
           /\ Len(list[k].positions) = IF ix.positions THEN list[k].freq ELSE 0

\* write_index_file_bounded
Write(ix) ==
  LET terms == [i \in DOMAIN ix.postings |-> ix.postings[i].term]
      all == FlattenSeq([i \in DOMAIN ix.postings |-> ix.postings[i].list])
  IN WithHeader(
       [flags |-> ix.positions,
        docs |-> DocumentRecords(ix.docs),
        paths |-> FlattenSeq([i \in DOMAIN ix.docs |-> ix.docs[i].path]),
        terms |-> TermRecords(terms, [i \in DOMAIN terms |-> Len(ix.postings[i].list)]),
        names |-> FlattenSeq(terms),
        posts |-> PostingRecords(all, ix.positions),
        places |-> FlattenSeq([k \in DOMAIN all |-> all[k].positions])])

-----------------------------------------------------------------------------
(* Reading. *)

\* validate_header: canonical packed sections, and no positions without the
\* feature.
HeaderValid(f) ==
  /\ \A s \in 1 .. 5 : f.offsets[s] = HeaderSize + SumTo(f.lengths, s - 1)
  /\ f.size = HeaderSize + Sum(f.lengths)
  /\ ~ f.flags => f.lengths[5] = 0

\* read_validated_header: also the physical size.
EnvelopeValid(f) == HeaderValid(f) /\ f.size = HeaderSize + Sum(Sections(f))

\* The bytes at an offset of a section, if they are all there.
Inside(offset, length, section) == offset + length <= section
PathAt(f, r) == SubSeq(f.paths, r.offset + 1, r.offset + r.length)

TermBytesBegin(f) == CountSize + TermRecordSize * Len(f.terms)
TermAt(f, r) ==
  LET begin == r.offset - TermBytesBegin(f) IN SubSeq(f.names, begin + 1, begin + r.length)

\* Mutant of DocumentsEnd: bytes after the last path are not noticed.
BugDocumentsEnd(f) == TRUE

\* "Paths section contains unreferenced trailing bytes"
DocumentsEnd(f) ==
  Sum([i \in DOMAIN f.docs |-> f.docs[i].length]) = f.lengths[2]

\* decode_document_table
DocumentsValid(f) ==
  /\ f.lengths[1] = CountSize + DocumentRecordSize * Len(f.docs)
  /\ \A i \in DOMAIN f.docs :
       LET r == f.docs[i] IN
         /\ r.id = i - 1
         /\ r.live \/ r.tokens = 0
         /\ r.length > 0
         /\ r.offset = SumTo([j \in DOMAIN f.docs |-> f.docs[j].length], i - 1)
         /\ Inside(r.offset, r.length, f.lengths[2])
  /\ DocumentsEnd(f)

Terms(f) == [i \in DOMAIN f.terms |-> TermAt(f, f.terms[i])]

\* The first half of decode_terms_and_postings: the term table.
TermsValid(f) ==
  /\ TermBytesBegin(f) <= f.lengths[3]
  /\ \A i \in DOMAIN f.terms :
       LET r == f.terms[i] IN
         /\ r.length > 0
         /\ r.offset = TermBytesBegin(f) + SumTo([j \in DOMAIN f.terms |-> f.terms[j].length], i - 1)
         /\ Inside(r.offset, r.length, f.lengths[3])
         /\ r.df > 0
         /\ r.bytes = PostingRecordSize * r.df
         /\ r.start = SumTo([j \in DOMAIN f.terms |-> f.terms[j].bytes], i - 1)
         /\ Inside(r.start, r.bytes, f.lengths[4])
  /\ \A i \in DOMAIN f.terms : i > 1 => Less(Terms(f)[i - 1], Terms(f)[i])

\* Postings are read on from the start of their section: those of term i are
\* the next df records, and their positions the next freq numbers.
PostsBefore(f, i) == SumTo([j \in DOMAIN f.terms |-> f.terms[j].df], i - 1)
PostsOf(f, i) == SubSeq(f.posts, PostsBefore(f, i) + 1, PostsBefore(f, i) + f.terms[i].df)
PlacesBefore(f, k) == SumTo([j \in DOMAIN f.posts |-> f.posts[j].freq], k - 1)
PlacesOf(f, k) ==
  IF f.flags THEN SubSeq(f.places, PlacesBefore(f, k) + 1, PlacesBefore(f, k) + f.posts[k].freq)
             ELSE <<>>

\* The position offset of a posting continues where the last one ended.
PlaceValid(f, k) ==
  f.posts[k].offset = IF f.flags THEN PositionSize * PlacesBefore(f, k) ELSE 0

\* The token counts of the documents are used up exactly.
TokensOf(f, d) ==
  Sum([k \in DOMAIN f.posts |-> IF f.posts[k].doc = d THEN f.posts[k].freq ELSE 0])

\* The second half: postings, positions, totals, and nothing left over.
PostingsValid(f) ==
  /\ \A k \in DOMAIN f.posts :
       LET r == f.posts[k] IN
         /\ r.doc < Len(f.docs)
         /\ r.freq > 0
         /\ PlaceValid(f, k)
         /\ f.flags => /\ PlacesBefore(f, k) + r.freq <= Len(f.places)
                       /\ Increasing(PlacesOf(f, k))
  /\ \A i \in DOMAIN f.terms :
       Increasing([k \in DOMAIN PostsOf(f, i) |-> PostsOf(f, i)[k].doc])
  /\ TermBytesBegin(f) + Sum([i \in DOMAIN f.terms |-> f.terms[i].length]) = f.lengths[3]
  /\ Sum([i \in DOMAIN f.terms |-> f.terms[i].bytes]) = f.lengths[4]
  /\ PositionSize * (IF f.flags THEN PlacesBefore(f, Len(f.posts) + 1) ELSE 0) = f.lengths[5]
  /\ \A i \in DOMAIN f.docs : TokensOf(f, i - 1) = f.docs[i].tokens

\* validate_index_file
Accepted(f) ==
  /\ EnvelopeValid(f) /\ DocumentsValid(f) /\ TermsValid(f) /\ PostingsValid(f)

\* What load_segment builds from an accepted file.
Loaded(f) ==
  [positions |-> f.flags,
   docs |-> [i \in DOMAIN f.docs |->
               [path |-> PathAt(f, f.docs[i]), live |-> f.docs[i].live, tokens |-> f.docs[i].tokens]],
   postings |->
     [i \in DOMAIN f.terms |->
        [term |-> Terms(f)[i],
         list |-> [k \in DOMAIN PostsOf(f, i) |->
                     [doc |-> PostsOf(f, i)[k].doc, freq |-> PostsOf(f, i)[k].freq,
                      positions |-> PlacesOf(f, PostsBefore(f, i) + k)]]]]]
=============================================================================
