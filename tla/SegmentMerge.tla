---------------------------- MODULE SegmentMerge ----------------------------
(***************************************************************************)
(* Merging temporary segments (src/storage/segment_merge.cpp): documents   *)
(* are copied with new identifiers, then the term tables are walked twice  *)
(* in step, first to count the merged terms and then to copy their         *)
(* postings, and the spools are assembled into one file.                   *)
(*                                                                         *)
(* The same module follows one segment that was damaged, or written by     *)
(* something else, through the validating reader.                          *)
(***************************************************************************)
EXTENDS SegmentFile, FiniteSetsExt

CONSTANTS
  Batches,  \* lists of batches to merge; a batch is a list of documents
  Singles   \* lists of documents to write, damage and read

\* The builders refuse an empty path and postings_for an empty token;
\* add_tombstone brings no text.
Documents ==
  {doc \in [path : Seq(Nat), live : BOOLEAN, text : Seq(Seq(Nat))] :
     /\ doc.path # <<>> /\ \A k \in DOMAIN doc.text : doc.text[k] # <<>>
     /\ doc.live \/ doc.text = <<>>}

ASSUME BatchAssumption ==
  Batches \subseteq Seq(Seq(Documents)) /\ Singles \subseteq Seq(Documents)

VARIABLES
  memory,    \* the indexes in memory, each to be flushed to a segment
  whole,     \* what one batch of all their documents would build
  files,     \* the segments
  pc,        \* the step of merge_index_files, or the reader's verdict
  at,        \* source -> terms its cursor has consumed
  source,    \* the source whose documents are copied
  count,     \* merged terms found by the first walk
  spool,     \* the spool files
  out,       \* the merged segment
  peak       \* what merge_index_files returns

vars == <<memory, whole, files, pc, at, source, count, spool, out, peak>>

Empty == [docs |-> <<>>, paths |-> <<>>, terms |-> <<>>, names |-> <<>>,
          posts |-> <<>>, places |-> <<>>]

-----------------------------------------------------------------------------
(* The cursors. *)

Sources == DOMAIN files
Valid(i) == at[i] < Len(files[i].terms)
TermHere(i) == TermAt(files[i], files[i].terms[at[i] + 1])

\* The sources whose current term is the least, by index.
LeastTerm ==
  LET valid == {i \in Sources : Valid(i)} IN
    CHOOSE t \in {TermHere(i) : i \in valid} : \A i \in valid : ~ Less(TermHere(i), t)

\* std::sort of the group.
InGroup(group) == Sorted(group, <)

Group == InGroup({i \in Sources : Valid(i) /\ TermHere(i) = LeastTerm})
WalkEnds == \A i \in Sources : ~ Valid(i)

\* Every cursor of the group moves on.
Advanced == [i \in Sources |-> IF i \in ToSet(Group) THEN at[i] + 1 ELSE at[i]]

Rewound == [i \in Sources |-> 0]

\* Mutant of Base: identifiers restart in every source.
BugBase(i) == 0

\* The documents of the sources before.
Base(i) == SumTo([j \in Sources |-> Len(files[j].docs)], i - 1)

-----------------------------------------------------------------------------
(* merge_index_files. *)

WriteSources ==
  /\ pc = "write"
  /\ files' = [i \in DOMAIN memory |-> Write(memory[i])]
  /\ at' = [i \in DOMAIN memory |-> 0]
  /\ pc' = "written"
  /\ UNCHANGED <<memory, whole, source, count, spool, out, peak>>

SameFeatures == \A i \in Sources : files[i].flags = files[1].flags

CheckFeatures ==
  /\ pc = "written" /\ Len(memory) > 1
  /\ pc' = IF SameFeatures THEN "documents" ELSE "rejected"
  /\ UNCHANGED <<memory, whole, files, at, source, count, spool, out, peak>>

\* merge_documents, one source: new identifiers and path offsets.
CopyDocuments ==
  /\ pc = "documents" /\ source <= Len(files)
  /\ LET f == files[source]
         copied == [k \in DOMAIN f.docs |->
                      [f.docs[k] EXCEPT !.id = Base(source) + f.docs[k].id,
                         !.offset = Len(spool.paths) + SumTo([j \in DOMAIN f.docs |-> f.docs[j].length], k - 1)]]
         bytes == FlattenSeq([k \in DOMAIN f.docs |-> PathAt(f, f.docs[k])])
     IN spool' = [spool EXCEPT !.docs = @ \o copied, !.paths = @ \o bytes]
  /\ source' = source + 1
  /\ UNCHANGED <<memory, whole, files, pc, at, count, out, peak>>

DocumentsDone ==
  /\ pc = "documents" /\ source > Len(files)
  /\ pc' = "count"
  /\ UNCHANGED <<memory, whole, files, at, source, count, spool, out, peak>>

\* The first walk_terms.
CountTerm ==
  /\ pc = "count"
  /\ IF WalkEnds
     THEN pc' = "terms" /\ at' = Rewound /\ UNCHANGED count
     ELSE count' = count + 1 /\ at' = Advanced /\ UNCHANGED pc
  /\ UNCHANGED <<memory, whole, files, source, spool, out, peak>>

\* TermCursor::copy_postings for one source of the group: its records, from
\* the place its term record names, and the positions of each, from the place
\* the posting names.
PostsHere(i) ==
  LET r == files[i].terms[at[i] + 1]
      from == r.start \div PostingRecordSize
  IN SubSeq(files[i].posts, from + 1, from + r.df)

CopiedPlaces(i) ==
  LET posts == PostsHere(i) IN
    IF files[i].flags
    THEN FlattenSeq([k \in DOMAIN posts |->
           LET from == posts[k].offset \div PositionSize IN
             SubSeq(files[i].places, from + 1, from + posts[k].freq)])
    ELSE <<>>

CopiedPosts(i, places) ==
  LET posts == PostsHere(i)
      freqs == [k \in DOMAIN posts |-> posts[k].freq]
  IN [k \in DOMAIN posts |->
        [doc |-> Base(i) + posts[k].doc, freq |-> freqs[k],
         offset |-> IF files[i].flags THEN PositionSize * (places + SumTo(freqs, k - 1)) ELSE 0]]

\* One term of the second walk_terms.
CopyTerm ==
  /\ pc = "terms" /\ ~ WalkEnds
  /\ LET term == LeastTerm
         parts == [g \in DOMAIN Group |-> CopiedPlaces(Group[g])]
         before == [g \in DOMAIN Group |->
                      Len(spool.places) + SumTo([h \in DOMAIN parts |-> Len(parts[h])], g - 1)]
         posts == FlattenSeq([g \in DOMAIN Group |-> CopiedPosts(Group[g], before[g])])
         df == Sum([g \in DOMAIN Group |-> files[Group[g]].terms[at[Group[g]] + 1].df])
         record == [offset |-> CountSize + TermRecordSize * count + Len(spool.names),
                    length |-> Len(term), df |-> df,
                    start |-> PostingRecordSize * Len(spool.posts),
                    bytes |-> PostingRecordSize * df]
     IN spool' = [spool EXCEPT !.terms = Append(@, record), !.names = @ \o term,
                               !.posts = @ \o posts, !.places = @ \o FlattenSeq(parts)]
  /\ at' = Advanced
  /\ UNCHANGED <<memory, whole, files, pc, source, count, out, peak>>

\* Mutant of SpoolBytes: a spool is also counted for the section it goes to.
BugSpoolBytes(f) == 2 * Sum(Sections(f))

\* The spools hold the sections without the count of terms.
SpoolBytes(f) == Sum(Sections(f)) - CountSize

\* The spools are copied behind the header and removed.
AssembleFile ==
  /\ pc = "terms" /\ WalkEnds
  /\ out' = WithHeader([flags |-> files[1].flags, docs |-> spool.docs, paths |-> spool.paths,
                        terms |-> spool.terms, names |-> spool.names,
                        posts |-> spool.posts, places |-> spool.places])
  /\ peak' = SpoolBytes(spool) + out'.size
  /\ spool' = Empty
  /\ pc' = "merged"
  /\ UNCHANGED <<memory, whole, files, at, source, count>>

-----------------------------------------------------------------------------
(* Another writer, or a damaged file whose checksums were written anew: one  *)
(* field differs, or one section has lost or repeated its last entry.        *)

Near(n) == {m \in {n - 16, n - 4, n - 1, n + 1, n + 4, n + 16} : m >= 0}

OneAltered(seq, i, d) == {[seq EXCEPT ![i] = [seq[i] EXCEPT ![d] = m]] : m \in Near(seq[i][d])}

Altered(seq, fields) == UNION {OneAltered(seq, i, d) : i \in DOMAIN seq, d \in fields}

Shifted(seq) == UNION {{[seq EXCEPT ![i] = m] : m \in Near(seq[i])} : i \in DOMAIN seq}

Resized(seq) ==
  IF seq = <<>> THEN {} ELSE {Front(seq), Append(seq, seq[Len(seq)])}

Flipped(seq) == {[seq EXCEPT ![i].live = ~ @] : i \in DOMAIN seq}

HeaderDamages(f) ==
  {[f EXCEPT !.flags = ~ @]} \cup {[f EXCEPT !.size = m] : m \in Near(f.size)} \cup
  {[f EXCEPT !.offsets = o] : o \in Shifted(f.offsets)} \cup
  {[f EXCEPT !.lengths = l] : l \in Shifted(f.lengths)}

BodyDamages(f) ==
  {[f EXCEPT !.docs = v] : v \in Altered(f.docs, {"id", "tokens", "length", "offset"})
                                  \cup Flipped(f.docs) \cup Resized(f.docs)} \cup
  {[f EXCEPT !.terms = v] : v \in Altered(f.terms, {"offset", "length", "df", "start", "bytes"})
                                   \cup Resized(f.terms)} \cup
  {[f EXCEPT !.posts = v] : v \in Altered(f.posts, {"doc", "freq", "offset"}) \cup Resized(f.posts)} \cup
  {[f EXCEPT !.places = v] : v \in Shifted(f.places) \cup Resized(f.places)} \cup
  {[f EXCEPT !.paths = v] : v \in Shifted(f.paths) \cup Resized(f.paths)} \cup
  {[f EXCEPT !.names = v] : v \in Shifted(f.names) \cup Resized(f.names)}

Damage ==
  /\ pc = "written" /\ Len(memory) = 1
  /\ \E g \in HeaderDamages(files[1]) \cup {WithHeader(b) : b \in BodyDamages(files[1])} :
       files' = <<g>>
  /\ pc' = "damaged"
  /\ UNCHANGED <<memory, whole, at, source, count, spool, out, peak>>

\* validate_index_file
Read ==
  /\ pc \in {"written", "damaged"} /\ Len(memory) = 1
  /\ pc' = IF Accepted(files[1]) THEN "accepted" ELSE "rejected"
  /\ UNCHANGED <<memory, whole, files, at, source, count, spool, out, peak>>

Init ==
  /\ \E b \in Batches \cup {<<s>> : s \in Singles}, positions \in BOOLEAN :
       /\ memory = [i \in DOMAIN b |-> Build(b[i], positions)]
       /\ whole = Build(FlattenSeq(b), positions)
  /\ pc = "write" /\ files = <<>> /\ at = <<>> /\ source = 1 /\ count = 0
  /\ spool = Empty /\ out = <<>> /\ peak = 0

Next ==
  \/ WriteSources \/ CheckFeatures \/ CopyDocuments \/ DocumentsDone
  \/ CountTerm \/ CopyTerm \/ AssembleFile
  \/ Damage \/ Read

Spec == Init /\ [][Next]_vars

-----------------------------------------------------------------------------
(* Properties. *)

\* Merging segments gives, byte for byte, the segment that one batch of all
\* their documents would have been written as (walk_terms, merge_documents,
\* copy_postings; "parallel K-way merge should reproduce serial v2 bytes",
\* index_builder_resource_test.cpp).
MergedIsOneBatch ==
  pc = "merged" => out = Write(whole)

\* Every file that the writer or the merge produces passes validation, and
\* loads as the index it was written from (write_index_file_bounded against
\* decode_document_table and decode_terms_and_postings).
WrittenReadsBack ==
  /\ pc = "written" =>
       \A i \in Sources : /\ Accepted(files[i])
                          /\ Loaded(files[i]) = memory[i]
  /\ pc = "merged" => Accepted(out)

\* The reader accepts nothing the writer would not write: an accepted file is
\* the one encoding of the index loaded from it (index_validation.cpp).
AcceptedIsCanonical ==
  pc = "accepted" =>
    Writable(Loaded(files[1])) /\ Write(Loaded(files[1])) = files[1]

\* Spools and output never take more than twice the contents of the inputs and
\* two headers, and so less than merge_segment_group requires before it starts.
PeakCovered ==
  pc = "merged" =>
    peak <= 2 * (HeaderSize + Sum([i \in Sources |-> files[i].size - HeaderSize]))
=============================================================================
