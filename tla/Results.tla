------------------------------ MODULE Results -------------------------------
(***************************************************************************)
(* From the documents that match a query to the hits that are shown        *)
(* (Searcher::search behind evaluate_query, src/query/search.cpp): the     *)
(* matches are ranked one by one in a heap that keeps the best top_k, and  *)
(* every hit gets a snippet from the source as it is by then.              *)
(*                                                                         *)
(* What the evaluator found comes in by Answered, as any documents and any *)
(* terms; Search puts parser and evaluator in front.                       *)
(***************************************************************************)
EXTENDS Corpus, Ranking

CONSTANTS
  Indexes,     \* the loaded indexes, by name
  Searches,    \* the searches: index, top_k, rooted (and what Search adds)
  QueryTerms,  \* the terms that queries score
  Characters,  \* what a source line is made of
  Files,       \* what a source file may hold when its snippet is loaded
  MaxSnippet   \* kMaximumSnippetBytes

Continuation == "e2"      \* a byte that continues a character
Newline == "newline"
Return == "return"
Ellipsis == <<".", ".", ".">>
NoFile == <<"missing">>

\* A document has an integer for its place in the order of paths, of its own.
IsIndex(ix) ==
  /\ Len(ix.docs) \in Nat /\ DOMAIN ix.docs = 1 .. Len(ix.docs)
  /\ \A d \in DOMAIN ix.docs :
       ix.docs[d].path \in Int /\ ix.docs[d].text \in Seq(ToSet(ix.docs[d].text))
  /\ \A c, d \in DOMAIN ix.docs : ix.docs[c].path = ix.docs[d].path => c = d

ASSUME ResultsAssumption ==
  /\ \A i \in DOMAIN Indexes : IsIndex(Indexes[i])
  /\ \A s \in Searches : s.index \in DOMAIN Indexes /\ s.top_k \in Nat /\ s.rooted \in BOOLEAN
  /\ Files \subseteq Seq(Characters) /\ NoFile \notin Files
  /\ MaxSnippet \in Nat /\ MaxSnippet > Len(Ellipsis)

VARIABLES
  search,    \* the call: query, index and options
  pc,
  matches,   \* EvaluationResult: the documents that match
  terms,     \* and the positive terms
  rest,      \* the matches that have not been ranked
  top,       \* top_documents
  hits,      \* the hits, best first
  snippets   \* their snippets

resultVars == <<search, pc, matches, terms, rest, top, hits, snippets>>

Index == Indexes[search.index]
Doc(d) == Index.docs[d]

-----------------------------------------------------------------------------
(* Ranking. *)

\* What one term adds to the score: more for more occurrences, less for a
\* term of many documents.  A stand-in for bm25, whose arithmetic is real.
Contribution(frequency, df) == frequency * (1 + Len(Index.docs) - df)

\* score_document: the terms that are in the document.
Score(d, scored) ==
  FoldFunction(+, 0, [t \in {t \in scored : Occurs(Index, d, t) # {}} |->
    Contribution(Cardinality(Occurs(Index, d, t)), Cardinality(Postings(Index, t)))])

Candidate(d) == [id |-> d, score |-> Score(d, terms), path |-> Doc(d).path]

\* The candidates by better_rank.
Sorted(candidates) ==
  CHOOSE h \in Bijection(1 .. Cardinality(candidates), candidates) :
    \A j, k \in DOMAIN h : j < k => ~ BetterRank(h[k], h[j])

-----------------------------------------------------------------------------
(* Snippets. *)

NoLines == [line |-> <<>>, lines |-> <<>>]

\* One character: a newline ends a line, and a return before it is dropped.
AddCharacter(s, c) ==
  IF c # Newline THEN [s EXCEPT !.line = Append(@, c)]
  ELSE [line |-> <<>>,
        lines |-> Append(s.lines, IF s.line # <<>> /\ Last(s.line) = Return
                                  THEN Front(s.line) ELSE s.line)]

\* The lines as load_snippet cuts them; a last line counts only if there is
\* something in it.
LinesOf(file) ==
  LET cut[s \in Seq(Characters)] ==
        IF s = <<>> THEN NoLines ELSE AddCharacter(cut[Front(s)], Last(s))
      whole == cut[file]
  IN IF whole.line = <<>> THEN whole.lines ELSE Append(whole.lines, whole.line)

\* line_matches
LineMatches(line) == terms = {} \/ ToSet(Tokenize(line)) \cap terms # {}

\* Mutant of Boundary: the cut may go through a character.
BugBoundary(line) == MaxSnippet - Len(Ellipsis)

\* The last byte before the ellipsis that ends a character.
Boundary(line) ==
  CHOOSE b \in 0 .. MaxSnippet - Len(Ellipsis) :
    /\ b = 0 \/ line[b + 1] # Continuation
    /\ \A c \in b + 1 .. MaxSnippet - Len(Ellipsis) : line[c + 1] = Continuation

\* truncate_snippet
Truncated(line) ==
  IF Len(line) <= MaxSnippet THEN line ELSE SubSeq(line, 1, Boundary(line)) \o Ellipsis

NoSnippet == [number |-> 0, text |-> <<>>]

\* load_snippet: the first line that matches, if the file can be read.
Snippet(file) ==
  LET lines == LinesOf(file)
      found == {n \in DOMAIN lines : LineMatches(lines[n])}
  IN IF file = NoFile \/ found = {} THEN NoSnippet
     ELSE [number |-> Min(found), text |-> Truncated(lines[Min(found)])]

-----------------------------------------------------------------------------
(* Searcher::search. *)

\* The evaluator has found these documents and these terms to score.
Answered(found, scored) ==
  /\ pc = "query" /\ search.top_k > 0
  /\ matches' = found /\ rest' = found /\ terms' = scored
  /\ pc' = "rank"
  /\ UNCHANGED <<search, top, hits, snippets>>

\* The search ends without an answer: by an error of parser or evaluator, or
\* because no hits are wanted.
Unanswered(how) ==
  /\ pc = "query"
  /\ how = "done" => search.top_k = 0
  /\ pc' = how
  /\ UNCHANGED <<search, matches, terms, rest, top, hits, snippets>>

\* One pass of the loop of rank_documents, in the order of identifiers.
Rank ==
  /\ pc = "rank" /\ rest # {}
  /\ top' = Offer(top, Candidate(Min(rest)), search.top_k)
  /\ rest' = rest \ {Min(rest)}
  /\ UNCHANGED <<search, pc, matches, terms, hits, snippets>>

Sort ==
  /\ pc = "rank" /\ rest = {}
  /\ hits' = Sorted(top)
  /\ pc' = IF search.rooted THEN "present" ELSE "done"
  /\ UNCHANGED <<search, matches, terms, rest, top, snippets>>

Present ==
  /\ pc = "present"
  /\ IF Len(snippets) = Len(hits)
     THEN pc' = "done" /\ UNCHANGED snippets
     ELSE /\ \E file \in Files \cup {NoFile} :
               snippets' = Append(snippets, [file |-> file, shown |-> Snippet(file)])
          /\ UNCHANGED pc
  /\ UNCHANGED <<search, matches, terms, rest, top, hits>>

ResultsInit ==
  /\ search \in Searches
  /\ pc = "query" /\ matches = {} /\ terms = {} /\ rest = {}
  /\ top = {} /\ hits = <<>> /\ snippets = <<>>

ResultsNext ==
  \/ \E found \in SUBSET Universe(Index), scored \in SUBSET QueryTerms : Answered(found, scored)
  \/ \E how \in {"rejected", "refused", "done"} : Unanswered(how)
  \/ Rank \/ Sort \/ Present

ResultsSpec == ResultsInit /\ [][ResultsNext]_resultVars

-----------------------------------------------------------------------------
(* Properties. *)

\* The hits are the best of what matches, in order: no document that matches
\* and is not shown ranks before one that is, ties going to the path,
\* whatever order the matches came in (rank_documents).
BestShown ==
  pc \in {"present", "done"} /\ search.top_k > 0 =>
    LET Key(d) == [score |-> Score(d, terms), path |-> Doc(d).path]
        Precedes(c, d) ==
          \/ Key(c).score > Key(d).score
          \/ Key(c).score = Key(d).score /\ Key(c).path < Key(d).path
        shown == {hits[k].id : k \in DOMAIN hits}
    IN /\ shown \subseteq matches
       /\ Cardinality(shown) = Min({search.top_k, Cardinality(matches)})
       /\ \A c \in shown, d \in matches \ shown : Precedes(c, d)
       /\ \A j, k \in DOMAIN hits : j < k => Precedes(hits[j].id, hits[k].id)

\* A snippet is a line of the file that is short enough, or that was cut
\* between two characters, as late as there is room for (truncate_snippet).
SnippetsWellCut ==
  \A k \in DOMAIN snippets :
    LET text == snippets[k].shown.text
        lines == LinesOf(snippets[k].file)
        line == lines[snippets[k].shown.number]
        CutsAt(n) == n = 0 \/ line[n + 1] # Continuation
    IN snippets[k].shown # NoSnippet =>
         /\ snippets[k].shown.number \in DOMAIN lines
         /\ \/ text = line /\ Len(line) <= MaxSnippet
            \/ \E n \in 0 .. MaxSnippet - Len(Ellipsis) :
                 /\ text = SubSeq(line, 1, n) \o Ellipsis
                 /\ CutsAt(n) /\ Len(line) > MaxSnippet
                 /\ \A m \in n + 1 .. MaxSnippet - Len(Ellipsis) : ~ CutsAt(m)
=============================================================================
