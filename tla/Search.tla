------------------------------- MODULE Search -------------------------------
(***************************************************************************)
(* One search on a loaded index (Searcher::search, src/query/search.cpp):  *)
(* the query is parsed and evaluated, and what is found is ranked and      *)
(* presented as in Results.                                                *)
(*                                                                         *)
(* The query comes as a sequence of items, whose characters are joined to  *)
(* the text that the program sees.  The properties compare what it does    *)
(* with what the items mean.                                               *)
(***************************************************************************)
EXTENDS QueryEvaluator, Results

VARIABLE query   \* the tree

vars == <<search, pc, query, matches, terms, rest, top, hits, snippets>>

-----------------------------------------------------------------------------
(* The text of a query. *)

\* Items are separated by a space, and tight ones not from the parenthesis
\* around them.
Separator(left, right) ==
  IF search.tight /\ (left.is = "open" \/ right.is = "close") THEN <<>> ELSE <<Space>>

Text ==
  LET items == search.items IN
    FlattenSeq([k \in DOMAIN items |->
      items[k].chars \o (IF k = Len(items) THEN <<>> ELSE Separator(items[k], items[k + 1]))])

-----------------------------------------------------------------------------
(* Searcher::search. *)

Unparsed == Node("unparsed", <<>>, 0, <<>>)

Parse ==
  /\ pc = "query" /\ query.kind = "unparsed"
  /\ query' = ParseQuery(Text)
  /\ IF query'.kind = "error" THEN Unanswered("rejected")
     ELSE IF search.top_k = 0 THEN Unanswered("done")
     ELSE UNCHANGED resultVars

EvaluateQuery ==
  /\ pc = "query" /\ query.kind # "unparsed"
  /\ LET found == Evaluate(Index, query) IN
       IF TooManyTerms(Index, query) \/ found.refused THEN Unanswered("refused")
       ELSE Answered(found.docs, PositiveTerms(Index, query, FALSE))
  /\ UNCHANGED query

Init == ResultsInit /\ query = Unparsed

Next == Parse \/ EvaluateQuery \/ ((Rank \/ Sort \/ Present) /\ UNCHANGED query)

Spec == Init /\ [][Next]_vars

-----------------------------------------------------------------------------
(* The reference: what a sequence of items means.  OR binds less than AND    *)
(* and adjacency, and these less than NOT; among equals the last one is the  *)
(* root of the tree.  An item is an operand with the documents it matches by *)
(* itself, or a connective; a bad one is no query.                           *)

Connectives == {"and", "or", "not", "open", "close"}
Ends(item) == item.is \notin {"and", "or", "not", "open"}
Begins(item) == item.is \notin {"and", "or", "close"}

\* Whether the words occur in this order, with at most near others between.
Follows(text, words, near) ==
  \E at \in [DOMAIN words -> DOMAIN text] :
    /\ \A k \in DOMAIN words : text[at[k]] = words[k]
    /\ \A j, k \in DOMAIN words : j < k => at[j] < at[k]
    /\ at[Len(words)] - at[1] < Len(words) + near

\* Days from the first day of year 1 to a date, by counting.
LeapDaysBefore(y) == Cardinality({z \in 1 .. y - 1 : IsLeapYear(z)})
DayNumber(y, m, d) ==
  365 * (y - 1) + LeapDaysBefore(y) + d +
  FoldLeft(+, 0, [k \in 1 .. m - 1 |-> MonthDays(y, k)])
DayOf(date) == DayNumber(date[1], date[2], date[3]) - DayNumber(1970, 1, 1)

\* The days that a moment lies after.
Since(ns, day) == ns >= day * NanosPerDay

ItemMatches(item, doc) ==
  CASE item.is = "word" -> \E k \in DOMAIN doc.text : doc.text[k] = item.words[1]
    [] item.is = "prefix" -> \E k \in DOMAIN doc.text : IsPrefix(item.words[1], doc.text[k])
    [] item.is = "phrase" -> Follows(doc.text, item.words, item.near)
    [] item.is = "size" -> Compare(doc.size, item.compare, item.near)
    [] item.is = "path" -> doc.path \in Globs[item.words[1]]
    [] item.is = "extension" -> doc.extension \in ToSet(item.words)
    [] item.is = "mtime" ->
         LET day == DayOf(Date[item.words[1][1]]) IN
           CASE item.compare = "=" -> Since(doc.mtime, day) /\ ~ Since(doc.mtime, day + 1)
             [] item.compare = "!=" -> ~ (Since(doc.mtime, day) /\ ~ Since(doc.mtime, day + 1))
             [] item.compare = "<" -> ~ Since(doc.mtime, day)
             [] item.compare = "<=" -> ~ Since(doc.mtime, day + 1)
             [] item.compare = ">" -> Since(doc.mtime, day + 1)
             [] item.compare = ">=" -> Since(doc.mtime, day)

\* Positions outside all parentheses.
Outside(items, k) ==
  LET Count(what) == Cardinality({j \in 1 .. k - 1 : items[j].is = what}) IN
    Count("open") = Count("close")

\* Where a conjunction may be split: at an AND, or before an item that begins
\* an operand where another has ended.
Splits(items) ==
  {k \in 2 .. Len(items) :
     \/ items[k].is = "and" /\ Outside(items, k)
     \/ Ends(items[k - 1]) /\ Begins(items[k]) /\ Outside(items, k)}

\* needs: no answer without positions; known: the documents that the operands
\* of a conjunction that need none leave.
Meant(docs, needs, known, scored, height, nest) ==
  [ok |-> TRUE, docs |-> docs, needs |-> needs, known |-> known, scored |-> scored,
   height |-> height, nest |-> nest]
NotMeant ==
  [ok |-> FALSE, docs |-> {}, needs |-> FALSE, known |-> {}, scored |-> {}, height |-> 0, nest |-> 0]

Known(docs, needs) == IF needs THEN DOMAIN Index.docs ELSE docs

Higher(left, right) == 1 + Max({left.height, right.height})
Deeper(left, right) == Max({left.nest, right.nest})

OperandTerms(item) ==
  CASE item.is = "word" -> {item.words[1]}
    [] item.is = "phrase" -> ToSet(item.words)
    [] item.is = "prefix" ->
         {t \in UNION {ToSet(Doc(d).text) : d \in DOMAIN Index.docs} : IsPrefix(item.words[1], t)}
    [] OTHER -> {}

\* The documents a query matches, whether it needs positions, the terms that
\* are scored, and its height and nesting; neg says whether it stands under an
\* odd number of NOTs.  A conjunction whose other operands leave no document
\* can be answered without its phrases.
RECURSIVE Meaning(_, _)
Meaning(items, neg) ==
  LET ors == {k \in DOMAIN items : items[k].is = "or" /\ Outside(items, k)}
      splits == Splits(items)
      Both(left, right, docs, needs, known) ==
        IF left.ok /\ right.ok
        THEN Meant(docs, needs, known, left.scored \cup right.scored,
                   Higher(left, right), Deeper(left, right))
        ELSE NotMeant
  IN CASE items = <<>> -> NotMeant
       [] ors # {} ->
            LET left == Meaning(SubSeq(items, 1, Max(ors) - 1), neg)
                right == Meaning(From(items, Max(ors) + 1), neg)
                docs == left.docs \cup right.docs
                needs == left.needs \/ right.needs
            IN Both(left, right, docs, needs, Known(docs, needs))
       [] ors = {} /\ splits # {} ->
            LET k == Max(splits)
                left == Meaning(SubSeq(items, 1, k - 1), neg)
                right == Meaning(From(items, IF items[k].is = "and" THEN k + 1 ELSE k), neg)
                known == left.known \cap right.known
            IN Both(left, right, left.docs \cap right.docs,
                    (left.needs \/ right.needs) /\ known # {}, known)
       [] OTHER ->
            CASE items[1].is = "not" ->
                   LET m == Meaning(Tail(items), ~ neg)
                       docs == DOMAIN Index.docs \ m.docs
                   IN IF m.ok
                      THEN Meant(docs, m.needs, Known(docs, m.needs), m.scored, m.height + 1, m.nest + 1)
                      ELSE NotMeant
              [] items[1].is = "open" ->
                   LET m == Meaning(SubSeq(items, 2, Len(items) - 1), neg) IN
                     IF m.ok /\ items[Len(items)].is = "close"
                     THEN [m EXCEPT !.nest = @ + 1] ELSE NotMeant
              [] OTHER ->
                   IF Len(items) = 1 /\ items[1].is \notin Connectives \cup {"bad"}
                   THEN LET docs == {d \in DOMAIN Index.docs : ItemMatches(items[1], Doc(d))}
                            needs == items[1].is = "phrase"
                        IN Meant(docs, needs, Known(docs, needs),
                                 IF neg THEN {} ELSE OperandTerms(items[1]), 1, 0)
                   ELSE NotMeant

Meaningful == Meaning(search.items, FALSE)

WithinDepth(m) == m.height <= MaxDepth /\ m.nest <= MaxDepth

PrefixItems == {k \in DOMAIN search.items : search.items[k].is = "prefix"}
HasPhrase == \E k \in DOMAIN search.items : search.items[k].is = "phrase"

-----------------------------------------------------------------------------
(* Properties. *)

\* A query is rejected exactly if it means nothing, is too deep or too long, whatever
\* the index and top_k are (Parser, Lexer; "Keep syntax and Boolean semantics
\* independent of result limits").
RejectedIffMeaningless ==
  query.kind # "unparsed" =>
    (pc = "rejected" <=> ~ (Meaningful.ok /\ WithinDepth(Meaningful) /\ Len(Text) <= MaxLength))

\* What is evaluated is what is meant: the grammar, the order in which the
\* conjuncts are taken, the way phrases are followed, and the days of dates
\* agree with the reference, for every query that the index has the data to
\* answer (parse_query, evaluate_query).
MatchesAsMeant ==
  pc = "rank" /\ rest = matches /\ (Index.positions \/ ~ HasPhrase) =>
    matches = Meaningful.docs /\ terms = Meaningful.scored

\* A query is refused only for phrases on an index without positions, or for
\* more prefix terms than allowed; with too many terms it always is, and
\* without positions it is whenever a phrase can decide the answer, in any
\* order of the conjuncts (evaluate_phrase, evaluate_conjunction,
\* prepare_prefixes).  A phrase beside operands that leave nothing may be
\* refused or not, by the order of the estimates, where docs/index-format.md:215
\* has every phrase refused.
RefusedForItsReasons ==
  LET expanded == UNION {OperandTerms(search.items[k]) : k \in PrefixItems} IN
    /\ pc = "refused" =>
         Cardinality(expanded) > MaxPrefixTerms \/ (~ Index.positions /\ HasPhrase)
    /\ pc \in {"rank", "present"} =>
         Cardinality(expanded) <= MaxPrefixTerms /\ (Index.positions \/ ~ Meaningful.needs)
=============================================================================
