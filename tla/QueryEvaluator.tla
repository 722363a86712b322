--------------------------- MODULE QueryEvaluator ---------------------------
(***************************************************************************)
(* Evaluating a query tree over one loaded index                           *)
(* (src/query/query_evaluator.cpp).                                        *)
(***************************************************************************)
EXTENDS QueryParser

CONSTANTS
  MaxPrefixTerms,   \* kMaxExpandedPrefixTerms
  NanosPerDay,      \* nanoseconds_per_day
  Globs             \* pattern -> the paths fnmatch says it matches

Dictionary(ix) == UNION {ToSet(ix.docs[d].text) : d \in Universe(ix)}

\* The terms a prefix node stands for.
Expansion(ix, node) == {t \in Dictionary(ix) : IsPrefix(node.value, t)}

RECURSIVE ExpandedTerms(_, _)
ExpandedTerms(ix, node) ==
  (IF node.kind = "prefix" THEN Expansion(ix, node) ELSE {})
    \cup UNION {ExpandedTerms(ix, node.args[k]) : k \in DOMAIN node.args}

\* Mutant of TooManyTerms: the limit is reached too early.
BugTooManyTerms(ix, node) == Cardinality(ExpandedTerms(ix, node)) >= MaxPrefixTerms

\* prepare_prefixes: "query prefix expansion exceeds 256 distinct terms", of
\* all prefixes of the query together.
TooManyTerms(ix, node) == Cardinality(ExpandedTerms(ix, node)) > MaxPrefixTerms

\* collect_positive_terms
RECURSIVE PositiveTerms(_, _, _)
PositiveTerms(ix, node, negated) ==
  CASE node.kind \in {"and", "or"} ->
         PositiveTerms(ix, node.args[1], negated) \cup PositiveTerms(ix, node.args[2], negated)
    [] node.kind = "not" -> PositiveTerms(ix, node.args[1], ~ negated)
    [] node.kind \in Filters \/ negated -> {}
    [] node.kind = "term" -> {node.value}
    [] node.kind = "prefix" -> Expansion(ix, node)
    [] node.kind = "phrase" -> ToSet(node.value)

ExactSpan(terms) == Len(terms) - 1

\* phrase_matches: from every start, always the next position of the next
\* term; 0 when there is none.
PhraseMatches(ix, d, terms, near) ==
  LET Follow(p, t) ==
        LET later == {q \in Occurs(ix, d, t) : q > p} IN
          IF p = 0 \/ later = {} THEN 0 ELSE Min(later)
  IN \E start \in Occurs(ix, d, terms[1]) :
       LET end == FoldLeft(Follow, start, Tail(terms)) IN
         end > 0 /\ end - start - ExactSpan(terms) <= near

Compare(x, comparison, y) ==
  CASE comparison = "=" -> x = y [] comparison = "!=" -> x # y
    [] comparison = "<" -> x < y [] comparison = "<=" -> x <= y
    [] comparison = ">" -> x > y [] comparison = ">=" -> x >= y

Quotient(x, y) == IF x >= 0 THEN x \div y ELSE - ((- x) \div y)

\* utc_day: the quotient is rounded towards zero and then corrected.
UtcDay(ns) ==
  LET day == Quotient(ns, NanosPerDay) IN
    IF ns - day * NanosPerDay < 0 THEN day - 1 ELSE day

\* ascii_lower and the removal of a leading dot.
Lower(c) == IF c = "MD" THEN "md" ELSE c
BareExtension(s) ==
  LET bare == IF s # <<>> /\ s[1] = "." THEN Tail(s) ELSE s IN [k \in DOMAIN bare |-> Lower(bare[k])]

\* evaluate_path_filter, evaluate_extension_filter, evaluate_size_filter,
\* evaluate_mtime_filter
FilterMatches(doc, node) ==
  CASE node.kind = "path" -> doc.path \in Globs[node.value]
    [] node.kind = "extension" -> BareExtension(doc.extension) = BareExtension(node.value)
    [] node.kind = "size" -> Compare(doc.size, node.detail, node.value)
    [] node.kind = "mtime" -> Compare(UtcDay(doc.mtime), node.detail, node.value)

\* estimate
RECURSIVE Estimate(_, _)
Estimate(ix, node) ==
  LET size == Len(ix.docs) IN
    CASE node.kind = "term" -> Cardinality(Postings(ix, node.value))
      [] node.kind = "prefix" ->
           Min({size, MapThenSumSet(LAMBDA t : Cardinality(Postings(ix, t)), Expansion(ix, node))})
      [] node.kind = "phrase" ->
           Min({size} \cup {Cardinality(Postings(ix, t)) : t \in ToSet(node.value)})
      [] node.kind = "and" -> Min({Estimate(ix, node.args[1]), Estimate(ix, node.args[2])})
      [] node.kind = "or" -> Min({size, Estimate(ix, node.args[1]) + Estimate(ix, node.args[2])})
      [] OTHER -> size

\* collect_conjuncts
RECURSIVE Conjuncts(_)
Conjuncts(node) ==
  IF node.kind = "and" THEN Conjuncts(node.args[1]) \o Conjuncts(node.args[2]) ELSE <<node>>

\* The conjuncts by estimate, equal ones in their order.
Ordered(ix, conjuncts) ==
  LET estimates == [k \in DOMAIN conjuncts |-> Estimate(ix, conjuncts[k])]
      Before(i, j) == estimates[i] < estimates[j] \/ (estimates[i] = estimates[j] /\ i < j)
      order == SortSeq([k \in DOMAIN conjuncts |-> k], Before)
  IN [k \in DOMAIN order |-> conjuncts[order[k]]]

Matches(docs) == [docs |-> docs, refused |-> FALSE]
Refused == [docs |-> {}, refused |-> TRUE]

\* Mutant of Done: a conjunction stops when one document is left.
BugDone(matches) == matches.refused \/ Cardinality(matches.docs) <= 1

\* Nothing is left to narrow: the later conjuncts are not looked at.
Done(matches) == matches.refused \/ matches.docs = {}

\* Evaluator::evaluate, with evaluate_term, evaluate_prefix, evaluate_phrase
\* and evaluate_conjunction: the matching documents, or a refusal.
RECURSIVE Evaluate(_, _)
Evaluate(ix, node) ==
  CASE node.kind = "term" -> Matches(Postings(ix, node.value))
    [] node.kind = "prefix" -> Matches(UNION {Postings(ix, t) : t \in Expansion(ix, node)})
    [] node.kind = "phrase" ->
         IF ~ ix.positions THEN Refused
         ELSE Matches({d \in Universe(ix) : PhraseMatches(ix, d, node.value, node.detail)})
    [] node.kind \in Filters -> Matches({d \in Universe(ix) : FilterMatches(ix.docs[d], node)})
    [] node.kind = "or" ->
         LET left == Evaluate(ix, node.args[1])
             right == Evaluate(ix, node.args[2])
         IN IF left.refused \/ right.refused THEN Refused ELSE Matches(left.docs \cup right.docs)
    [] node.kind = "not" ->
         LET left == Evaluate(ix, node.args[1]) IN
           IF left.refused THEN Refused ELSE Matches(Universe(ix) \ left.docs)
    [] node.kind = "and" ->
         LET conjuncts == Ordered(ix, Conjuncts(node))
             Narrow(matches, conjunct) ==
               IF Done(matches) THEN matches
               ELSE LET found == Evaluate(ix, conjunct) IN
                      IF found.refused THEN Refused ELSE Matches(matches.docs \cap found.docs)
         IN FoldLeft(Narrow, Evaluate(ix, conjuncts[1]), Tail(conjuncts))
=============================================================================
