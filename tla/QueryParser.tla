---------------------------- MODULE QueryParser ----------------------------
(***************************************************************************)
(* From the bytes of a query to its tree (src/query/query_parser.cpp).     *)
(***************************************************************************)
EXTENDS Corpus

CONSTANTS
  MaxDepth,    \* kMaxQueryDepth
  MaxLength,   \* kMaxQueryExpressionLength
  MaxSize      \* the largest size in bytes, 2^64 - 1 in the code

ASSUME ParserAssumption == MaxDepth \in Nat \ {0} /\ MaxLength \in Nat /\ MaxSize \in Nat

Quote == "\""
Backslash == "\\"
Fields == [c \in {"path:", "extension:", "size:", "mtime:"} |->
             CASE c = "path:" -> "path" [] c = "extension:" -> "extension"
               [] c = "size:" -> "size" [] c = "mtime:" -> "mtime"]
Comparisons == {"=", "!=", "<", "<=", ">", ">="}
Wildcards == {"*", "?", "~"}

\* The dates that a text may hold, as year, month and day.
Date == [c \in {"1969-12-31", "1970-01-01", "1900-03-01", "1900-02-29", "2000-02-29",
                "2000-03-01", "2023-13-01", "2024-02-30", "0000-01-01"} |->
  CASE c = "1969-12-31" -> <<1969, 12, 31>> [] c = "1970-01-01" -> <<1970, 1, 1>>
    [] c = "1900-03-01" -> <<1900, 3, 1>>   [] c = "1900-02-29" -> <<1900, 2, 29>>
    [] c = "2000-02-29" -> <<2000, 2, 29>>  [] c = "2000-03-01" -> <<2000, 3, 1>>
    [] c = "2023-13-01" -> <<2023, 13, 1>>  [] c = "2024-02-30" -> <<2024, 2, 30>>
    [] c = "0000-01-01" -> <<0, 1, 1>>]

-----------------------------------------------------------------------------
(* The lexer.  Each operator takes the text from its position on; a token    *)
(* carries the rest.                                                         *)

Token(kind, text, near, rest) == [kind |-> kind, text |-> text, near |-> near, rest |-> rest]
BadToken == Token("bad", <<>>, 0, <<>>)

From(s, n) == SubSeq(s, n, Len(s))

\* What may follow a quoted value.
Ended(s) == s = <<>> \/ Head(s) \in {Space, ")"}

\* "only quote and backslash may be escaped"
Escaped(c) == c \in {Quote, Backslash}

\* read_quoted_value, behind the opening quote.
RECURSIVE ReadQuoted(_, _)
ReadQuoted(s, value) ==
  IF s = <<>> THEN BadToken
  ELSE IF Head(s) = Quote THEN Token("quoted", value, 0, Tail(s))
  ELSE IF Head(s) # Backslash THEN ReadQuoted(Tail(s), Append(value, Head(s)))
  ELSE IF Len(s) > 1 /\ Escaped(s[2]) THEN ReadQuoted(From(s, 3), Append(value, s[2]))
  ELSE BadToken

\* A quoted value that nothing but a space or a parenthesis follows.
Closed(kind, q, near, rest) ==
  IF q.kind = "bad" \/ ~ Ended(rest) THEN BadToken ELSE Token(kind, q.text, near, rest)

\* A phrase and its read_proximity.
ReadPhrase(s) ==
  LET q == ReadQuoted(Tail(s), <<>>) IN
    IF q.rest = <<>> \/ Head(q.rest) # "~" THEN Closed("phrase", q, 0, q.rest)
    ELSE IF Len(q.rest) > 1 /\ q.rest[2] \in DOMAIN Digits
    THEN Closed("phrase", q, Digits[q.rest[2]], From(q.rest, 3))
    ELSE BadToken

\* read_word
ReadWord(s) ==
  LET filter == s[1] \in DOMAIN Fields
      ends == {n \in 0 .. Len(s) : \A k \in 1 .. n : s[k] \notin {Space, "(", ")"}}
      n == CHOOSE n \in ends : \A m \in ends : m <= n
      raw == SubSeq(s, 1, n)
  IN IF filter /\ Len(s) > 1 /\ s[2] = Quote
     THEN LET q == ReadQuoted(From(s, 3), <<>>) IN Closed(Fields[s[1]], q, 0, q.rest)
     ELSE IF Contains(raw, Quote) THEN BadToken
     ELSE IF n = 1 /\ raw[1] \in DOMAIN Keyword THEN Token(Keyword[raw[1]], <<>>, 0, From(s, 2))
     ELSE IF filter THEN Token(Fields[s[1]], Tail(raw), 0, From(s, n + 1))
     ELSE Token("word", raw, 0, From(s, n + 1))

\* Lexer::next until the end or an error.
RECURSIVE Lex(_)
Lex(s) ==
  IF s = <<>> THEN <<>>
  ELSE IF Head(s) = Space THEN Lex(Tail(s))
  ELSE LET t == CASE Head(s) = "(" -> Token("open", <<>>, 0, Tail(s))
                  [] Head(s) = ")" -> Token("close", <<>>, 0, Tail(s))
                  [] Head(s) = Quote -> ReadPhrase(s)
                  [] OTHER -> ReadWord(s)
       IN <<t>> \o Lex(t.rest)

-----------------------------------------------------------------------------
(* Leaves. *)

Node(kind, value, detail, args) ==
  [kind |-> kind, value |-> value, detail |-> detail, args |-> args]
ErrorNode == Node("error", <<>>, 0, <<>>)

\* Terms and prefixes: one normalized term, with at most one wildcard, at its
\* end.
WordNode(text) ==
  LET wild == {k \in DOMAIN text : text[k] \in Wildcards}
      raw == IF wild = {} THEN text ELSE Front(text)
  IN IF wild # {} /\ (Len(text) < 2 \/ wild # {Len(text)} \/ text[Len(text)] # "*") THEN ErrorNode
     ELSE IF Len(Tokenize(raw)) # 1 THEN ErrorNode
     ELSE Node(IF wild = {} THEN "term" ELSE "prefix", Tokenize(raw)[1], 0, <<>>)

PhraseNode(t) ==
  IF Tokenize(t.text) = <<>> THEN ErrorNode ELSE Node("phrase", Tokenize(t.text), t.near, <<>>)

\* "query size exceeds uint64_t"
TooLarge(n, unit) == n > MaxSize \div unit

\* parse_size; -1 is an error.
ParseSize(s) ==
  LET unit == IF Len(s) = 2 THEN Units[s[2]] ELSE 1 IN
    IF s[1] \notin DOMAIN Digits \/ Len(s) > 2 \/ (Len(s) = 2 /\ s[2] \notin DOMAIN Units) THEN -1
    ELSE IF TooLarge(Digits[s[1]], unit) THEN -1
    ELSE Digits[s[1]] * unit

IsLeapYear(y) == y % 4 = 0 /\ (y % 100 # 0 \/ y % 400 = 0)
MonthDays(y, m) ==
  IF m = 2 /\ IsLeapYear(y) THEN 29
  ELSE <<31, 28, 31, 30, 31, 30, 31, 31, 30, 31, 30, 31>>[m]

\* Months counted from March.
ShiftedMonth(m) == IF m > 2 THEN m - 3 ELSE m + 9

\* days_from_civil
DaysFromCivil(y, m, d) ==
  LET year == IF m <= 2 THEN y - 1 ELSE y
      era == year \div 400
      yearOfEra == year - era * 400
      dayOfYear == (153 * ShiftedMonth(m) + 2) \div 5 + d - 1
      dayOfEra == yearOfEra * 365 + yearOfEra \div 4 - yearOfEra \div 100 + dayOfYear
  IN era * 146097 + dayOfEra - 719468

ValidDate(y, m, d) == y > 0 /\ m \in 1 .. 12 /\ d \in 1 .. MonthDays(y, m)

\* Filters.  A comparison is the first character of the value, if it is one.
FilterNode(t) ==
  LET compares == t.text # <<>> /\ t.text[1] \in Comparisons
      comparison == IF compares THEN t.text[1] ELSE "="
      operand == IF compares THEN Tail(t.text) ELSE t.text
  IN CASE t.text = <<>> \/ (t.kind \in {"size", "mtime"} /\ operand = <<>>) -> ErrorNode
       [] t.kind = "path" -> Node("path", t.text, 0, <<>>)
       [] t.kind = "extension" ->
            IF t.text = <<".">> \/ Contains(t.text, "/") \/ Contains(t.text, Backslash)
            THEN ErrorNode ELSE Node("extension", t.text, 0, <<>>)
       [] t.kind = "size" ->
            IF ParseSize(operand) = -1 THEN ErrorNode
            ELSE Node("size", ParseSize(operand), comparison, <<>>)
       [] t.kind = "mtime" ->
            IF Len(operand) = 1 /\ operand[1] \in DOMAIN Date
               /\ ValidDate(Date[operand[1]][1], Date[operand[1]][2], Date[operand[1]][3])
            THEN Node("mtime",
                      DaysFromCivil(Date[operand[1]][1], Date[operand[1]][2], Date[operand[1]][3]),
                      comparison, <<>>)
            ELSE ErrorNode

-----------------------------------------------------------------------------
(* The parser.  Each operator takes the tokens from the lookahead on and     *)
(* nesting_depth_, and returns a tree with the tokens it leaves.             *)

Parsed(node, rest) == [node |-> node, rest |-> rest]
Failure == Parsed(ErrorNode, <<>>)
Failed(p) == p.node.kind = "error"

Kind(ts) == IF ts = <<>> THEN "end" ELSE Head(ts).kind

Filters == {"path", "extension", "size", "mtime"}

\* Mutant of StartsOperand: NOT does not continue a conjunction.
BugStartsOperand(kind) == kind \in {"word", "phrase", "open"} \cup Filters

\* starts_operand: what an implicit AND may precede.
StartsOperand(kind) == kind \in {"word", "phrase", "not", "open"} \cup Filters

\* parse_disjunction, parse_conjunction, parse_unary, parse_primary; the loops
\* of the first two are operators of their own.
RECURSIVE Disjunction(_, _), MoreDisjuncts(_, _), Conjunction(_, _), MoreConjuncts(_, _),
          Unary(_, _), Primary(_, _)

Disjunction(ts, depth) == MoreDisjuncts(Conjunction(ts, depth), depth)

MoreDisjuncts(left, depth) ==
  IF Failed(left) \/ Kind(left.rest) # "or" THEN left
  ELSE LET right == Conjunction(Tail(left.rest), depth) IN
         IF Failed(right) THEN Failure
         ELSE MoreDisjuncts(
                Parsed(Node("or", <<>>, 0, <<left.node, right.node>>), right.rest), depth)

Conjunction(ts, depth) == MoreConjuncts(Unary(ts, depth), depth)

MoreConjuncts(left, depth) ==
  IF Failed(left) \/ ~ (Kind(left.rest) = "and" \/ StartsOperand(Kind(left.rest))) THEN left
  ELSE LET right == Unary(IF Kind(left.rest) = "and" THEN Tail(left.rest) ELSE left.rest, depth) IN
         IF Failed(right) THEN Failure
         ELSE MoreConjuncts(
                Parsed(Node("and", <<>>, 0, <<left.node, right.node>>), right.rest), depth)

Unary(ts, depth) ==
  IF Kind(ts) # "not" THEN Primary(ts, depth)
  ELSE IF depth >= MaxDepth THEN Failure
  ELSE LET p == Unary(Tail(ts), depth + 1) IN
         IF Failed(p) THEN Failure ELSE Parsed(Node("not", <<>>, 0, <<p.node>>), p.rest)

Primary(ts, depth) ==
  CASE Kind(ts) = "open" ->
         LET p == IF depth >= MaxDepth THEN Failure ELSE Disjunction(Tail(ts), depth + 1) IN
           IF Failed(p) \/ Kind(p.rest) # "close" THEN Failure ELSE Parsed(p.node, Tail(p.rest))
    [] Kind(ts) = "word" -> Parsed(WordNode(Head(ts).text), Tail(ts))
    [] Kind(ts) = "phrase" -> Parsed(PhraseNode(Head(ts)), Tail(ts))
    [] Kind(ts) \in Filters -> Parsed(FilterNode(Head(ts)), Tail(ts))
    [] OTHER -> Failure

\* expression_depth
RECURSIVE ExpressionDepth(_)
ExpressionDepth(node) == 1 + Max({0} \cup {ExpressionDepth(node.args[k]) : k \in DOMAIN node.args})

\* parse_query: the tree, or ErrorNode.
ParseQuery(text) ==
  LET p == Disjunction(Lex(text), 0) IN
    IF Len(text) > MaxLength \/ Failed(p) \/ p.rest # <<>> \/ ExpressionDepth(p.node) > MaxDepth
    THEN ErrorNode ELSE p.node
=============================================================================
