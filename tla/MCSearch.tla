------------------------------ MODULE MCSearch ------------------------------
(* All queries of up to three items over the whole vocabulary, all of four  *)
(* and five over what the grammar is about, every comparison with every     *)
(* date, and queries with snippets; over a corpus in which scores are equal *)
(* and the order of the paths is not that of the identifiers.               *)
EXTENDS Search

A == <<"a">>
B == <<"b">>
AB == <<"a", "b">>

Item(is, chars, words, near, compare) ==
  [is |-> is, chars |-> chars, words |-> words, near |-> near, compare |-> compare]
Plain(is, chars) == Item(is, chars, <<>>, 0, "=")
Word(w) == Item("word", w, <<w>>, 0, "=")
Absent == Word(<<"c">>)   \* a word of no document
Quoted(chars) == <<Quote>> \o chars \o <<Quote>>

Or == Plain("or", <<"OR">>)
And == Plain("and", <<"AND">>)
Not == Plain("not", <<"NOT">>)
Open == Plain("open", <<"(">>)
Close == Plain("close", <<")">>)
Phrase == Item("phrase", Quoted(<<"a", " ", "b">>), <<A, B>>, 0, "=")
NearPhrase == Item("phrase", Quoted(<<"a", "\\", "\"", "b">>) \o <<"~", "1">>, <<A, B>>, 1, "=")
Prefix == Item("prefix", <<"a", "*">>, <<A>>, 0, "=")

Good ==
  {Word(A), Word(B), Word(AB), Prefix, Item("prefix", <<"b", "*">>, <<B>>, 0, "="),
   Phrase, NearPhrase, Item("phrase", Quoted(B), <<B>>, 0, "="),
   Item("size", <<"size:", "<", "2">>, <<>>, 2, "<"),
   Item("size", <<"size:">> \o Quoted(<<">=", "1", "KiB">>), <<>>, 4, ">="),
   Item("size", <<"size:", "2", "MiB">>, <<>>, 32, "="),
   Item("extension", <<"extension:", ".", "MD">>, <<<<".", "md">>, <<".", "MD">>>>, 0, "="),
   Item("path", <<"path:", "b">>, <<B>>, 0, "=")}

Bad ==
  {Plain("bad", c) : c \in {<<"a", "*", "b">>, <<"*">>, <<"a", "~">>, <<"a", "?">>, <<"a", "\\", "b">>,
     Quoted(<<"a", "\\", "a">>), <<"a", Quote>>, Quoted(<<"*">>),
     Quoted(A) \o <<"~">>, Quoted(A) \o A, <<"size:">>, <<"size:", "<">>, <<"size:", "a">>,
     <<"size:", "3", "MiB">>, <<"extension:", ".">>, <<"extension:", "a", "/">>, <<"mtime:", "1">>}}

\* An open quote, which would pair with the next one.
Torn == Plain("bad", <<Quote, "a">>)

Signs == {Or, And, Not, Open, Close}

Document(path, extension, size, mtime, text) ==
  [path |-> path, extension |-> extension, size |-> size, mtime |-> mtime, text |-> text]

Documents ==
  <<Document(3, <<".", "md">>, 2, -1, <<A, B>>), Document(1, <<".", "MD">>, 4, -10, <<B, A, B, A>>),
    Document(2, <<>>, 32, 0, <<A, AB, B>>), Document(4, <<".", "md">>, 0, 110170, <<>>)>>

MCIndexes ==
  [full |-> [docs |-> Documents, positions |-> TRUE], bare |-> [docs |-> Documents, positions |-> FALSE],
   empty |-> [docs |-> <<>>, positions |-> TRUE]]

Call(items, tight, index, topK, rooted) ==
  [items |-> items, tight |-> tight, index |-> index, top_k |-> topK, rooted |-> rooted]

Dates ==
  {Item(IF ValidDate(Date[d][1], Date[d][2], Date[d][3]) THEN "mtime" ELSE "bad",
        <<"mtime:", c, d>>, <<<<d>>>>, 0, c) : c \in Comparisons, d \in DOMAIN Date}

MCSearches ==
  {Call(s, FALSE, p, 2, FALSE) :
     s \in BoundedSeq(Good \cup Bad \cup Signs, 2), p \in {"full", "bare"}} \cup
  {Call(s, FALSE, "empty", k, FALSE) : s \in BoundedSeq(Good, 1), k \in {0, 1}} \cup
  {Call(s, FALSE, p, 1, FALSE) : s \in BoundedSeq(Good \cup Signs, 3), p \in {"full", "bare"}} \cup
  {Call(s, TRUE, p, 3, FALSE) :
     s \in BoundedSeq({Word(A), Phrase, Or, Not, Open, Close}, 5), p \in {"full", "bare"}} \cup
  {Call(s, FALSE, p, 2, FALSE) :
     s \in BoundedSeq({Absent, Phrase, Or, Not}, 4), p \in {"full", "bare"}} \cup
  {Call(s, FALSE, "full", 0, FALSE) : s \in BoundedSeq({Word(A), Or, Not}, 4)} \cup
  {Call(<<i, Torn>>, FALSE, "full", 1, FALSE) : i \in Good} \cup
  {Call(<<d>>, FALSE, "full", 4, FALSE) : d \in Dates} \cup
  {Call(s, FALSE, "full", k, TRUE) :
     s \in {<<Word(A)>>, <<Not, Word(A)>>, <<Word(B), Word(A)>>}, k \in {1, 2}}

\* The terms that these queries score.
MCQueryTerms == BoundedSeq({"a", "b", "c", "1", "2"}, 2)

MCCharacters == {"a", "b", "c", " ", "e1", "e2", "newline", "return"}

MCGlobs == [g \in {A, B} |-> IF g = A THEN {} ELSE {1, 4}]

\* "e1" and "e2" are the two bytes of a character; a line of a file that is no
\* text may have nothing but the second.
MCFiles ==
  {<<>>, <<"a", "return", "newline", "b">>, <<"c", "newline", "b", " ", "a", "e1", "e2", "return">>,
   <<"e1", "e2", "e1", "e2", "e1", "e2", " ", "a">>, <<"newline", "a", " ", "b", "e1", "e2", " ", "b">>,
   <<"a", " ", "e1", "e2", "e2", "e2">>, <<"a", " ", "e1", "e2", "e2", "e2", "e2", "return">>,
   <<"e2", "e2", "e2", "e2", "e2", " ", "b">>}
=============================================================================
