------------------------------- MODULE Corpus -------------------------------
(***************************************************************************)
(* What a query, a source line and a loaded index have in common: the      *)
(* characters of terms, the terms of a text, and where they occur.         *)
(*                                                                         *)
(* A text is a sequence of characters.  What the lexer and the parser      *)
(* never look into is one character: a keyword, the prefix of a filter, a  *)
(* comparison operator, a number, a date.                                  *)
(*                                                                         *)
(* An index ix is a record: docs, the visible documents in the order of    *)
(* their identifiers, each with its path, extension, size, modification    *)
(* time and text, a sequence of terms; and positions, whether the postings *)
(* store them.  Ordered vectors of identifiers are sets.                   *)
(***************************************************************************)
EXTENDS Integers, SequencesExt

Space == " "
Keyword == [AND |-> "and", OR |-> "or", NOT |-> "not"]
Digits == [c \in {"0", "1", "2", "3"} |->
             CASE c = "0" -> 0 [] c = "1" -> 1 [] c = "2" -> 2 [] c = "3" -> 3]
Units == [c \in {"KiB", "MiB"} |-> IF c = "KiB" THEN 4 ELSE 16]
TokenCharacters == {"a", "b", "c"} \cup DOMAIN Keyword \cup DOMAIN Digits \cup DOMAIN Units

\* Tokenizer::tokenize: the runs of token characters.
Tokenize(text) ==
  LET Add(s, c) ==
        IF c \in TokenCharacters THEN [s EXCEPT !.run = Append(@, c)]
        ELSE IF s.run = <<>> THEN s
        ELSE [run |-> <<>>, runs |-> Append(s.runs, s.run)]
  IN FoldLeft(Add, [run |-> <<>>, runs |-> <<>>], Append(text, Space)).runs

Universe(ix) == DOMAIN ix.docs
Occurs(ix, d, t) == {p \in DOMAIN ix.docs[d].text : ix.docs[d].text[p] = t}
Postings(ix, t) == {d \in Universe(ix) : Occurs(ix, d, t) # {}}
=============================================================================
