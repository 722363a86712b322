---------------------------- MODULE TextParsing ----------------------------
(***************************************************************************)
(* Parsing one file (parse_document, src/index/document_parser.cpp): the   *)
(* reader cuts it into chunks and mends the UTF-8 sequences that the cuts  *)
(* went through (src/document/text_reader.cpp), the tokenizer continues    *)
(* its tokens from chunk to chunk (src/analysis/tokenizer.cpp), and the    *)
(* metadata before and after decide whether the file stood still.          *)
(* An editor may rewrite the file between any two steps.                   *)
(***************************************************************************)
EXTENDS Integers, FiniteSets, SequencesExt

CONSTANTS
  Contents,   \* the contents a file may start with: sequences of bytes
  Rewrites,   \* the contents an editor finds and leaves behind
  ChunkSizes, \* values of chunk_size
  MaxToken,   \* max_token_length
  MaxEdits    \* bound on the editor's writes

Byte == 0 .. 255

ASSUME TextAssumption ==
  /\ Contents \subseteq Seq(Byte) /\ Rewrites \subseteq Seq(Byte)
  /\ ChunkSizes \subseteq Nat \ {0}
  /\ MaxToken \in Nat \ {0} /\ MaxEdits \in Nat

VARIABLES
  content, modified, \* the file: its bytes and modification time
  chunk, rejecting,  \* chunk_size; whether invalid UTF-8 is rejected
  pc,
  before,            \* the metadata read first
  hashed,            \* the bytes read so far, as the checksum has seen them
  pending,           \* Utf8State: an incomplete sequence and its offset
  output,            \* the text handed to the tokenizer so far
  invalid,           \* invalid_sequence_count
  token, tokens,     \* the tokenizer: pending_ and what it has emitted
  error              \* why the parse failed

vars == <<content, modified, chunk, rejecting, pc, before, hashed, pending, output,
          invalid, token, tokens, error>>

-----------------------------------------------------------------------------
(* UTF-8. *)

Replacement == <<239, 191, 189>>

IsContinuation(b) == b \in 128 .. 191

\* sequence_length; 0 stands for a byte that leads no sequence.
SequenceLength(b) ==
  CASE b <= 127 -> 1
    [] b \in 194 .. 223 -> 2
    [] b \in 224 .. 239 -> 3
    [] b \in 240 .. 244 -> 4
    [] OTHER -> 0

\* is_valid_second_byte
IsValidSecondByte(leading, b) ==
  /\ IsContinuation(b)
  /\ leading = 224 => b >= 160
  /\ leading = 237 => b <= 159
  /\ leading = 240 => b >= 144
  /\ leading = 244 => b <= 143

\* What follows the first n bytes.
Drop(s, n) == SubSeq(s, n + 1, Len(s))

\* valid_prefix of the sequence that the first byte of s leads.
ValidPrefix(s) ==
  LET ends == {n \in 1 .. SequenceLength(s[1]) :
                 /\ n <= Len(s)
                 /\ n >= 2 => IsValidSecondByte(s[1], s[2])
                 /\ \A k \in 3 .. n : IsContinuation(s[k])}
  IN CHOOSE n \in ends : \A m \in ends : m <= n

\* Mutant of Kept: an incomplete sequence is only replaced, never kept.
BugKept(s, final) == FALSE

\* A valid sequence that the chunk cuts waits for the next chunk.
Kept(s, final) ==
  /\ ~ final /\ SequenceLength(s[1]) > 1
  /\ ValidPrefix(s) = Len(s) /\ ValidPrefix(s) < SequenceLength(s[1])

\* The bytes that one pass of the loop of emit_valid_utf8 takes.
Taken(s) == IF SequenceLength(s[1]) = 0 THEN 1 ELSE ValidPrefix(s)

\* That loop: the text it emits, the indexes at which it meets an invalid
\* sequence, and the rest it keeps.
Scan(input, final) ==
  LET scan[s \in Seq(Byte)] ==
        IF s = <<>> \/ Kept(s, final) THEN [text |-> <<>>, invalid |-> <<>>, rest |-> s]
        ELSE LET later == scan[Drop(s, Taken(s))] IN
               IF Taken(s) = SequenceLength(s[1])
               THEN [later EXCEPT !.text = SubSeq(s, 1, Taken(s)) \o @]
               ELSE [later EXCEPT !.text = Replacement \o @,
                                  !.invalid = <<Len(input) - Len(s) + 1>> \o @]
  IN scan[input]

-----------------------------------------------------------------------------
(* Tokens. *)

IsTokenCharacter(b) == b \in 97 .. 122 \/ b \in 65 .. 90 \/ b \in 48 .. 57 \/ b = 95
Normalize(b) == IF b \in 65 .. 90 THEN b + 32 ELSE b

Emit(s) ==
  IF s.token = <<>> THEN s ELSE [s EXCEPT !.token = <<>>, !.tokens = Append(@, s.token)]

\* "token exceeds maximum length"
TooLong(s) == Len(s.token) = MaxToken

\* TokenizerSession::push of one character.
PushOne(s, b) ==
  IF s.long THEN s
  ELSE IF ~ IsTokenCharacter(b) THEN Emit(s)
  ELSE IF TooLong(s) THEN [s EXCEPT !.long = TRUE]
  ELSE [s EXCEPT !.token = Append(@, Normalize(b))]

\* TokenizerSession::push from state s on; only texts of bytes come.
Pushed(s, text) ==
  LET pushed[t \in Seq(Byte)] ==
        IF t = <<>> THEN s ELSE PushOne(pushed[Front(t)], Last(t))
  IN pushed[text]

\* Mutant of Push: a token ends with its chunk.
BugPush(s, text) == Emit(Pushed(s, text))

\* TokenizerSession::push
Push(s, text) == Pushed(s, text)

-----------------------------------------------------------------------------
(* parse_document. *)

Fail(reason, offset) ==
  pc' = "failed" /\ error' = [reason |-> reason, offset |-> offset]

\* Mutant of BaseOffset: offsets are counted from the chunk even when a kept
\* sequence precedes it.
BugBaseOffset == Len(hashed)

\* Source offset of the first byte that is scanned.
BaseOffset == IF pending.bytes # <<>> THEN pending.offset ELSE Len(hashed)

\* emit_valid_utf8 and the tokenizer it feeds, then pc = next.
EmitValid(bytes, final, next) ==
  LET input == pending.bytes \o bytes
      scan == Scan(input, final)
      pushed == Push([token |-> token, tokens |-> tokens, long |-> FALSE], scan.text)
      done == IF final THEN Emit(pushed) ELSE pushed
  IN IF rejecting /\ scan.invalid # <<>>
     THEN /\ Fail("invalid", BaseOffset + scan.invalid[1] - 1)
          /\ UNCHANGED <<pending, output, invalid, token, tokens>>
     ELSE /\ output' = output \o scan.text
          /\ invalid' = invalid + Len(scan.invalid)
          /\ pending' = [bytes |-> scan.rest,
                         offset |-> IF scan.rest = <<>> THEN 0
                                    ELSE BaseOffset + Len(input) - Len(scan.rest)]
          /\ token' = done.token /\ tokens' = done.tokens
          /\ IF pushed.long THEN Fail("long", 0) ELSE pc' = next /\ UNCHANGED error

Metadata == [size |-> Len(content), time |-> modified]

ReadMetadata ==
  /\ pc = "start"
  /\ before' = Metadata
  /\ pc' = "read"
  /\ UNCHANGED <<content, modified, chunk, rejecting, hashed, pending, output, invalid,
                 token, tokens, error>>

\* One pass of the loop of TextReader::read; a short read ends it.
ReadChunk ==
  /\ pc = "read"
  /\ LET from == Len(hashed)
         bytes == SubSeq(content, from + 1, Min({from + chunk, Len(content)}))
     IN /\ hashed' = hashed \o bytes
        /\ EmitValid(bytes, FALSE, IF Len(bytes) < chunk THEN "finish" ELSE "read")
  /\ UNCHANGED <<content, modified, chunk, rejecting, before>>

\* The final emit_valid_utf8 and TokenizerSession::finish.
Finish ==
  /\ pc = "finish"
  /\ EmitValid(<<>>, TRUE, "check")
  /\ UNCHANGED <<content, modified, chunk, rejecting, before, hashed>>

\* Mutant of Changed: a rewrite of the same length is not noticed.
BugChanged == Metadata.size # before.size \/ Len(hashed) # before.size

Changed == Metadata # before \/ Len(hashed) # before.size

\* The second read_metadata.
CheckMetadata ==
  /\ pc = "check"
  /\ IF Changed THEN Fail("changed", 0) ELSE pc' = "parsed" /\ UNCHANGED error
  /\ UNCHANGED <<content, modified, chunk, rejecting, before, hashed, pending, output,
                 invalid, token, tokens>>

\* The editor: every write moves the modification time.
Edit ==
  /\ pc \notin {"parsed", "failed"} /\ modified < MaxEdits
  /\ content \in Rewrites /\ content' \in Rewrites
  /\ modified' = modified + 1
  /\ UNCHANGED <<chunk, rejecting, pc, before, hashed, pending, output, invalid, token,
                 tokens, error>>

Init ==
  /\ content \in Contents /\ modified = 0
  /\ chunk \in ChunkSizes /\ rejecting \in BOOLEAN
  /\ pc = "start" /\ before = [size |-> 0, time |-> 0]
  /\ hashed = <<>> /\ pending = [bytes |-> <<>>, offset |-> 0] /\ output = <<>> /\ invalid = 0
  /\ token = <<>> /\ tokens = <<>> /\ error = [reason |-> "none", offset |-> 0]

Next == ReadMetadata \/ ReadChunk \/ Finish \/ CheckMetadata \/ Edit

Spec == Init /\ [][Next]_vars

-----------------------------------------------------------------------------
(* The reference: what a whole text means, without chunks. *)

\* The number a multibyte sequence encodes: the leading byte gives its low
\* bits, every other byte six more.
CodePoint(s) ==
  CASE Len(s) = 2 -> 64 * (s[1] % 32) + (s[2] % 64)
    [] Len(s) = 3 -> 4096 * (s[1] % 16) + 64 * (s[2] % 64) + (s[3] % 64)
    [] Len(s) = 4 -> 262144 * (s[1] % 8) + 4096 * (s[2] % 64) + 64 * (s[3] % 64) + (s[4] % 64)

IsSurrogate(c) == c >= 55296 /\ c <= 57343

\* Every number has one encoding, the shortest; surrogates have none.
WellFormed(s) ==
  \/ Len(s) = 1 /\ s[1] < 128
  \/ /\ \A k \in 2 .. Len(s) : IsContinuation(s[k])
     /\ \/ Len(s) = 2 /\ s[1] \div 32 = 6 /\ CodePoint(s) >= 128
        \/ Len(s) = 3 /\ s[1] \div 16 = 14 /\ CodePoint(s) >= 2048 /\ ~ IsSurrogate(CodePoint(s))
        \/ Len(s) = 4 /\ s[1] \div 8 = 30 /\ CodePoint(s) >= 65536 /\ CodePoint(s) <= 1114111

\* The beginning of a well-formed sequence. The ends of the range of the
\* bytes to come are enough: what a second byte excludes, it excludes for all.
Begins(s) ==
  \/ WellFormed(s)
  \/ \E n \in 1 .. 3 : Len(s) + n <= 4 /\ \E b \in {128, 191} : WellFormed(s \o [k \in 1 .. n |-> b])

\* A text is cut into its well-formed sequences and, elsewhere, into the
\* longest beginnings of one, or single bytes.
Unit(text) ==
  LET Prefix(n) == SubSeq(text, 1, n)
      begun == {n \in 1 .. 4 : n <= Len(text) /\ Begins(Prefix(n))}
  IN IF begun = {} THEN Prefix(1) ELSE Prefix(CHOOSE n \in begun : \A m \in begun : m <= n)

Units[text \in Seq(Byte)] ==
  IF text = <<>> THEN <<>> ELSE <<Unit(text)>> \o Units[Drop(text, Len(Unit(text)))]

BadUnits(text) == {k \in DOMAIN Units[text] : ~ WellFormed(Units[text][k])}

DecodedText(text) ==
  LET units == Units[text] IN
    FlattenSeq([k \in DOMAIN units |-> IF WellFormed(units[k]) THEN units[k] ELSE Replacement])

\* Where the first invalid unit starts.
FirstBad(text) ==
  LET first == CHOOSE k \in BadUnits(text) : \A j \in BadUnits(text) : k <= j
  IN Len(FlattenSeq(SubSeq(Units[text], 1, first - 1)))

\* From i to j there are token characters, and none before and behind.
Run(text, i, j) ==
  /\ i <= j /\ \A k \in i .. j : IsTokenCharacter(text[k])
  /\ i > 1 => ~ IsTokenCharacter(text[i - 1])
  /\ j < Len(text) => ~ IsTokenCharacter(text[j + 1])

\* The longest runs of token characters, each in its turn, in lower case.
AreRuns(found, text) ==
  \E start \in [DOMAIN found -> DOMAIN text] :
    /\ \A k \in DOMAIN found :
         /\ Run(text, start[k], start[k] + Len(found[k]) - 1)
         /\ \A n \in DOMAIN found[k] : found[k][n] = Normalize(text[start[k] + n - 1])
    /\ \A j, k \in DOMAIN found : j < k => start[j] < start[k]
    /\ \A i, j \in DOMAIN text : Run(text, i, j) => \E k \in DOMAIN found : start[k] = i

LongRun(text) ==
  \E i \in DOMAIN text :
    /\ i + MaxToken <= Len(text)
    /\ \A k \in i .. i + MaxToken : IsTokenCharacter(text[k])

-----------------------------------------------------------------------------
(* Properties. *)

\* Whatever the chunks are, what was handed on is the text of all bytes read
\* but the last few, with as many replacements; and these, at most three, are
\* the beginning of a sequence, so that a parsed file has the text of its
\* content as a whole (emit_valid_utf8, Utf8State).
TextIndependentOfChunks ==
  LET done == SubSeq(hashed, 1, Len(hashed) - Len(pending.bytes)) IN
    /\ pc # "failed" =>
         /\ hashed = done \o pending.bytes
         /\ output = DecodedText(done) /\ invalid = Cardinality(BadUnits(done))
         /\ pending.bytes # <<>> =>
              /\ Begins(pending.bytes) /\ ~ WellFormed(pending.bytes)
              /\ Len(pending.bytes) <= 3 /\ pending.offset = Len(done)
    /\ pc = "parsed" => output = DecodedText(content)

\* Whatever the chunk size, and however bytes were replaced, its tokens are
\* the runs of token characters of the content (TokenizerSession).
TokensAreRuns == pc = "parsed" => AreRuns(tokens, content)

\* A parsed file was read in one version: the bytes that were hashed, and so
\* everything derived from them, are those its metadata belongs to, although
\* the editor may write between any two reads (parse_document).
OneVersion ==
  pc = "parsed" => hashed = content /\ before = Metadata

\* A file fails for its own fault: an invalid sequence, reported at its
\* offset; a run of characters over the limit, possibly cut short by the end
\* of what was read; or an edit.  And no file with such a fault is parsed
\* (InvalidUtf8Error, "token exceeds maximum length", "source file changed
\* while it was being indexed").
FailsForItsFaults ==
  /\ pc = "failed" =>
       CASE error.reason = "invalid" -> rejecting /\ error.offset = FirstBad(hashed)
         [] error.reason = "long" -> LongRun(hashed)
         [] error.reason = "changed" -> modified > 0
  /\ pc = "parsed" => ~ LongRun(content) /\ (rejecting => BadUnits(content) = {})
=============================================================================
