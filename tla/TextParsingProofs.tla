------------------------- MODULE TextParsingProofs --------------------------
(***************************************************************************)
(* Theorems about TextParsing, for files of any length with any bytes, for *)
(* chunks of any size, any length limit and any number of edits.           *)
(*                                                                         *)
(* What the reader does is local: how many bytes a pass of the loop takes  *)
(* is decided by these bytes and the next (TakenStable, TakenLocal), so    *)
(* that what is done is cut from what is kept wherever a chunk ends        *)
(* (Settled), and scans of chunks add up to a scan of the whole (ReadOn).  *)
(* That the loops define functions at all follows from RecursionExists.    *)
(* The tokenizer is shown to collect runs one character at a time, from    *)
(* the text or from its replacements alike (PushedDecoded, TokensOfText).  *)
(***************************************************************************)
EXTENDS TextParsing, SumLemmas

-----------------------------------------------------------------------------
(* Bytes. *)

\* The six bits that a continuation byte adds to a code point
\* (is_continuation).
LEMMA ContinuationBits ==
  ASSUME NEW b \in Byte, IsContinuation(b)
  PROVE  b % 64 = b - 128 /\ b \in 128 .. 191
  BY DEF Byte, IsContinuation

\* The bits of a leading byte, by its range (sequence_length).
LEMMA LeaderBits ==
  ASSUME NEW a \in Byte
  PROVE  /\ a \div 32 = 6 <=> a \in 192 .. 223
         /\ a \div 16 = 14 <=> a \in 224 .. 239
         /\ a \div 8 = 30 <=> a \in 240 .. 247
         /\ a \in 192 .. 223 => a % 32 = a - 192
         /\ a \in 224 .. 239 => a % 16 = a - 224
         /\ a \in 240 .. 247 => a % 8 = a - 240
  <1>1. /\ a \div 32 = 6 <=> a \in 192 .. 223
        /\ a \in 192 .. 223 => a % 32 = a - 192
    BY DEF Byte
  <1>2. /\ a \div 16 = 14 <=> a \in 224 .. 239
        /\ a \in 224 .. 239 => a % 16 = a - 224
    BY DEF Byte
  <1>3. /\ a \div 8 = 30 <=> a \in 240 .. 247
        /\ a \in 240 .. 247 => a % 8 = a - 240
    BY DEF Byte
  <1>. QED
    BY ONLY <1>1, <1>2, <1>3

\* What sequence_length says, by the range of the byte.
LEMMA LengthIs ==
  ASSUME NEW a \in Byte
  PROVE  /\ SequenceLength(a) \in 0 .. 4
         /\ SequenceLength(a) = 1 <=> a < 128
         /\ SequenceLength(a) = 2 <=> a \in 194 .. 223
         /\ SequenceLength(a) = 3 <=> a \in 224 .. 239
         /\ SequenceLength(a) = 4 <=> a \in 240 .. 244
  <1>1. a \in 0 .. 255
    BY DEF Byte
  <1>2. CASE a <= 127
    BY <1>1, <1>2 DEF SequenceLength
  <1>3. CASE a \in 194 .. 223
    BY <1>1, <1>3 DEF SequenceLength
  <1>4. CASE a \in 224 .. 239
    BY <1>1, <1>4 DEF SequenceLength
  <1>5. CASE a \in 240 .. 244
    BY <1>1, <1>5 DEF SequenceLength
  <1>6. CASE a \in 128 .. 193 \/ a \in 245 .. 255
    <2>1. SequenceLength(a) = 0
      BY <1>1, <1>6 DEF SequenceLength
    <2>. QED
      BY <1>1, <1>6, <2>1
  <1>. QED
    BY ONLY <1>1, <1>2, <1>3, <1>4, <1>5, <1>6

\* For two bytes the ranges of sequence_length and is_valid_second_byte are
\* those of the code points with no shorter encoding.
LEMMA TwoBytes ==
  ASSUME NEW a \in Byte, NEW b \in Byte, IsContinuation(b)
  PROVE  a \div 32 = 6 /\ 64 * (a % 32) + (b % 64) >= 128
           <=> SequenceLength(a) = 2 /\ IsValidSecondByte(a, b)
  <1>1. b % 64 = b - 128 /\ b \in 128 .. 191
    BY ContinuationBits
  <1>2. /\ a \div 32 = 6 <=> a \in 192 .. 223
        /\ a \in 192 .. 223 => a % 32 = a - 192
    BY LeaderBits
  <1>3. SequenceLength(a) = 2 <=> a \in 194 .. 223
    BY LengthIs
  <1>4. a \in Int
    BY DEF Byte
  <1>5. CASE a \in 192 .. 223
    <2>1. 64 * (a % 32) + (b % 64) = 64 * (a - 192) + (b - 128)
      BY <1>1, <1>2, <1>5
    <2>2. 64 * (a - 192) + (b - 128) >= 128 <=> a \in 194 .. 223
      BY <1>1, <1>4, <1>5
    <2>3. a \in 194 .. 223 => IsValidSecondByte(a, b)
      BY <1>4 DEF IsValidSecondByte
    <2>. QED
      BY ONLY <1>2, <1>3, <1>5, <2>1, <2>2, <2>3
  <1>6. CASE ~ a \in 192 .. 223
    BY <1>2, <1>3, <1>4, <1>6
  <1>. QED
    BY ONLY <1>5, <1>6

\* For three bytes they also exclude the surrogates (is_valid_second_byte).
LEMMA ThreeBytes ==
  ASSUME NEW a \in Byte, NEW b \in Byte, NEW c \in Byte, IsContinuation(b), IsContinuation(c),
         NEW p, p = 4096 * (a % 16) + 64 * (b % 64) + (c % 64)
  PROVE  a \div 16 = 14 /\ p >= 2048 /\ ~ IsSurrogate(p)
           <=> SequenceLength(a) = 3 /\ IsValidSecondByte(a, b)
  <1>1. b % 64 = b - 128 /\ b \in 128 .. 191 /\ c % 64 = c - 128 /\ c \in 128 .. 191
    BY ContinuationBits
  <1>2. /\ a \div 16 = 14 <=> a \in 224 .. 239
        /\ a \in 224 .. 239 => a % 16 = a - 224
    BY LeaderBits
  <1>3. SequenceLength(a) = 3 <=> a \in 224 .. 239
    BY LengthIs
  <1>4. a \in Int
    BY DEF Byte
  <1>5. CASE a \in 224 .. 239
    <2>1. p = 4096 * (a - 224) + 64 * (b - 128) + (c - 128)
      BY <1>1, <1>2, <1>5
    <2>2. p >= 2048 <=> (a = 224 => b >= 160)
      BY <1>1, <1>4, <1>5, <2>1
    <2>3. IsSurrogate(p) <=> a = 237 /\ b >= 160
      BY <1>1, <1>4, <1>5, <2>1 DEF IsSurrogate
    <2>4. IsValidSecondByte(a, b) <=> (a = 224 => b >= 160) /\ (a = 237 => b <= 159)
      BY <1>4, <1>5 DEF IsValidSecondByte
    <2>. QED
      BY ONLY <1>1, <1>2, <1>3, <1>5, <2>2, <2>3, <2>4
  <1>6. CASE ~ a \in 224 .. 239
    BY <1>2, <1>3, <1>4, <1>6
  <1>. QED
    BY ONLY <1>5, <1>6

\* For four bytes they also end at the last code point
\* (is_valid_second_byte).
LEMMA FourBytes ==
  ASSUME NEW a \in Byte, NEW b \in Byte, NEW c \in Byte, NEW d \in Byte,
         IsContinuation(b), IsContinuation(c), IsContinuation(d),
         NEW p, p = 262144 * (a % 8) + 4096 * (b % 64) + 64 * (c % 64) + (d % 64)
  PROVE  a \div 8 = 30 /\ p >= 65536 /\ p <= 1114111
           <=> SequenceLength(a) = 4 /\ IsValidSecondByte(a, b)
  <1>1. /\ b % 64 = b - 128 /\ b \in 128 .. 191 /\ c % 64 = c - 128 /\ c \in 128 .. 191
        /\ d % 64 = d - 128 /\ d \in 128 .. 191
    BY ContinuationBits
  <1>2. /\ a \div 8 = 30 <=> a \in 240 .. 247
        /\ a \in 240 .. 247 => a % 8 = a - 240
    BY LeaderBits
  <1>3. SequenceLength(a) = 4 <=> a \in 240 .. 244
    BY LengthIs
  <1>4. a \in Int
    BY DEF Byte
  <1>5. CASE a \in 240 .. 247
    <2>1. p = 262144 * (a - 240) + 4096 * (b - 128) + 64 * (c - 128) + (d - 128)
      BY <1>1, <1>2, <1>5
    <2>2. p >= 65536 <=> (a = 240 => b >= 144)
      BY <1>1, <1>4, <1>5, <2>1
    <2>3. p <= 1114111 <=> a <= 244 /\ (a = 244 => b <= 143)
      BY <1>1, <1>4, <1>5, <2>1
    <2>4. a <= 244 => (IsValidSecondByte(a, b) <=> (a = 240 => b >= 144) /\ (a = 244 => b <= 143))
      BY <1>4, <1>5 DEF IsValidSecondByte
    <2>5. a \in 240 .. 244 <=> a <= 244
      BY <1>5
    <2>. QED
      BY ONLY <1>2, <1>3, <1>5, <2>2, <2>3, <2>4, <2>5
  <1>6. CASE ~ a \in 240 .. 247
    BY <1>2, <1>3, <1>4, <1>6
  <1>. QED
    BY ONLY <1>5, <1>6

\* The first n bytes of s begin a sequence, as the conditions of
\* emit_valid_utf8 say it.
BeginsAt(s, n) ==
  /\ n \in 1 .. SequenceLength(s[1]) /\ n <= Len(s)
  /\ n >= 2 => IsValidSecondByte(s[1], s[2])
  /\ \A k \in 3 .. n : IsContinuation(s[k])

\* A valid second byte is a continuation (is_valid_second_byte).
LEMMA SecondIs ==
  ASSUME NEW a, NEW b, IsValidSecondByte(a, b)
  PROVE  IsContinuation(b)
  BY DEF IsValidSecondByte

\* The bytes of a text are bytes (emit_valid_utf8).
LEMMA BytesAre ==
  ASSUME NEW s \in Seq(Byte)
  PROVE  Len(s) \in Nat /\ DOMAIN s = 1 .. Len(s) /\ \A k \in 1 .. Len(s) : s[k] \in Byte
  BY LenProperties

\* Whether n bytes begin a sequence depends on these bytes only, not on what
\* a later chunk adds (emit_valid_utf8).
LEMMA BeginsLocal ==
  ASSUME NEW s \in Seq(Byte), NEW t \in Seq(Byte), NEW n \in Nat, n <= Len(s), n <= Len(t),
         \A k \in 1 .. n : s[k] = t[k]
  PROVE  BeginsAt(s, n) <=> BeginsAt(t, n)
  <1>1. CASE n = 0
    BY <1>1 DEF BeginsAt
  <1>2. CASE n # 0
    <2>1. s[1] = t[1] /\ (n >= 2 => s[2] = t[2]) /\ \A k \in 3 .. n : s[k] = t[k]
      BY <1>2
    <2>. QED
      BY <2>1 DEF BeginsAt
  <1>. QED
    BY <1>1, <1>2

\* What begins a sequence does so from its first byte on (the loop that
\* extends valid_prefix).
LEMMA BeginsDown ==
  ASSUME NEW s \in Seq(Byte), NEW n \in Nat, BeginsAt(s, n), NEW m \in 1 .. n
  PROVE  BeginsAt(s, m)
  <1>1. Len(s) \in Nat /\ n >= 1 /\ n <= Len(s)
    BY BytesAre DEF BeginsAt
  <1>2. s[1] \in Byte
    BY <1>1, BytesAre
  <1>3. SequenceLength(s[1]) \in 0 .. 4
    BY <1>2, LengthIs
  <1>4. \A k \in 3 .. m : k \in 3 .. n
    OBVIOUS
  <1>. QED
    BY <1>1, <1>3, <1>4 DEF BeginsAt

\* The well-formed sequences are those that emit_valid_utf8 accepts: as many
\* valid bytes as the first one asks for.
LEMMA WellFormedIs ==
  ASSUME NEW s \in Seq(Byte), Len(s) \in 1 .. 4
  PROVE  WellFormed(s) <=> BeginsAt(s, Len(s)) /\ Len(s) = SequenceLength(s[1])
  <1> DEFINE a == s[1]
             b == s[2]
             c == s[3]
             d == s[4]
  <1>1. Len(s) \in Nat /\ \A k \in 1 .. Len(s) : s[k] \in Byte
    BY BytesAre
  <1>2. a \in Byte
    BY <1>1
  <1>3. CASE Len(s) = 1
    <2>1. SequenceLength(a) = 1 <=> a < 128
      BY <1>2, LengthIs
    <2>2. WellFormed(s) <=> a < 128
      BY <1>3 DEF WellFormed
    <2>3. SequenceLength(a) = 1 => BeginsAt(s, 1)
      BY <1>3 DEF BeginsAt
    <2>. QED
      BY <1>3, <2>1, <2>2, <2>3
  <1>4. CASE Len(s) = 2
    <2>1. b \in Byte
      BY <1>1, <1>4
    <2>2. WellFormed(s) <=> /\ IsContinuation(b) /\ a \div 32 = 6
                            /\ 64 * (a % 32) + (b % 64) >= 128
      <3>1. CodePoint(s) = 64 * (a % 32) + (b % 64)
        BY <1>4 DEF CodePoint
      <3>2. (\A k \in 2 .. Len(s) : IsContinuation(s[k])) <=> IsContinuation(b)
        BY <1>4
      <3>3. WellFormed(s) <=> /\ \A k \in 2 .. Len(s) : IsContinuation(s[k])
                              /\ a \div 32 = 6 /\ CodePoint(s) >= 128
        BY <1>4 DEF WellFormed
      <3>. QED
        BY ONLY <3>1, <3>2, <3>3
    <2>3. WellFormed(s) <=> SequenceLength(a) = 2 /\ IsValidSecondByte(a, b)
      BY ONLY <1>2, <2>1, <2>2, TwoBytes, SecondIs
    <2>4. BeginsAt(s, 2) /\ 2 = SequenceLength(a) <=> SequenceLength(a) = 2 /\ IsValidSecondByte(a, b)
      BY <1>4 DEF BeginsAt
    <2>. QED
      BY ONLY <1>4, <2>3, <2>4
  <1>5. CASE Len(s) = 3
    <2>1. b \in Byte /\ c \in Byte
      BY <1>1, <1>5
    <2> DEFINE p == 4096 * (a % 16) + 64 * (b % 64) + (c % 64)
    <2>2. WellFormed(s) <=> /\ IsContinuation(b) /\ IsContinuation(c) /\ a \div 16 = 14
                            /\ p >= 2048 /\ ~ IsSurrogate(p)
      <3>1. CodePoint(s) = p
        BY <1>5 DEF CodePoint
      <3>2. (\A k \in 2 .. Len(s) : IsContinuation(s[k])) <=> IsContinuation(b) /\ IsContinuation(c)
        BY <1>5
      <3>3. WellFormed(s) <=> /\ \A k \in 2 .. Len(s) : IsContinuation(s[k])
                              /\ a \div 16 = 14 /\ CodePoint(s) >= 2048 /\ ~ IsSurrogate(CodePoint(s))
        BY <1>5 DEF WellFormed
      <3> HIDE DEF p
      <3>. QED
        BY ONLY <3>1, <3>2, <3>3
    <2>3. p = 4096 * (a % 16) + 64 * (b % 64) + (c % 64)
      OBVIOUS
    <2> HIDE DEF p
    <2>4. WellFormed(s) <=> SequenceLength(a) = 3 /\ IsValidSecondByte(a, b) /\ IsContinuation(c)
      BY ONLY <1>2, <2>1, <2>2, <2>3, ThreeBytes, SecondIs
    <2>5. BeginsAt(s, 3) /\ 3 = SequenceLength(a)
            <=> SequenceLength(a) = 3 /\ IsValidSecondByte(a, b) /\ IsContinuation(c)
      BY <1>5 DEF BeginsAt
    <2>. QED
      BY ONLY <1>5, <2>4, <2>5
  <1>6. CASE Len(s) = 4
    <2>1. b \in Byte /\ c \in Byte /\ d \in Byte
      BY <1>1, <1>6
    <2> DEFINE p == 262144 * (a % 8) + 4096 * (b % 64) + 64 * (c % 64) + (d % 64)
    <2>2. WellFormed(s) <=> /\ IsContinuation(b) /\ IsContinuation(c) /\ IsContinuation(d)
                            /\ a \div 8 = 30 /\ p >= 65536 /\ p <= 1114111
      <3>1. CodePoint(s) = p
        BY <1>6 DEF CodePoint
      <3>2. (\A k \in 2 .. Len(s) : IsContinuation(s[k]))
              <=> IsContinuation(b) /\ IsContinuation(c) /\ IsContinuation(d)
        BY <1>6
      <3>3. WellFormed(s) <=> /\ \A k \in 2 .. Len(s) : IsContinuation(s[k])
                              /\ a \div 8 = 30 /\ CodePoint(s) >= 65536 /\ CodePoint(s) <= 1114111
        BY <1>6 DEF WellFormed
      <3> HIDE DEF p
      <3>. QED
        BY ONLY <3>1, <3>2, <3>3
    <2>3. p = 262144 * (a % 8) + 4096 * (b % 64) + 64 * (c % 64) + (d % 64)
      OBVIOUS
    <2> HIDE DEF p
    <2>4. WellFormed(s) <=> SequenceLength(a) = 4 /\ IsValidSecondByte(a, b) /\ IsContinuation(c)
                              /\ IsContinuation(d)
      BY ONLY <1>2, <2>1, <2>2, <2>3, FourBytes, SecondIs
    <2>5. BeginsAt(s, 4) /\ 4 = SequenceLength(a)
            <=> SequenceLength(a) = 4 /\ IsValidSecondByte(a, b) /\ IsContinuation(c) /\ IsContinuation(d)
      BY <1>6 DEF BeginsAt
    <2>. QED
      BY ONLY <1>6, <2>4, <2>5
  <1>. QED
    BY ONLY <1>3, <1>4, <1>5, <1>6, Len(s) \in 1 .. 4

-----------------------------------------------------------------------------
(* What a pass of the loop takes. *)

\* A text begins a sequence when its first byte leads one
\* (sequence_length).
LEMMA FirstBegins ==
  ASSUME NEW s \in Seq(Byte), s # <<>>
  PROVE  /\ s[1] \in Byte /\ Len(s) \in Nat /\ Len(s) >= 1
         /\ SequenceLength(s[1]) \in 0 .. 4
         /\ SequenceLength(s[1]) # 0 => BeginsAt(s, 1)
  <1>1. Len(s) \in Nat /\ Len(s) >= 1
    BY EmptySeq, LenProperties
  <1>2. s[1] \in Byte
    BY <1>1, BytesAre
  <1>3. SequenceLength(s[1]) \in 0 .. 4
    BY <1>2, LengthIs
  <1>. QED
    BY <1>1, <1>2, <1>3 DEF BeginsAt

\* valid_prefix is the longest beginning.
LEMMA PrefixIs ==
  ASSUME NEW s \in Seq(Byte), s # <<>>, SequenceLength(s[1]) # 0
  PROVE  /\ ValidPrefix(s) \in 1 .. SequenceLength(s[1]) /\ ValidPrefix(s) <= Len(s)
         /\ BeginsAt(s, ValidPrefix(s))
         /\ \A n : BeginsAt(s, n) => n <= ValidPrefix(s)
  <1> DEFINE ends == {n \in 1 .. SequenceLength(s[1]) :
                        /\ n <= Len(s)
                        /\ n >= 2 => IsValidSecondByte(s[1], s[2])
                        /\ \A k \in 3 .. n : IsContinuation(s[k])}
  <1>1. \A n : n \in ends <=> BeginsAt(s, n)
    BY DEF BeginsAt
  <1>2. ValidPrefix(s) = CHOOSE n \in ends : \A m \in ends : m <= n
    BY DEF ValidPrefix
  <1>3. ends \subseteq 1 .. 4
    <2>1. SequenceLength(s[1]) \in 0 .. 4
      BY FirstBegins
    <2>. QED
      BY <2>1
  <1>4. 1 \in ends
    BY <1>1, FirstBegins
  <1> HIDE DEF ends
  <1>5. \E n \in ends : \A m \in ends : m <= n
    BY <1>3, <1>4
  <1>6. ValidPrefix(s) \in ends /\ \A m \in ends : m <= ValidPrefix(s)
    BY <1>2, <1>5
  <1>. QED
    BY <1>1, <1>6 DEF BeginsAt

\* A pass of the loop takes between one and four bytes, and no more than
\* there are (emit_valid_utf8): the loop ends.
LEMMA TakenIs ==
  ASSUME NEW s \in Seq(Byte), s # <<>>
  PROVE  Taken(s) \in 1 .. 4 /\ Taken(s) <= Len(s)
  <1>1. Len(s) >= 1 /\ SequenceLength(s[1]) \in 0 .. 4
    BY FirstBegins
  <1>2. CASE SequenceLength(s[1]) = 0
    BY <1>1, <1>2 DEF Taken
  <1>3. CASE SequenceLength(s[1]) # 0
    <2>1. ValidPrefix(s) \in 1 .. SequenceLength(s[1]) /\ ValidPrefix(s) <= Len(s)
      BY <1>3, PrefixIs
    <2>. QED
      BY <1>1, <1>3, <2>1 DEF Taken
  <1>. QED
    BY <1>2, <1>3

\* What the loop takes, characterised: the number of bytes that begin a
\* sequence when one more does not (emit_valid_utf8).
LEMMA TakenWhen ==
  ASSUME NEW s \in Seq(Byte), s # <<>>, NEW n, BeginsAt(s, n), ~ BeginsAt(s, n + 1)
  PROVE  Taken(s) = n
  <1>1. Len(s) >= 1 /\ SequenceLength(s[1]) \in 0 .. 4
    BY FirstBegins
  <1>2. n \in 1 .. SequenceLength(s[1])
    BY DEF BeginsAt
  <1>3. SequenceLength(s[1]) # 0 /\ n \in Nat
    BY <1>1, <1>2
  <1> DEFINE v == ValidPrefix(s)
  <1>4. v \in 1 .. SequenceLength(s[1]) /\ BeginsAt(s, v) /\ n <= v
    BY <1>3, PrefixIs
  <1>5. Taken(s) = v
    BY <1>3 DEF Taken
  <1> HIDE DEF v
  <1>6. ASSUME n < v PROVE FALSE
    <2>1. v \in Nat /\ n + 1 \in 1 .. v
      BY <1>1, <1>3, <1>4, <1>6
    <2>2. BeginsAt(s, n + 1)
      BY <1>4, <2>1, BeginsDown
    <2>. QED
      BY <2>2
  <1>. QED
    BY <1>1, <1>3, <1>4, <1>5, <1>6

\* The length and the bytes of a text that is completed.
LEMMA Completed ==
  ASSUME NEW s \in Seq(Byte), NEW n \in Nat, NEW b \in Byte,
         NEW q, q = s \o [k \in 1 .. n |-> b]
  PROVE  /\ q \in Seq(Byte) /\ Len(q) = Len(s) + n
         /\ \A k \in 1 .. Len(s) : q[k] = s[k]
         /\ \A k \in Len(s) + 1 .. Len(s) + n : q[k] = b
  <1> DEFINE x == [k \in 1 .. n |-> b]
  <1>1. x \in Seq(Byte) /\ Len(x) = n /\ \A k \in 1 .. n : x[k] = b
    <2>1. x = [k \in 1 .. n |-> x[k]]
      OBVIOUS
    <2>. QED
      BY <2>1, SeqIs
  <1> HIDE DEF x
  <1>2. Len(s) \in Nat
    BY LenProperties
  <1>. QED
    BY <1>1, <1>2, ConcatProperties DEF x

\* A short text begins a well-formed sequence, in the sense of the reference,
\* when the conditions of emit_valid_utf8 hold of its bytes.
LEMMA ShortBegins ==
  ASSUME NEW p \in Seq(Byte), Len(p) \in 1 .. 4
  PROVE  Begins(p) <=> BeginsAt(p, Len(p))
  <1>1. p # <<>>
    BY EmptySeq
  <1>2. p[1] \in Byte /\ SequenceLength(p[1]) \in 0 .. 4
    BY <1>1, FirstBegins
  <1>3. ASSUME NEW m \in 1 .. 3, Len(p) + m <= 4, NEW b \in {128, 191},
               WellFormed(p \o [k \in 1 .. m |-> b])
        PROVE  BeginsAt(p, Len(p))
    <2> DEFINE q == p \o [k \in 1 .. m |-> b]
    <2>1. /\ q \in Seq(Byte) /\ Len(q) = Len(p) + m
          /\ \A k \in 1 .. Len(p) : q[k] = p[k]
      <3>1. m \in Nat /\ b \in Byte
        BY DEF Byte
      <3>2. q = p \o [k \in 1 .. m |-> b]
        OBVIOUS
      <3> HIDE DEF q
      <3>. QED
        BY <3>1, <3>2, Completed
    <2>2. WellFormed(q)
      BY <1>3
    <2> HIDE DEF q
    <2>3. Len(q) \in 1 .. 4 /\ Len(q) \in Nat /\ Len(p) \in Nat /\ Len(p) \in 1 .. Len(q)
      <3>1. Len(p) \in 1 .. 4 /\ m \in 1 .. 3 /\ Len(p) + m <= 4 /\ Len(q) = Len(p) + m
        BY <1>3, <2>1
      <3>. QED
        BY ONLY <3>1
    <2>4. BeginsAt(q, Len(q))
      BY <2>1, <2>2, <2>3, WellFormedIs
    <2>5. BeginsAt(q, Len(p))
      BY <2>1, <2>3, <2>4, BeginsDown
    <2>. QED
      BY <2>1, <2>3, <2>5, BeginsLocal
  <1>4. ASSUME BeginsAt(p, Len(p)), Len(p) # SequenceLength(p[1]) PROVE Begins(p)
    <2> DEFINE m == SequenceLength(p[1]) - Len(p)
               b == IF p[1] \in {237, 244} THEN 128 ELSE 191
               q == p \o [k \in 1 .. m |-> b]
    <2>1. Len(p) \in 1 .. SequenceLength(p[1])
      BY <1>4 DEF BeginsAt
    <2>2. m \in 1 .. 3 /\ m \in Nat /\ Len(p) + m <= 4 /\ Len(p) + m = SequenceLength(p[1])
      BY <1>2, <1>4, <2>1
    <2>3. b \in {128, 191} /\ b \in Byte /\ IsContinuation(b) /\ IsValidSecondByte(p[1], b)
      BY <1>2 DEF Byte, IsContinuation, IsValidSecondByte
    <2> HIDE DEF m, b
    <2>4. /\ q \in Seq(Byte) /\ Len(q) = Len(p) + m
          /\ \A k \in 1 .. Len(p) : q[k] = p[k]
          /\ \A k \in Len(p) + 1 .. Len(p) + m : q[k] = b
      <3>1. q = p \o [k \in 1 .. m |-> b]
        OBVIOUS
      <3> HIDE DEF q
      <3>. QED
        BY <2>2, <2>3, <3>1, Completed
    <2> HIDE DEF q
    <2>5. q[1] = p[1]
      BY <2>4
    <2>6. Len(q) \in 1 .. SequenceLength(q[1]) /\ Len(q) = SequenceLength(q[1])
      BY <1>2, <2>2, <2>4, <2>5
    <2>7. Len(q) >= 2 => IsValidSecondByte(q[1], q[2])
      <3>1. CASE Len(p) = 1
        <4>1. q[2] = b
          BY <2>2, <2>4, <3>1
        <4>. QED
          BY <2>3, <2>5, <4>1
      <3>2. CASE Len(p) >= 2
        <4>1. q[2] = p[2]
          BY <2>4, <3>2
        <4>. QED
          BY <1>4, <2>5, <3>2, <4>1 DEF BeginsAt
      <3>3. Len(p) = 1 \/ Len(p) >= 2
        <4>1. Len(p) \in 1 .. 4
          OBVIOUS
        <4> DEFINE n == Len(p)
        <4>2. n \in 1 .. 4
          BY <4>1
        <4> HIDE DEF n
        <4>3. n = 1 \/ n >= 2
          BY ONLY <4>2
        <4>. QED
          BY ONLY <4>3 DEF n
      <3>. QED
        BY ONLY <3>1, <3>2, <3>3
    <2>8. \A k \in 3 .. Len(q) : IsContinuation(q[k])
      <3> SUFFICES ASSUME NEW k \in 3 .. Len(q) PROVE IsContinuation(q[k])
        OBVIOUS
      <3>1. CASE k <= Len(p)
        <4>1. q[k] = p[k] /\ k \in 3 .. Len(p)
          BY <2>4, <3>1
        <4>. QED
          BY <1>4, <4>1 DEF BeginsAt
      <3>2. CASE ~ k <= Len(p)
        <4>1. q[k] = b
          BY <2>4, <2>2, <3>2
        <4>. QED
          BY <2>3, <4>1
      <3>. QED
        BY <3>1, <3>2
    <2>9. BeginsAt(q, Len(q))
      BY <2>6, <2>7, <2>8 DEF BeginsAt
    <2>10. Len(q) \in 1 .. 4
      BY <2>2, <2>4
    <2>11. WellFormed(q)
      BY <2>4, <2>6, <2>9, <2>10, WellFormedIs
    <2>. QED
      <3>1. WellFormed(p \o [k \in 1 .. m |-> b])
        BY <2>11 DEF q
      <3>2. \E x \in {128, 191} : WellFormed(p \o [k \in 1 .. m |-> x])
        BY ONLY <2>3, <3>1, Zenon
      <3>3. \E n \in 1 .. 3 : Len(p) + n <= 4
              /\ \E x \in {128, 191} : WellFormed(p \o [k \in 1 .. n |-> x])
        BY ONLY <2>2, <3>2, Zenon
      <3>. QED
        BY ONLY <3>3, Zenon DEF Begins
  <1>5. WellFormed(p) <=> BeginsAt(p, Len(p)) /\ Len(p) = SequenceLength(p[1])
    BY WellFormedIs
  <1>. QED
    BY <1>3, <1>4, <1>5 DEF Begins

\* ... and so do the prefixes of a text.
LEMMA PrefixBegins ==
  ASSUME NEW s \in Seq(Byte), NEW n \in 1 .. 4, n <= Len(s)
  PROVE  /\ SubSeq(s, 1, n) \in Seq(Byte) /\ Len(SubSeq(s, 1, n)) = n
         /\ \A k \in 1 .. n : SubSeq(s, 1, n)[k] = s[k]
         /\ Begins(SubSeq(s, 1, n)) <=> BeginsAt(s, n)
         /\ WellFormed(SubSeq(s, 1, n)) <=> BeginsAt(s, n) /\ n = SequenceLength(s[1])
  <1> DEFINE p == SubSeq(s, 1, n)
  <1>1. p \in Seq(Byte) /\ Len(p) = n /\ \A k \in 1 .. n : p[k] = s[k]
    BY SubSeqProperties, LenProperties
  <1> HIDE DEF p
  <1>2. BeginsAt(p, n) <=> BeginsAt(s, n)
    <2>1. n <= Len(p) /\ n \in Nat
      BY <1>1
    <2>. QED
      BY <1>1, <2>1, BeginsLocal
  <1>3. Begins(p) <=> BeginsAt(p, n)
    BY <1>1, ShortBegins
  <1>4. p[1] = s[1]
    BY <1>1
  <1>5. WellFormed(p) <=> BeginsAt(p, n) /\ n = SequenceLength(p[1])
    BY <1>1, WellFormedIs
  <1>. QED
    BY <1>1, <1>2, <1>3, <1>4, <1>5 DEF p

\* The first unit of a text, as the reference cuts it, is what a pass of the
\* loop of emit_valid_utf8 takes.
LEMMA UnitIs ==
  ASSUME NEW s \in Seq(Byte), s # <<>>
  PROVE  Unit(s) = SubSeq(s, 1, Taken(s))
  <1> DEFINE begun == {n \in 1 .. 4 : n <= Len(s) /\ Begins(SubSeq(s, 1, n))}
             t == CHOOSE n \in begun : \A m \in begun : m <= n
  <1>1. Unit(s) = IF begun = {} THEN SubSeq(s, 1, 1) ELSE SubSeq(s, 1, t)
    BY DEF Unit
  <1>2. Len(s) \in Nat /\ Len(s) >= 1 /\ SequenceLength(s[1]) \in 0 .. 4
    BY FirstBegins
  <1>3. \A n : n \in begun <=> n \in 1 .. 4 /\ BeginsAt(s, n)
    BY PrefixBegins DEF BeginsAt
  <1> HIDE DEF begun
  <1>4. CASE SequenceLength(s[1]) = 0
    <2>1. begun = {}
      <3>1. \A n : ~ BeginsAt(s, n)
        BY <1>4 DEF BeginsAt
      <3>. QED
        BY <1>3, <3>1
    <2>. QED
      BY <1>1, <1>4, <2>1 DEF Taken
  <1>5. CASE SequenceLength(s[1]) # 0
    <2> DEFINE v == ValidPrefix(s)
    <2>1. v \in 1 .. SequenceLength(s[1]) /\ BeginsAt(s, v) /\ \A n : BeginsAt(s, n) => n <= v
      BY <1>5, PrefixIs
    <2>2. v \in begun /\ \A m \in begun : m <= v
      BY <1>2, <1>3, <2>1
    <2>3. Taken(s) = v
      BY <1>5 DEF Taken
    <2> HIDE DEF v
    <2>4. t \in begun /\ \A m \in begun : m <= t
      BY <2>2
    <2>5. t = v
      <3>1. t \in 1 .. 4 /\ v \in 1 .. 4 /\ t <= v /\ v <= t
        BY <1>3, <2>2, <2>4
      <3> HIDE DEF t
      <3>. QED
        BY ONLY <3>1
    <2>. QED
      BY <1>1, <2>2, <2>3, <2>5
  <1>. QED
    BY <1>4, <1>5

-----------------------------------------------------------------------------
(* What does not depend on the bytes to come. *)

\* What is taken begins a sequence, and one byte more does not
\* (emit_valid_utf8).
LEMMA TakenEdge ==
  ASSUME NEW s \in Seq(Byte), s # <<>>, SequenceLength(s[1]) # 0
  PROVE  BeginsAt(s, Taken(s)) /\ ~ BeginsAt(s, Taken(s) + 1)
  <1>1. Taken(s) = ValidPrefix(s) /\ Taken(s) \in 1 .. 4
    BY TakenIs DEF Taken
  <1>2. BeginsAt(s, Taken(s)) /\ \A n : BeginsAt(s, n) => n <= Taken(s)
    BY <1>1, PrefixIs
  <1>. QED
    BY <1>1, <1>2

\* Of texts that agree around what is taken from one, as much is taken
\* (emit_valid_utf8).
LEMMA SameTaken ==
  ASSUME NEW s \in Seq(Byte), s # <<>>, NEW t \in Seq(Byte), t # <<>>, s[1] = t[1],
         BeginsAt(s, Taken(s)) => BeginsAt(t, Taken(s)),
         BeginsAt(t, Taken(s) + 1) => BeginsAt(s, Taken(s) + 1)
  PROVE  Taken(t) = Taken(s)
  <1>1. CASE SequenceLength(s[1]) = 0
    BY <1>1 DEF Taken
  <1>2. CASE SequenceLength(s[1]) # 0
    BY <1>2, TakenEdge, TakenWhen
  <1>. QED
    BY <1>1, <1>2

\* A text that goes on has the same first byte.
LEMMA GoesOn ==
  ASSUME NEW s \in Seq(Byte), s # <<>>, NEW y \in Seq(Byte)
  PROVE  /\ s \o y \in Seq(Byte) /\ s \o y # <<>> /\ (s \o y)[1] = s[1]
         /\ Len(s \o y) = Len(s) + Len(y) /\ Len(s) <= Len(s \o y)
         /\ \A k \in 1 .. Len(s) : (s \o y)[k] = s[k]
         /\ \A n \in Nat : n <= Len(s) => (BeginsAt(s, n) <=> BeginsAt(s \o y, n))
  <1> DEFINE t == s \o y
  <1>1. Len(s) \in Nat /\ Len(s) >= 1 /\ Len(y) \in Nat
    BY FirstBegins, LenProperties
  <1>2. t \in Seq(Byte) /\ Len(t) = Len(s) + Len(y) /\ \A k \in 1 .. Len(s) : t[k] = s[k]
    BY <1>1, ConcatProperties
  <1> HIDE DEF t
  <1>3. t # <<>> /\ Len(s) <= Len(t) /\ t[1] = s[1]
    BY <1>1, <1>2, EmptySeq
  <1>4. ASSUME NEW n \in Nat, n <= Len(s) PROVE BeginsAt(s, n) <=> BeginsAt(t, n)
    <2>1. n <= Len(t) /\ \A k \in 1 .. n : s[k] = t[k]
      BY <1>1, <1>2, <1>4
    <2>. QED
      BY <1>2, <1>4, <2>1, BeginsLocal
  <1>. QED
    BY <1>1, <1>2, <1>3, <1>4 DEF t

\* What is kept is a beginning that is not complete, of three bytes at most;
\* at the end of the file nothing is (Utf8State, emit_valid_utf8).
LEMMA KeptIs ==
  ASSUME NEW s \in Seq(Byte), s # <<>>
  PROVE  /\ Kept(s, FALSE) <=> BeginsAt(s, Len(s)) /\ Len(s) < SequenceLength(s[1])
         /\ ~ Kept(s, TRUE)
         /\ Kept(s, FALSE) => /\ Len(s) \in 1 .. 3 /\ Taken(s) = Len(s)
                              /\ Begins(s) /\ ~ WellFormed(s)
  <1>1. s[1] \in Byte /\ Len(s) \in Nat /\ Len(s) >= 1 /\ SequenceLength(s[1]) \in 0 .. 4
    BY FirstBegins
  <1>2. ~ Kept(s, TRUE)
    BY DEF Kept
  <1>3. Kept(s, FALSE) <=> BeginsAt(s, Len(s)) /\ Len(s) < SequenceLength(s[1])
    <2>1. CASE SequenceLength(s[1]) = 0
      BY <1>1, <2>1 DEF Kept
    <2>2. CASE SequenceLength(s[1]) # 0
      <3> DEFINE v == ValidPrefix(s)
                 n == Len(s)
                 l == SequenceLength(s[1])
      <3>1. v \in 1 .. l /\ v <= n /\ BeginsAt(s, v) /\ (BeginsAt(s, n) => n <= v)
        BY <2>2, PrefixIs
      <3>2. Kept(s, FALSE) <=> l > 1 /\ v = n /\ v < l
        BY DEF Kept
      <3> HIDE DEF v, n, l
      <3>3. n \in Nat /\ n >= 1 /\ l \in 0 .. 4
        BY <1>1 DEF n, l
      <3>4. v \in Nat /\ v >= 1 /\ v <= l /\ v <= n
        BY ONLY <3>1, <3>3
      <3>5. ASSUME BeginsAt(s, n), n < l PROVE l > 1 /\ v = n /\ v < l
        BY ONLY <3>1, <3>3, <3>4, <3>5
      <3>6. ASSUME l > 1, v = n, v < l PROVE BeginsAt(s, n) /\ n < l
        BY ONLY <3>1, <3>6
      <3>. QED
        BY <3>2, <3>5, <3>6 DEF n, l
    <2>. QED
      BY <2>1, <2>2
  <1>4. ASSUME Kept(s, FALSE)
        PROVE  Len(s) \in 1 .. 3 /\ Taken(s) = Len(s) /\ Begins(s) /\ ~ WellFormed(s)
    <2> DEFINE n == Len(s)
               l == SequenceLength(s[1])
    <2>0. n \in Nat /\ n >= 1 /\ l \in 0 .. 4 /\ n < l
      BY <1>1, <1>3, <1>4
    <2> HIDE DEF n, l
    <2>1. n \in 1 .. 3 /\ n \in 1 .. 4 /\ n # l
      BY ONLY <2>0
    <2> USE DEF n, l
    <2>2. Taken(s) = Len(s)
      BY <1>1, <1>4 DEF Kept, Taken
    <2>3. Begins(s) /\ ~ WellFormed(s)
      <3>1. BeginsAt(s, Len(s)) /\ Len(s) \in 1 .. 4 /\ Len(s) # SequenceLength(s[1])
        BY <1>3, <1>4, <2>1
      <3>. QED
        BY <3>1, ShortBegins, WellFormedIs
    <2>. QED
      BY <2>1, <2>2, <2>3
  <1>. QED
    BY <1>2, <1>3, <1>4

\* From a text that need not be kept as much is taken however a later chunk
\* goes on (emit_valid_utf8).
LEMMA TakenStable ==
  ASSUME NEW s \in Seq(Byte), s # <<>>, ~ Kept(s, FALSE), NEW y \in Seq(Byte)
  PROVE  Taken(s \o y) = Taken(s)
  <1> DEFINE t == s \o y
             n == Taken(s)
  <1>1. t \in Seq(Byte) /\ t # <<>> /\ t[1] = s[1] /\ Len(s) \in Nat
    BY GoesOn, LenProperties
  <1>2. n \in 1 .. 4 /\ n <= Len(s)
    BY TakenIs
  <1>3. BeginsAt(s, n) => BeginsAt(t, n)
    BY <1>2, GoesOn
  <1>4. ASSUME BeginsAt(t, n + 1) PROVE BeginsAt(s, n + 1)
    <2>1. n + 1 \in 1 .. SequenceLength(s[1]) /\ SequenceLength(s[1]) \in 0 .. 4
      BY <1>1, <1>4, FirstBegins DEF BeginsAt
    <2>2. BeginsAt(s, n)
      BY <2>1, <1>2, TakenEdge
    <2>3. n # Len(s)
      <3>1. n < SequenceLength(s[1])
        BY <1>2, <2>1
      <3>. QED
        BY <2>2, <3>1, KeptIs
    <2>4. n + 1 \in Nat /\ n + 1 <= Len(s)
      BY <1>1, <1>2, <2>3
    <2>. QED
      BY <1>4, <2>4, GoesOn
  <1> HIDE DEF t
  <1>5. Taken(t) = Taken(s)
    BY <1>1, <1>3, <1>4, SameTaken
  <1>. QED
    BY <1>5 DEF t

\* What is taken does not depend on what follows it (emit_valid_utf8).
LEMMA TakenLocal ==
  ASSUME NEW s \in Seq(Byte), s # <<>>, NEW y \in Seq(Byte), Taken(s \o y) <= Len(s)
  PROVE  Taken(s) = Taken(s \o y)
  <1> DEFINE t == s \o y
             n == Taken(t)
  <1>1. t \in Seq(Byte) /\ t # <<>> /\ t[1] = s[1] /\ Len(s) \in Nat
    BY GoesOn, LenProperties
  <1>2. n \in 1 .. 4
    BY <1>1, TakenIs
  <1>3. BeginsAt(t, n) => BeginsAt(s, n)
    BY <1>2, GoesOn
  <1>4. ASSUME BeginsAt(s, n + 1) PROVE BeginsAt(t, n + 1)
    <2>1. n + 1 \in Nat /\ n + 1 <= Len(s)
      BY <1>2, <1>4 DEF BeginsAt
    <2>. QED
      BY <1>4, <2>1, GoesOn
  <1> HIDE DEF t
  <1>5. Taken(s) = Taken(t)
    BY <1>1, <1>3, <1>4, SameTaken
  <1>. QED
    BY <1>5 DEF t

\* What was kept is taken together with what completes it, never in parts
\* (emit_valid_utf8).
LEMMA KeptTaken ==
  ASSUME NEW s \in Seq(Byte), s # <<>>, Kept(s, FALSE), NEW y \in Seq(Byte)
  PROVE  Taken(s \o y) >= Len(s)
  <1> DEFINE t == s \o y
  <1>1. t \in Seq(Byte) /\ t # <<>> /\ t[1] = s[1] /\ Len(s) \in Nat
    BY GoesOn, LenProperties
  <1>2. BeginsAt(s, Len(s))
    BY KeptIs
  <1>3. BeginsAt(t, Len(s))
    BY <1>1, <1>2, GoesOn
  <1> HIDE DEF t
  <1>4. SequenceLength(t[1]) # 0
    <2>1. Len(s) \in 1 .. SequenceLength(t[1]) /\ SequenceLength(t[1]) \in 0 .. 4
      BY <1>1, <1>3, FirstBegins DEF BeginsAt
    <2>. QED
      BY <2>1
  <1>5. Len(s) <= Taken(t)
    BY <1>1, <1>3, <1>4, PrefixIs DEF Taken
  <1>. QED
    BY <1>1, <1>5, TakenIs DEF t

\* A unit is well-formed when it is as long as its first byte says, and the
\* bytes of any other are no token characters (handle_invalid_sequence,
\* is_ascii_token_character).
LEMMA UnitKinds ==
  ASSUME NEW s \in Seq(Byte), s # <<>>
  PROVE  /\ Unit(s) \in Seq(Byte) /\ Len(Unit(s)) = Taken(s) /\ Unit(s) # <<>>
         /\ \A k \in 1 .. Taken(s) : Unit(s)[k] = s[k]
         /\ WellFormed(Unit(s)) <=> Taken(s) = SequenceLength(s[1])
         /\ ~ WellFormed(Unit(s)) => \A k \in 1 .. Taken(s) : ~ IsTokenCharacter(Unit(s)[k])
  <1> DEFINE n == Taken(s)
             u == Unit(s)
  <1>1. n \in 1 .. 4 /\ n <= Len(s)
    BY TakenIs
  <1>2. /\ u \in Seq(Byte) /\ Len(u) = n /\ \A k \in 1 .. n : u[k] = s[k]
        /\ WellFormed(u) <=> BeginsAt(s, n) /\ n = SequenceLength(s[1])
    <2>1. u = SubSeq(s, 1, n)
      BY UnitIs
    <2> HIDE DEF u, n
    <2>. QED
      BY <1>1, <2>1, PrefixBegins
  <1>3. SequenceLength(s[1]) # 0 => BeginsAt(s, n)
    BY TakenEdge
  <1> HIDE DEF n, u
  <1>4. WellFormed(u) <=> n = SequenceLength(s[1])
    BY <1>1, <1>2, <1>3
  <1>5. ASSUME ~ WellFormed(u), NEW k \in 1 .. n PROVE ~ IsTokenCharacter(u[k])
    <2> DEFINE b == s[k]
               a == s[1]
               l == SequenceLength(a)
    <2>1. a \in Byte /\ Len(s) \in Nat
      BY FirstBegins
    <2>2. b \in Byte
      <3>1. k \in 1 .. Len(s)
        BY <1>1, <2>1
      <3>. QED
        BY <3>1, BytesAre
    <2>3. l = 0 => n = 1
      BY DEF n, Taken
    <2>4. l # 0 => BeginsAt(s, n) /\ n # l
      BY <1>3, <1>4, <1>5
    <2>5. /\ l # 0 => n <= l
          /\ l # 0 /\ k = 2 => IsContinuation(b)
          /\ l # 0 /\ k >= 3 => IsContinuation(b)
      <3>1. l # 0 => n \in 1 .. l
        BY <2>4 DEF BeginsAt
      <3>2. l # 0 /\ k = 2 => IsContinuation(b)
        BY <1>1, <2>4, SecondIs DEF BeginsAt
      <3>3. l # 0 /\ k >= 3 => IsContinuation(b)
        BY <1>1, <2>4 DEF BeginsAt
      <3>. QED
        BY <2>1, <3>1, <3>2, <3>3, LengthIs
    <2>6. l \in 0 .. 4 /\ (l = 1 <=> a < 128)
      BY <2>1, LengthIs
    <2>7. k = 1 => b = a
      OBVIOUS
    <2> HIDE DEF a, b, l
    <2>8. b \in 0 .. 255 /\ a \in 0 .. 255
      BY <2>1, <2>2 DEF Byte
    <2>9. k = 1 => b >= 128
      <3>1. l # 1
        BY ONLY <1>1, <2>3, <2>4, <2>5, <2>6
      <3>. QED
        BY ONLY <2>6, <2>7, <2>8, <3>1
    <2>10. k # 1 => b >= 128
      <3>1. k # 1 => l # 0 /\ (k = 2 \/ k >= 3)
        BY ONLY <1>1, <2>3, k \in 1 .. n
      <3>2. IsContinuation(b) => b >= 128
        BY <2>8 DEF IsContinuation
      <3>. QED
        BY ONLY <2>5, <3>1, <3>2
    <2>11. ~ IsTokenCharacter(b)
      <3>1. b \in Int /\ b >= 128
        BY <2>8, <2>9, <2>10
      <3>. QED
        BY ONLY <3>1 DEF IsTokenCharacter
    <2>. QED
      BY <1>2, <1>5, <2>11 DEF b
  <1>6. u # <<>>
    BY <1>1, <1>2, EmptySeq
  <1>. QED
    BY <1>2, <1>4, <1>5, <1>6 DEF n, u

-----------------------------------------------------------------------------
(* Units. *)

\* A sequence is its first n elements and what follows them.
LEMMA DropIs ==
  ASSUME NEW B, NEW s \in Seq(B), NEW n \in Nat, n <= Len(s)
  PROVE  /\ SubSeq(s, 1, n) \in Seq(B) /\ Len(SubSeq(s, 1, n)) = n
         /\ Drop(s, n) \in Seq(B) /\ Len(Drop(s, n)) = Len(s) - n
         /\ s = SubSeq(s, 1, n) \o Drop(s, n)
  <1> DEFINE l == Len(s)
  <1>1. l \in Nat /\ n <= l /\ \A k \in 1 .. l : s[k] \in B
    BY LenProperties
  <1>2. Drop(s, n) = SubSeq(s, n + 1, l)
    BY DEF Drop
  <1>3. s = SubSeq(s, 1, l)
    BY SubSeqFull
  <1>4. SubSeq(s, 1, n) \o SubSeq(s, n + 1, l) = SubSeq(s, 1, l)
    <2>1. 1 \in 1 .. l + 1 /\ n \in 1 - 1 .. l /\ l \in n .. l
      BY <1>1
    <2>. QED
      BY <2>1, ConcatAdjacentSubSeq
  <1> HIDE DEF l
  <1>5. SubSeq(s, 1, n) \in Seq(B) /\ Len(SubSeq(s, 1, n)) = n
    <2>1. (\A k \in 1 .. n : s[k] \in B) /\ 1 \in Int /\ n \in Int /\ n - 1 + 1 = n
      BY <1>1
    <2>2. /\ SubSeq(s, 1, n) \in Seq(B)
          /\ Len(SubSeq(s, 1, n)) = IF 1 <= n THEN n - 1 + 1 ELSE 0
      BY ONLY <2>1, SubSeqProperties
    <2>. QED
      BY ONLY <2>1, <2>2, n \in Nat
  <1>6. SubSeq(s, n + 1, l) \in Seq(B) /\ Len(SubSeq(s, n + 1, l)) = l - n
    <2>1. (\A k \in n + 1 .. l : s[k] \in B) /\ n + 1 \in Int /\ l \in Int
      BY <1>1
    <2>2. /\ SubSeq(s, n + 1, l) \in Seq(B)
          /\ Len(SubSeq(s, n + 1, l)) = IF n + 1 <= l THEN l - (n + 1) + 1 ELSE 0
      BY ONLY <2>1, SubSeqProperties
    <2>. QED
      BY ONLY <1>1, <2>1, <2>2, n \in Nat
  <1>. QED
    BY <1>2, <1>3, <1>4, <1>5, <1>6 DEF l

\* Two sequences put together are cut apart again.
LEMMA CutApart ==
  ASSUME NEW B, NEW u \in Seq(B), NEW x \in Seq(B)
  PROVE  SubSeq(u \o x, 1, Len(u)) = u /\ Drop(u \o x, Len(u)) = x
  <1> DEFINE s == u \o x
             n == Len(u)
             p == SubSeq(s, 1, n)
             q == Drop(s, n)
  <1>1. s \in Seq(B) /\ Len(s) = Len(u) + Len(x) /\ n \in Nat /\ Len(x) \in Nat /\ n <= Len(s)
    BY ConcatProperties, LenProperties
  <1>2. \A k \in 1 .. n : s[k] = u[k]
    BY <1>1, ConcatProperties
  <1>s. s = u \o x
    OBVIOUS
  <1> HIDE DEF s
  <1>3. p \in Seq(B) /\ Len(p) = n /\ q \in Seq(B) /\ s = p \o q
    BY <1>1, DropIs
  <1>4. \A k \in 1 .. n : p[k] = s[k]
    <2>1. \A k \in 1 .. Len(p) + Len(q) : (p \o q)[k] = IF k <= Len(p) THEN p[k] ELSE q[k - Len(p)]
      BY <1>3, ConcatProperties
    <2>2. Len(q) \in Nat /\ Len(p) \in Nat
      BY <1>3, LenProperties
    <2> HIDE DEF p, q, n
    <2>. QED
      BY <1>3, <2>1, <2>2
  <1> HIDE DEF p, q
  <1>5. p = u
    <2>1. Len(p) = Len(u) /\ \A k \in 1 .. Len(p) : p[k] = u[k]
      BY <1>2, <1>3, <1>4
    <2>. QED
      BY <1>3, <2>1, SeqEqual
  <1>6. u \o x = u \o q
    BY <1>3, <1>5, <1>s
  <1>7. x = q
    BY <1>3, <1>6, ConcatSimplifications
  <1>. QED
    BY <1>5, <1>7 DEF p, q, s, n

\* The equation of Units.
IsUnits(f) ==
  f = [text \in Seq(Byte) |->
        IF text = <<>> THEN <<>> ELSE <<Unit(text)>> \o f[Drop(text, Len(Unit(text)))]]

\* What follows the first unit of a text is shorter (emit_valid_utf8).
LEMMA UnitCut ==
  ASSUME NEW s \in Seq(Byte), s # <<>>
  PROVE  LET x == Drop(s, Taken(s)) IN
           x \in Seq(Byte) /\ Len(x) < Len(s) /\ s = Unit(s) \o x
  <1>1. Taken(s) \in Nat /\ Taken(s) > 0 /\ Taken(s) <= Len(s) /\ Len(s) \in Nat
    BY TakenIs, LenProperties
  <1>2. Unit(s) = SubSeq(s, 1, Taken(s))
    BY UnitIs
  <1>3. /\ Drop(s, Taken(s)) \in Seq(Byte) /\ Len(Drop(s, Taken(s))) = Len(s) - Taken(s)
        /\ s = SubSeq(s, 1, Taken(s)) \o Drop(s, Taken(s))
    BY <1>1, DropIs
  <1>. QED
    BY <1>1, <1>2, <1>3

\* Units is a function, and satisfies its equation (emit_valid_utf8).
LEMMA UnitsEquation ==
  /\ Units \in [Seq(Byte) -> Seq(Seq(Byte))]
  /\ Units[<<>>] = <<>>
  /\ \A s \in Seq(Byte) : s # <<>> => Units[s] = <<Unit(s)>> \o Units[Drop(s, Taken(s))]
  <1> DEFINE V == Seq(Seq(Byte))
             D == Seq(Byte) \ {<<>>}
             base == [s \in Seq(Byte) |-> <<>>]
             d == [s \in D |-> Drop(s, Taken(s))]
             c == [p \in Seq(Byte) \X V |-> IF p[1] = <<>> THEN <<>> ELSE <<Unit(p[1])>> \o p[2]]
  <1>1. \A s \in Seq(Byte) : s # <<>> =>
          /\ Unit(s) \in Seq(Byte) /\ Len(Unit(s)) = Taken(s)
          /\ Drop(s, Taken(s)) \in Seq(Byte) /\ Len(Drop(s, Taken(s))) < Len(s)
    BY UnitCut, UnitKinds
  <1>2. <<>> \in Seq(Byte) /\ <<>> \in V
    BY EmptySeq
  <1>3. ASSUME NEW s \in Seq(Byte), s # <<>>, NEW v \in V
        PROVE  <<Unit(s)>> \o v \in V /\ c[<<s, v>>] = <<Unit(s)>> \o v
    <2>1. Unit(s) \in Seq(Byte)
      BY <1>1, <1>3
    <2>2. <<Unit(s)>> \in V
      BY <2>1
    <2>. QED
      BY <1>3, <2>2, ConcatProperties
  <1>4. Descends(Byte, V, D, base, d, c)
    <2>1. base \in [Seq(Byte) -> V]
      BY <1>2
    <2>2. d \in [D -> Seq(Byte)] /\ \A s \in D : Len(d[s]) < Len(s)
      BY <1>1
    <2>3. c \in [Seq(Byte) \X V -> V]
      <3> SUFFICES ASSUME NEW s \in Seq(Byte), NEW v \in V
                   PROVE  (IF s = <<>> THEN <<>> ELSE <<Unit(s)>> \o v) \in V
        OBVIOUS
      <3>. QED
        BY <1>2, <1>3
    <2>. QED
      BY <2>1, <2>2, <2>3 DEF Descends
  <1>5. \A s \in Seq(Byte) : base[s] = <<>>
    OBVIOUS
  <1>6. \A s \in D : d[s] = Drop(s, Taken(s))
    OBVIOUS
  <1>7. <<>> \notin D /\ \A s \in Seq(Byte) : s # <<>> => s \in D
    OBVIOUS
  <1> HIDE DEF base, d, c, D
  <1>8. PICK f \in [Seq(Byte) -> V] :
          \A s \in Seq(Byte) : f[s] = IF s \in D THEN c[<<s, f[d[s]]>>] ELSE base[s]
    BY <1>4, RecursionExists
  <1>9. f[<<>>] = <<>>
    BY <1>2, <1>5, <1>7, <1>8
  <1>10. ASSUME NEW s \in Seq(Byte), s # <<>>
         PROVE  f[s] = <<Unit(s)>> \o f[Drop(s, Taken(s))]
    <2>1. f[Drop(s, Taken(s))] \in V
      BY <1>1, <1>8, <1>10
    <2>. QED
      BY <1>3, <1>6, <1>7, <1>8, <1>10, <2>1
  <1>11. IsUnits(f)
    <2>1. f = [s \in Seq(Byte) |-> f[s]]
      BY <1>8
    <2>2. \A s \in Seq(Byte) :
            f[s] = IF s = <<>> THEN <<>> ELSE <<Unit(s)>> \o f[Drop(s, Len(Unit(s)))]
      BY <1>1, <1>9, <1>10
    <2>. QED
      BY <2>1, <2>2 DEF IsUnits
  <1>12. Units = CHOOSE g : IsUnits(g)
    BY DEF Units, IsUnits
  <1>13. IsUnits(Units)
    BY <1>11, <1>12
  <1>14. /\ DOMAIN Units = Seq(Byte) /\ Units[<<>>] = <<>>
         /\ Units = [s \in Seq(Byte) |-> Units[s]]
         /\ \A s \in Seq(Byte) : s # <<>> => Units[s] = <<Unit(s)>> \o Units[Drop(s, Len(Unit(s)))]
    <2> DEFINE F(s) == IF s = <<>> THEN <<>> ELSE <<Unit(s)>> \o Units[Drop(s, Len(Unit(s)))]
    <2>1. Units = [s \in Seq(Byte) |-> F(s)]
      BY <1>13 DEF IsUnits
    <2>2. F(<<>>) = <<>> /\ \A s \in Seq(Byte) : s # <<>> => F(s) = <<Unit(s)>> \o Units[Drop(s, Len(Unit(s)))]
      OBVIOUS
    <2> HIDE DEF F
    <2>3. DOMAIN Units = Seq(Byte) /\ \A s \in Seq(Byte) : Units[s] = F(s)
      BY <2>1
    <2>. QED
      BY <1>2, <2>1, <2>2, <2>3
  <1>15. \A s \in Seq(Byte) : s # <<>> => Units[s] = <<Unit(s)>> \o Units[Drop(s, Taken(s))]
    BY <1>1, <1>14
  <1> DEFINE U == {s \in Seq(Byte) : Units[s] \in V}
  <1>16. ASSUME NEW s \in Seq(Byte), \A t \in Seq(Byte) : Len(t) < Len(s) => t \in U
         PROVE  s \in U
    <2>1. CASE s = <<>>
      BY <1>2, <1>14, <2>1
    <2>2. CASE s # <<>>
      <3>1. Units[Drop(s, Taken(s))] \in V
        BY <1>1, <1>16, <2>2
      <3>2. Units[s] \in V
        BY <1>3, <1>15, <2>2, <3>1
      <3>. QED
        BY <3>2
    <2>. QED
      BY <2>1, <2>2
  <1> HIDE DEF U
  <1>17. Seq(Byte) \subseteq U
    BY <1>16, LengthInductive
  <1>18. \A s \in Seq(Byte) : Units[s] \in V
    BY <1>17 DEF U
  <1>. QED
    BY <1>14, <1>15, <1>18

\* The units of a text whose first unit is known (emit_valid_utf8).
LEMMA UnitsCons ==
  ASSUME NEW u \in Seq(Byte), u # <<>>, NEW x \in Seq(Byte), Taken(u \o x) = Len(u)
  PROVE  Unit(u \o x) = u /\ Units[u \o x] = <<u>> \o Units[x]
  <1> DEFINE s == u \o x
  <1>1. s \in Seq(Byte) /\ s # <<>>
    BY GoesOn
  <1>2. SubSeq(s, 1, Taken(s)) = u /\ Drop(s, Taken(s)) = x
    BY CutApart
  <1> HIDE DEF s
  <1>3. Unit(s) = u
    BY <1>1, <1>2, UnitIs
  <1>4. Units[s] = <<u>> \o Units[x]
    BY <1>1, <1>2, <1>3, UnitsEquation
  <1>. QED
    BY <1>3, <1>4 DEF s

-----------------------------------------------------------------------------
(* The text and the invalid units of a sequence of units. *)

\* Flattening puts together what is put together.
LEMMA FlattenConcat ==
  ASSUME NEW X, NEW ss \in Seq(Seq(X)), NEW tt \in Seq(Seq(X))
  PROVE  FlattenSeq(ss \o tt) = FlattenSeq(ss) \o FlattenSeq(tt)
  <1> DEFINE Y == Seq(X)
             U == {rr \in Seq(Y) : FlattenSeq(ss \o rr) = FlattenSeq(ss) \o FlattenSeq(rr)}
  <1>1. <<>> \in U
    <2>1. ss \o <<>> = ss /\ <<>> \in Seq(Y)
      BY ConcatEmptySeq, EmptySeq
    <2>2. FlattenSeq(<<>>) = <<>> /\ FlattenSeq(ss) \in Seq(X)
      BY FlattenType, FlattenRec, EmptySeq
    <2>3. FlattenSeq(ss) \o <<>> = FlattenSeq(ss)
      BY <2>2, ConcatEmptySeq
    <2>. QED
      BY <2>1, <2>2, <2>3
  <1>2. ASSUME NEW rr \in Seq(Y), NEW s \in Y, rr \in U PROVE Append(rr, s) \in U
    <2>1. ss \o rr \in Seq(Y)
      BY ConcatProperties
    <2>2. ss \o Append(rr, s) = Append(ss \o rr, s)
      <3>1. Append(rr, s) = rr \o <<s>> /\ Append(ss \o rr, s) = (ss \o rr) \o <<s>>
        BY <2>1, AppendIsConcat
      <3>2. <<s>> \in Seq(Y)
        OBVIOUS
      <3>. QED
        BY <3>1, <3>2, ConcatAssociative
    <2>3. FlattenSeq(Append(ss \o rr, s)) = FlattenSeq(ss \o rr) \o s
      BY <2>1, FlattenRec
    <2>4. FlattenSeq(Append(rr, s)) = FlattenSeq(rr) \o s
      BY FlattenRec
    <2>5. FlattenSeq(ss) \in Seq(X) /\ FlattenSeq(rr) \in Seq(X)
      BY FlattenType
    <2>6. (FlattenSeq(ss) \o FlattenSeq(rr)) \o s = FlattenSeq(ss) \o (FlattenSeq(rr) \o s)
      BY <2>5, ConcatAssociative, SMTT(60)
    <2>7. Append(rr, s) \in Seq(Y)
      BY AppendProperties
    <2>. QED
      BY <1>2, <2>2, <2>3, <2>4, <2>6, <2>7
  <1> HIDE DEF U
  <1>3. tt \in U
    BY <1>1, <1>2, SeqInductive
  <1>. QED
    BY <1>3 DEF U

\* One part flattens to itself.
LEMMA FlattenOne ==
  ASSUME NEW X, NEW s \in Seq(X)
  PROVE  FlattenSeq(<<s>>) = s
  <1>1. <<>> \in Seq(Seq(X))
    BY EmptySeq
  <1>2. FlattenSeq(Append(<<>>, s)) = FlattenSeq(<<>>) \o s /\ FlattenSeq(<<>>) = <<>>
    BY <1>1, FlattenRec
  <1>3. Append(<<>>, s) = <<s>>
    OBVIOUS
  <1>4. <<>> \o s = s
    BY ConcatEmptySeq
  <1>. QED
    BY <1>2, <1>3, <1>4

\* The units of a text make it up (emit_valid_utf8).
LEMMA FlattenUnits ==
  ASSUME NEW s \in Seq(Byte)
  PROVE  FlattenSeq(Units[s]) = s
  <1> DEFINE U == {t \in Seq(Byte) : FlattenSeq(Units[t]) = t}
  <1>1. ASSUME NEW t \in Seq(Byte), \A r \in Seq(Byte) : Len(r) < Len(t) => r \in U
        PROVE  t \in U
    <2>1. CASE t = <<>>
      <3>1. FlattenSeq(<<>>) = <<>>
        BY FlattenRec, EmptySeq
      <3>. QED
        BY <2>1, <3>1, UnitsEquation
    <2>2. CASE t # <<>>
      <3> DEFINE x == Drop(t, Taken(t))
                 u == Unit(t)
      <3>1. x \in Seq(Byte) /\ Len(x) < Len(t) /\ t = u \o x /\ u \in Seq(Byte)
        BY <2>2, UnitCut, UnitKinds
      <3>2. Units[t] = <<u>> \o Units[x] /\ Units[x] \in Seq(Seq(Byte))
        BY <2>2, <3>1, UnitsEquation
      <3>3. FlattenSeq(Units[x]) = x
        BY <1>1, <3>1
      <3> HIDE DEF x, u
      <3>4. <<u>> \in Seq(Seq(Byte)) /\ FlattenSeq(<<u>>) = u
        BY <3>1, FlattenOne
      <3>5. FlattenSeq(Units[t]) = u \o x
        <4>1. FlattenSeq(<<u>> \o Units[x]) = FlattenSeq(<<u>>) \o FlattenSeq(Units[x])
          BY ONLY <3>2, <3>4, FlattenConcat, ZenonT(60)
        <4>. QED
          BY ONLY <3>2, <3>3, <3>4, <4>1, Zenon
      <3>. QED
        BY <3>1, <3>5
    <2>. QED
      BY <2>1, <2>2
  <1> HIDE DEF U
  <1>2. s \in U
    BY <1>1, LengthInductive
  <1>. QED
    BY <1>2 DEF U

\* Of units: the text of one, the texts and the text of several, the invalid
\* ones, and the place of the first of these.
UnitText(u) == IF WellFormed(u) THEN u ELSE Replacement
Texts(us) == [k \in DOMAIN us |-> UnitText(us[k])]
TextOf(us) == FlattenSeq(Texts(us))
Bad(us) == {k \in DOMAIN us : ~ WellFormed(us[k])}
FirstOf(us) ==
  LET first == CHOOSE k \in Bad(us) : \A j \in Bad(us) : k <= j
  IN Len(FlattenSeq(SubSeq(us, 1, first - 1)))

\* What the reference says of a text, it says of its units.
LEMMA OfUnits ==
  ASSUME NEW s
  PROVE  /\ DecodedText(s) = TextOf(Units[s]) /\ BadUnits(s) = Bad(Units[s])
         /\ FirstBad(s) = FirstOf(Units[s])
  BY DEF DecodedText, TextOf, Texts, UnitText, BadUnits, Bad, FirstBad, FirstOf

\* The text of a unit consists of bytes (handle_invalid_sequence).
LEMMA UnitTextType ==
  ASSUME NEW u \in Seq(Byte)
  PROVE  UnitText(u) \in Seq(Byte)
  <1>1. Replacement \in Seq(Byte)
    BY DEF Replacement, Byte
  <1>. QED
    BY <1>1 DEF UnitText

\* The texts of units that are put together.
LEMMA TextsConcat ==
  ASSUME NEW us \in Seq(Seq(Byte)), NEW vs \in Seq(Seq(Byte))
  PROVE  /\ Texts(us) \in Seq(Seq(Byte)) /\ Texts(vs) \in Seq(Seq(Byte))
         /\ Texts(us \o vs) = Texts(us) \o Texts(vs)
  <1>1. \A rs \in Seq(Seq(Byte)) :
          /\ Texts(rs) \in Seq(Seq(Byte)) /\ Len(Texts(rs)) = Len(rs) /\ Len(rs) \in Nat
          /\ \A k \in 1 .. Len(rs) : Texts(rs)[k] = UnitText(rs[k])
    <2> SUFFICES ASSUME NEW rs \in Seq(Seq(Byte))
                 PROVE  /\ Texts(rs) \in Seq(Seq(Byte)) /\ Len(Texts(rs)) = Len(rs) /\ Len(rs) \in Nat
                        /\ \A k \in 1 .. Len(rs) : Texts(rs)[k] = UnitText(rs[k])
      OBVIOUS
    <2> DEFINE n == Len(rs)
    <2>1. n \in Nat /\ DOMAIN rs = 1 .. n /\ \A k \in 1 .. n : rs[k] \in Seq(Byte)
      BY LenProperties
    <2>2. Texts(rs) = [k \in 1 .. n |-> UnitText(rs[k])]
      BY <2>1 DEF Texts
    <2> HIDE DEF n
    <2>3. \A k \in 1 .. n : Texts(rs)[k] = UnitText(rs[k]) /\ Texts(rs)[k] \in Seq(Byte)
      BY <2>1, <2>2, UnitTextType
    <2>4. Texts(rs) = [k \in 1 .. n |-> Texts(rs)[k]]
      BY <2>2
    <2>5. Texts(rs) \in Seq(Seq(Byte)) /\ Len(Texts(rs)) = n
      BY <2>1, <2>3, <2>4, SeqIs
    <2>. QED
      BY <2>1, <2>3, <2>5 DEF n
  <1> DEFINE ws == us \o vs
             n == Len(us)
             m == Len(vs)
             a == Texts(us)
             b == Texts(vs)
             c == Texts(us \o vs)
             e == Texts(us) \o Texts(vs)
  <1>2. ws \in Seq(Seq(Byte)) /\ Len(ws) = n + m
        /\ \A k \in 1 .. n + m : ws[k] = IF k <= n THEN us[k] ELSE vs[k - n]
    BY ConcatProperties
  <1>3. c \in Seq(Seq(Byte)) /\ Len(c) = n + m /\ n \in Nat /\ m \in Nat
        /\ \A k \in 1 .. n + m : c[k] = UnitText(ws[k])
    BY <1>1, <1>2
  <1>4. a \in Seq(Seq(Byte)) /\ b \in Seq(Seq(Byte)) /\ Len(a) = n /\ Len(b) = m
        /\ (\A k \in 1 .. n : a[k] = UnitText(us[k])) /\ \A k \in 1 .. m : b[k] = UnitText(vs[k])
    BY <1>1
  <1>5. e \in Seq(Seq(Byte)) /\ Len(e) = n + m
        /\ \A k \in 1 .. n + m : e[k] = IF k <= n THEN a[k] ELSE b[k - n]
    <2>1. e = a \o b
      OBVIOUS
    <2> HIDE DEF n, m, a, b, e
    <2>2. /\ a \o b \in Seq(Seq(Byte)) /\ Len(a \o b) = Len(a) + Len(b)
          /\ \A k \in 1 .. Len(a) + Len(b) : (a \o b)[k] = IF k <= Len(a) THEN a[k] ELSE b[k - Len(a)]
      BY ONLY <1>4, ConcatProperties, ZenonT(60)
    <2>. QED
      BY ONLY <1>4, <2>1, <2>2, ZenonT(60)
  <1> HIDE DEF ws, n, m, a, b, c, e
  <1>6. ASSUME NEW k \in 1 .. n + m PROVE c[k] = e[k]
    <2>1. CASE k <= n
      <3>1. k \in 1 .. n
        BY <1>3, <2>1
      <3>2. c[k] = UnitText(ws[k]) /\ ws[k] = us[k]
        BY ONLY <1>2, <1>3, <2>1, k \in 1 .. n + m, Zenon
      <3>3. e[k] = a[k] /\ a[k] = UnitText(us[k])
        BY ONLY <1>4, <1>5, <2>1, <3>1, k \in 1 .. n + m, Zenon
      <3>. QED
        BY ONLY <3>2, <3>3, Zenon
    <2>2. CASE ~ k <= n
      <3>1. k - n \in 1 .. m
        BY <1>3, <2>2
      <3>2. c[k] = UnitText(ws[k]) /\ ws[k] = vs[k - n]
        BY ONLY <1>2, <1>3, <2>2, k \in 1 .. n + m, Zenon
      <3>3. e[k] = b[k - n] /\ b[k - n] = UnitText(vs[k - n])
        BY ONLY <1>4, <1>5, <2>2, <3>1, k \in 1 .. n + m, Zenon
      <3>. QED
        BY ONLY <3>2, <3>3, Zenon
    <2>. QED
      BY <2>1, <2>2
  <1>7. c = e
    BY <1>3, <1>5, <1>6, SeqEqual
  <1>. QED
    BY <1>4, <1>7 DEF a, b, c, e

\* The text of units that are put together (emit_valid_utf8 appends).
LEMMA TextConcat ==
  ASSUME NEW us \in Seq(Seq(Byte)), NEW vs \in Seq(Seq(Byte))
  PROVE  /\ TextOf(us) \in Seq(Byte) /\ TextOf(vs) \in Seq(Byte)
         /\ TextOf(us \o vs) = TextOf(us) \o TextOf(vs)
  BY TextsConcat, FlattenConcat, FlattenType DEF TextOf

\* The text of one unit, and of none (emit_valid_utf8).
LEMMA TextOne ==
  ASSUME NEW u \in Seq(Byte)
  PROVE  TextOf(<<u>>) = UnitText(u) /\ TextOf(<<>>) = <<>>
  <1>1. Texts(<<u>>) = <<UnitText(u)>> /\ Texts(<<>>) = <<>>
    BY DEF Texts
  <1>2. FlattenSeq(<<UnitText(u)>>) = UnitText(u)
    BY UnitTextType, FlattenOne
  <1>3. FlattenSeq(<<>>) = <<>>
    BY FlattenRec, EmptySeq
  <1>. QED
    BY <1>1, <1>2, <1>3 DEF TextOf

\* The invalid units, one unit at a time (invalid_sequence_count).
LEMMA BadAppend ==
  ASSUME NEW us \in Seq(Seq(Byte)), NEW u \in Seq(Byte)
  PROVE  Bad(Append(us, u)) = IF WellFormed(u) THEN Bad(us) ELSE Bad(us) \cup {Len(us) + 1}
  <1> DEFINE n == Len(us)
             vs == Append(us, u)
  <1>1. /\ n \in Nat /\ DOMAIN us = 1 .. n /\ DOMAIN vs = 1 .. n + 1
        /\ (\A k \in 1 .. n : vs[k] = us[k]) /\ vs[n + 1] = u
    BY AppendProperties, LenProperties
  <1> HIDE DEF n, vs
  <1>2. Bad(us) = {k \in 1 .. n : ~ WellFormed(us[k])} /\ Bad(vs) = {k \in 1 .. n + 1 : ~ WellFormed(vs[k])}
    BY <1>1 DEF Bad
  <1>3. ASSUME NEW k PROVE k \in Bad(vs) <=> k \in Bad(us) \/ (k = n + 1 /\ ~ WellFormed(u))
    <2>1. k \in 1 .. n + 1 <=> k \in 1 .. n \/ k = n + 1
      BY <1>1
    <2>. QED
      BY <1>1, <1>2, <2>1
  <1>. QED
    BY <1>3 DEF n, vs

\* The invalid units are finitely many (invalid_sequence_count).
LEMMA BadType ==
  ASSUME NEW us \in Seq(Seq(Byte))
  PROVE  /\ IsFiniteSet(Bad(us)) /\ Cardinality(Bad(us)) \in Nat
         /\ Bad(us) \in SUBSET Nat
         /\ Cardinality(Bad(us)) = 0 <=> Bad(us) = {}
         /\ \A k \in Bad(us) : k \in 1 .. Len(us)
  <1>1. Len(us) \in Nat /\ DOMAIN us = 1 .. Len(us)
    BY LenProperties
  <1>2. Bad(us) \in SUBSET (1 .. Len(us))
    BY <1>1 DEF Bad
  <1>3. IsFiniteSet(Bad(us))
    <2>1. IsFiniteSet(1 .. Len(us))
      BY <1>1, FS_Interval
    <2>. QED
      BY <1>2, <2>1, FS_Subset
  <1>. QED
    BY <1>1, <1>2, <1>3, FS_EmptySet, FS_CardinalityType

\* The counts of invalid units add up (invalid_sequence_count).
LEMMA BadConcat ==
  ASSUME NEW us \in Seq(Seq(Byte)), NEW vs \in Seq(Seq(Byte))
  PROVE  /\ Cardinality(Bad(us \o vs)) = Cardinality(Bad(us)) + Cardinality(Bad(vs))
         /\ Bad(us \o vs) = {} <=> Bad(us) = {} /\ Bad(vs) = {}
  <1> DEFINE Y == Seq(Byte)
             U == {rs \in Seq(Y) : Cardinality(Bad(us \o rs)) = Cardinality(Bad(us)) + Cardinality(Bad(rs))}
  <1>1. ASSUME NEW rs \in Seq(Y), NEW u \in Y
        PROVE  Cardinality(Bad(Append(rs, u))) = Cardinality(Bad(rs)) + (IF WellFormed(u) THEN 0 ELSE 1)
    <2>1. Len(rs) \in Nat /\ IsFiniteSet(Bad(rs)) /\ Cardinality(Bad(rs)) \in Nat
          /\ \A k \in Bad(rs) : k \in 1 .. Len(rs)
      BY BadType, LenProperties
    <2>2. Len(rs) + 1 \notin Bad(rs)
      BY <2>1
    <2>3. Cardinality(Bad(rs) \cup {Len(rs) + 1}) = Cardinality(Bad(rs)) + 1
      BY <2>1, <2>2, FS_AddElement
    <2> DEFINE i == Cardinality(Bad(rs))
               b == IF WellFormed(u) THEN 0 ELSE 1
    <2>4. WellFormed(u) => b = 0 /\ i + 0 = i /\ Bad(Append(rs, u)) = Bad(rs)
      BY <2>1, BadAppend
    <2>5. ~ WellFormed(u) => b = 1 /\ Bad(Append(rs, u)) = Bad(rs) \cup {Len(rs) + 1}
      BY BadAppend
    <2>6. Cardinality(Bad(Append(rs, u))) = i + b
      <3> HIDE DEF i, b
      <3>1. WellFormed(u) => Cardinality(Bad(Append(rs, u))) = i + b
        BY <2>4 DEF i
      <3>2. ~ WellFormed(u) => Cardinality(Bad(Append(rs, u))) = i + b
        BY <2>3, <2>5 DEF i
      <3>. QED
        BY <3>1, <3>2
    <2>. QED
      BY <2>6
  <1>2. <<>> \in U
    <2>1. us \o <<>> = us /\ <<>> \in Seq(Y) /\ Bad(<<>>) = {}
      BY ConcatEmptySeq, EmptySeq DEF Bad
    <2>2. Cardinality(Bad(<<>>)) = 0 /\ Cardinality(Bad(us)) \in Nat
      BY <2>1, FS_EmptySet, BadType
    <2>. QED
      BY <2>1, <2>2
  <1>3. ASSUME NEW rs \in Seq(Y), NEW u \in Y, rs \in U PROVE Append(rs, u) \in U
    <2>1. us \o rs \in Seq(Y) /\ Append(rs, u) \in Seq(Y)
      BY ConcatProperties, AppendProperties
    <2>2. us \o Append(rs, u) = Append(us \o rs, u)
      <3>1. Append(rs, u) = rs \o <<u>> /\ Append(us \o rs, u) = (us \o rs) \o <<u>>
        BY <2>1, AppendIsConcat
      <3>2. <<u>> \in Seq(Y)
        OBVIOUS
      <3>. QED
        BY <3>1, <3>2, ConcatAssociative
    <2> DEFINE b == IF WellFormed(u) THEN 0 ELSE 1
               i == Cardinality(Bad(us))
               j == Cardinality(Bad(rs))
               k == Cardinality(Bad(us \o rs))
    <2>3. Cardinality(Bad(Append(us \o rs, u))) = k + b /\ Cardinality(Bad(Append(rs, u))) = j + b
      BY <1>1, <2>1
    <2>4. k = i + j
      BY <1>3
    <2>5. i \in Nat /\ j \in Nat /\ b \in Nat
      BY BadType
    <2> HIDE DEF b, i, j, k
    <2>6. k + b = i + (j + b)
      BY ONLY <2>4, <2>5
    <2>. QED
      BY <2>1, <2>2, <2>3, <2>6 DEF i
  <1> HIDE DEF U
  <1>4. vs \in U
    BY <1>2, <1>3, SeqInductive
  <1> DEFINE i == Cardinality(Bad(us))
             j == Cardinality(Bad(vs))
             k == Cardinality(Bad(us \o vs))
  <1>5. k = i + j
    BY <1>4 DEF U
  <1>6. us \o vs \in Seq(Y)
    BY ConcatProperties
  <1>7. /\ i \in Nat /\ j \in Nat
        /\ k = 0 <=> Bad(us \o vs) = {}
        /\ i = 0 <=> Bad(us) = {}
        /\ j = 0 <=> Bad(vs) = {}
    BY <1>6, BadType
  <1> HIDE DEF i, j, k
  <1>8. k = 0 <=> i = 0 /\ j = 0
    BY <1>5, <1>7
  <1>. QED
    BY <1>5, <1>7, <1>8 DEF i, j, k

\* The count of invalid units of one unit, and of none
\* (invalid_sequence_count).
LEMMA BadOne ==
  ASSUME NEW u \in Seq(Byte)
  PROVE  /\ Bad(<<>>) = {} /\ Cardinality(Bad(<<>>)) = 0
         /\ WellFormed(u) => Bad(<<u>>) = {} /\ Cardinality(Bad(<<u>>)) = 0
         /\ ~ WellFormed(u) => Bad(<<u>>) # {} /\ Cardinality(Bad(<<u>>)) = 1
  <1>1. Bad(<<>>) = {} /\ Cardinality({}) = 0
    BY FS_EmptySet DEF Bad
  <1>2. WellFormed(u) => Bad(<<u>>) = {}
    BY DEF Bad
  <1>3. ~ WellFormed(u) => Bad(<<u>>) = {1}
    BY DEF Bad
  <1>4. Cardinality({1}) = 1
    BY FS_Singleton
  <1>. QED
    BY <1>1, <1>2, <1>3, <1>4

\* The first invalid unit starts behind the well-formed ones before it
\* (InvalidUtf8Error).
LEMMA FirstWhen ==
  ASSUME NEW ps \in Seq(Seq(Byte)), NEW u \in Seq(Byte), NEW qs \in Seq(Seq(Byte)),
         Bad(ps) = {}, ~ WellFormed(u)
  PROVE  FirstOf(ps \o (<<u>> \o qs)) = Len(FlattenSeq(ps))
  <1> DEFINE n == Len(ps)
             x == <<u>> \o qs
             us == ps \o x
             first == CHOOSE k \in Bad(us) : \A j \in Bad(us) : k <= j
  <1>1. <<u>> \in Seq(Seq(Byte)) /\ Len(<<u>>) = 1 /\ n \in Nat /\ Len(qs) \in Nat
    BY LenProperties
  <1>2. x \in Seq(Seq(Byte)) /\ Len(x) = 1 + Len(qs) /\ x[1] = u
    BY <1>1, ConcatProperties
  <1> HIDE DEF x
  <1>3. us \in Seq(Seq(Byte)) /\ Len(us) = n + Len(x)
        /\ \A k \in 1 .. n + Len(x) : us[k] = IF k <= n THEN ps[k] ELSE x[k - n]
    BY <1>2, ConcatProperties, ZenonT(60)
  <1>4. SubSeq(us, 1, n) = ps
    BY <1>2, CutApart
  <1>5. FirstOf(us) = Len(FlattenSeq(SubSeq(us, 1, first - 1)))
    BY DEF FirstOf
  <1>x. us = ps \o x
    OBVIOUS
  <1> HIDE DEF n, us, first
  <1>6. DOMAIN us = 1 .. Len(us)
    BY <1>3, LenProperties
  <1>7. n + 1 \in Bad(us)
    <2>1. n + 1 \in 1 .. n + Len(x) /\ (n + 1) - n = 1 /\ ~ n + 1 <= n
      BY <1>1, <1>2
    <2>2. us[n + 1] = u
      BY <1>2, <1>3, <2>1
    <2>. QED
      BY <1>3, <1>6, <2>1, <2>2 DEF Bad
  <1>8. ASSUME NEW k \in Bad(us) PROVE k \in Nat /\ n + 1 <= k
    <2>1. k \in 1 .. n + Len(x) /\ ~ WellFormed(us[k])
      BY <1>3, <1>6, <1>8 DEF Bad
    <2>2. ~ k <= n
      <3> SUFFICES ASSUME k <= n PROVE FALSE
        OBVIOUS
      <3>1. us[k] = ps[k] /\ k \in DOMAIN ps
        BY <1>1, <1>3, <2>1, LenProperties DEF n
      <3>. QED
        BY <2>1, <3>1 DEF Bad
    <2>. QED
      BY <1>1, <2>1, <2>2
  <1>9. first = n + 1
    <2>1. first \in Bad(us) /\ \A j \in Bad(us) : first <= j
      BY <1>7, <1>8 DEF first
    <2>. QED
      BY <1>1, <1>7, <1>8, <2>1
  <1>10. first - 1 = n
    BY <1>1, <1>9
  <1>. QED
    BY <1>4, <1>5, <1>10, <1>x DEF x

\* A sequence with an invalid unit has a first one (InvalidUtf8Error).
LEMMA FirstSplit ==
  ASSUME NEW us \in Seq(Seq(Byte)), Bad(us) # {}
  PROVE  \E ps \in Seq(Seq(Byte)), u \in Seq(Byte), qs \in Seq(Seq(Byte)) :
           us = ps \o (<<u>> \o qs) /\ Bad(ps) = {} /\ ~ WellFormed(u)
  <1> DEFINE Y == Seq(Byte)
             Found(rs) == \E ps \in Seq(Y), u \in Y, qs \in Seq(Y) :
                            rs = ps \o (<<u>> \o qs) /\ Bad(ps) = {} /\ ~ WellFormed(u)
             U == {rs \in Seq(Y) : Bad(rs) # {} => Found(rs)}
  <1>1. <<>> \in U
    <2>1. Bad(<<>>) = {} /\ <<>> \in Seq(Y)
      BY EmptySeq DEF Bad
    <2>. QED
      BY <2>1
  <1>2. ASSUME NEW rs \in Seq(Y), NEW v \in Y, rs \in U PROVE Append(rs, v) \in U
    <2>1. Append(rs, v) \in Seq(Y) /\ Append(rs, v) = rs \o <<v>> /\ <<v>> \in Seq(Y)
      BY AppendProperties, AppendIsConcat
    <2>2. CASE Bad(rs) # {}
      <3>1. PICK ps \in Seq(Y), u \in Y, qs \in Seq(Y) :
              rs = ps \o (<<u>> \o qs) /\ Bad(ps) = {} /\ ~ WellFormed(u)
        BY <1>2, <2>2
      <3>2. <<u>> \in Seq(Y) /\ <<u>> \o qs \in Seq(Y) /\ qs \o <<v>> \in Seq(Y)
        BY <2>1, ConcatProperties
      <3>3. (ps \o (<<u>> \o qs)) \o <<v>> = ps \o ((<<u>> \o qs) \o <<v>>)
        BY <2>1, <3>2, ConcatAssociative
      <3>4. (<<u>> \o qs) \o <<v>> = <<u>> \o (qs \o <<v>>)
        BY <2>1, <3>2, ConcatAssociative
      <3>5. Append(rs, v) = ps \o (<<u>> \o (qs \o <<v>>))
        BY <2>1, <3>1, <3>3, <3>4
      <3>6. Found(Append(rs, v))
        BY <3>1, <3>2, <3>5
      <3>. QED
        BY <2>1, <3>6
    <2>3. CASE Bad(rs) = {} /\ ~ WellFormed(v)
      <3>1. <<v>> = <<v>> \o <<>> /\ <<>> \in Seq(Y)
        BY <2>1, ConcatEmptySeq, EmptySeq
      <3>2. Found(Append(rs, v))
        BY <2>1, <2>3, <3>1
      <3>. QED
        BY <2>1, <3>2
    <2>4. CASE Bad(rs) = {} /\ WellFormed(v)
      <3>1. Bad(Append(rs, v)) = {}
        BY <2>4, BadAppend
      <3>. QED
        BY <2>1, <3>1
    <2>. QED
      BY <2>2, <2>3, <2>4
  <1> HIDE DEF U
  <1>3. us \in U
    BY <1>1, <1>2, SeqInductive
  <1>. QED
    BY <1>3 DEF U

\* Concatenation as an operator of which only the next facts are used.
Cat(s, t) == s \o t

\* Where the brackets are does not matter.
LEMMA CatAssociative ==
  \A S : \A r, s, t \in Seq(S) : Cat(r, s) \in Seq(S) /\ Cat(Cat(r, s), t) = Cat(r, Cat(s, t))
  BY ConcatAssociative, ConcatProperties DEF Cat

\* ... nor with four parts.
LEMMA Regrouped ==
  ASSUME NEW S, NEW o, NEW p, NEW a, NEW q, NEW w,
         o \in Seq(S) /\ p \in Seq(S) /\ a \in Seq(S) /\ q \in Seq(S) /\ w \in Seq(S)
  PROVE  /\ Cat(o, Cat(p, Cat(a, q))) = Cat(Cat(o, p), Cat(a, q))
         /\ Cat(o, Cat(Cat(p, Cat(a, q)), w)) = Cat(Cat(o, p), Cat(a, Cat(q, w)))
  <1>1. \A r, s, t \in Seq(S) : Cat(r, s) \in Seq(S) /\ Cat(Cat(r, s), t) = Cat(r, Cat(s, t))
    BY CatAssociative
  <1>2. Cat(o, Cat(p, Cat(a, q))) = Cat(Cat(o, p), Cat(a, q))
    BY <1>1
  <1>3. Cat(Cat(p, Cat(a, q)), w) = Cat(p, Cat(a, Cat(q, w)))
    BY <1>1
  <1>4. Cat(o, Cat(p, Cat(a, Cat(q, w)))) = Cat(Cat(o, p), Cat(a, Cat(q, w)))
    BY <1>1
  <1>. QED
    BY ONLY <1>2, <1>3, <1>4

\* Well-formed units before an invalid one move its place by their bytes,
\* units behind it do not (InvalidUtf8Error).
LEMMA FirstConcat ==
  ASSUME NEW us \in Seq(Seq(Byte)), NEW vs \in Seq(Seq(Byte)), NEW ws \in Seq(Seq(Byte)),
         Bad(us) = {}, Bad(vs) # {}
  PROVE  /\ FirstOf(us \o (vs \o ws)) = Len(FlattenSeq(us)) + FirstOf(vs)
         /\ FirstOf(us \o vs) = Len(FlattenSeq(us)) + FirstOf(vs)
  <1> DEFINE Y == Seq(Byte)
  <1>1. PICK ps \in Seq(Y), u \in Y, qs \in Seq(Y) :
          vs = ps \o (<<u>> \o qs) /\ Bad(ps) = {} /\ ~ WellFormed(u)
    BY FirstSplit
  <1>2. <<u>> \in Seq(Y) /\ <<u>> \o qs \in Seq(Y) /\ us \o ps \in Seq(Y)
    BY <1>1, ConcatProperties
  <1>3. FirstOf(vs) = Len(FlattenSeq(ps))
    BY <1>1, FirstWhen
  <1>4. Bad(us \o ps) = {}
    BY <1>1, BadConcat
  <1>5. Len(FlattenSeq(us \o ps)) = Len(FlattenSeq(us)) + Len(FlattenSeq(ps))
    <2>1. FlattenSeq(us) \in Seq(Byte) /\ FlattenSeq(ps) \in Seq(Byte)
      BY FlattenType
    <2>2. FlattenSeq(us \o ps) = FlattenSeq(us) \o FlattenSeq(ps)
      BY FlattenConcat
    <2>. QED
      BY <2>1, <2>2, ConcatProperties
  <1>6. ASSUME NEW rs \in Seq(Y)
        PROVE  FirstOf((us \o ps) \o (<<u>> \o rs)) = Len(FlattenSeq(us)) + FirstOf(vs)
    <2>1. FirstOf((us \o ps) \o (<<u>> \o rs)) = Len(FlattenSeq(us \o ps))
      BY <1>1, <1>2, <1>4, <1>6, FirstWhen
    <2>. QED
      BY <1>3, <1>5, <2>1
  <1> DEFINE a == <<u>>
  <1>a. a \in Seq(Y) /\ vs = ps \o (a \o qs)
    BY <1>1, <1>2
  <1>c. us \in Seq(Y) /\ ps \in Seq(Y) /\ qs \in Seq(Y) /\ ws \in Seq(Y) /\ a \in Seq(Y)
    BY <1>1, <1>a
  <1> HIDE DEF a, Y
  <1>b. /\ us \o (ps \o (a \o qs)) = (us \o ps) \o (a \o qs)
        /\ us \o ((ps \o (a \o qs)) \o ws) = (us \o ps) \o (a \o (qs \o ws))
    <2>1. /\ Cat(us, Cat(ps, Cat(a, qs))) = Cat(Cat(us, ps), Cat(a, qs))
          /\ Cat(us, Cat(Cat(ps, Cat(a, qs)), ws)) = Cat(Cat(us, ps), Cat(a, Cat(qs, ws)))
      BY ONLY <1>c, Regrouped
    <2>. QED
      BY ONLY <2>1 DEF Cat
  <1>7. us \o vs = (us \o ps) \o (<<u>> \o qs)
    BY ONLY <1>a, <1>b DEF a
  <1>8. us \o (vs \o ws) = (us \o ps) \o (<<u>> \o (qs \o ws))
    BY ONLY <1>a, <1>b DEF a
  <1>9. qs \o ws \in Seq(Y)
    BY ConcatProperties DEF Y
  <1>. QED
    BY <1>1, <1>6, <1>7, <1>8, <1>9

-----------------------------------------------------------------------------
(* emit_valid_utf8. *)

\* The place of the first invalid unit is a number (InvalidUtf8Error).
LEMMA FirstType ==
  ASSUME NEW us \in Seq(Seq(Byte)), Bad(us) # {}
  PROVE  FirstOf(us) \in Nat
  <1>1. PICK ps \in Seq(Seq(Byte)), u \in Seq(Byte), qs \in Seq(Seq(Byte)) :
          us = ps \o (<<u>> \o qs) /\ Bad(ps) = {} /\ ~ WellFormed(u)
    BY FirstSplit
  <1>2. FirstOf(us) = Len(FlattenSeq(ps)) /\ FlattenSeq(ps) \in Seq(Byte)
    BY <1>1, FirstWhen, FlattenType
  <1>. QED
    BY <1>2, LenProperties

\* What the loop of emit_valid_utf8 returns when it stops.
Nothing(s) == [text |-> <<>>, invalid |-> <<>>, rest |-> s]

\* The equation of that loop.
IsScan(f, input, final) ==
  f = [s \in Seq(Byte) |->
        IF s = <<>> \/ Kept(s, final) THEN [text |-> <<>>, invalid |-> <<>>, rest |-> s]
        ELSE LET later == f[Drop(s, Taken(s))] IN
               IF Taken(s) = SequenceLength(s[1])
               THEN [later EXCEPT !.text = SubSeq(s, 1, Taken(s)) \o @]
               ELSE [later EXCEPT !.text = Replacement \o @,
                                  !.invalid = <<Len(input) - Len(s) + 1>> \o @]]

\* What it returns.
ScanResult == [text : Seq(Byte), invalid : Seq(Int), rest : Seq(Byte)]

\* What one pass of it adds to what the later ones return.
Passed(s, place, later) ==
  [text |-> UnitText(Unit(s)) \o later.text,
   invalid |-> IF WellFormed(Unit(s)) THEN later.invalid ELSE <<place>> \o later.invalid,
   rest |-> later.rest]

\* A result with another text (emit_valid_utf8).
LEMMA Excepted ==
  ASSUME NEW r \in ScanResult, NEW a
  PROVE  [r EXCEPT !.text = a] = [text |-> a, invalid |-> r.invalid, rest |-> r.rest]
  BY SMTT(60) DEF ScanResult

\* A result with another text and other invalid places (emit_valid_utf8).
LEMMA ExceptedTwice ==
  ASSUME NEW r \in ScanResult, NEW a, NEW b
  PROVE  [r EXCEPT !.text = a, !.invalid = b] = [text |-> a, invalid |-> b, rest |-> r.rest]
  <1> DEFINE q == [r EXCEPT !.text = a]
             A == Seq(Byte)
             B == Seq(Int)
  <1>0. r \in [text : A, invalid : B, rest : A]
    BY DEF ScanResult
  <1> HIDE DEF A, B
  <1>1. q = [text |-> a, invalid |-> r.invalid, rest |-> r.rest]
    BY <1>0
  <1>2. [r EXCEPT !.text = a, !.invalid = b] = [q EXCEPT !.invalid = b]
    OBVIOUS
  <1> HIDE DEF q
  <1>3. q \in [text : {a}, invalid : B, rest : A] /\ q.text = a /\ q.rest = r.rest
    BY <1>0, <1>1
  <1>4. [q EXCEPT !.invalid = b] = [text |-> q.text, invalid |-> b, rest |-> q.rest]
    BY <1>3
  <1>. QED
    BY <1>1, <1>2, <1>3, <1>4 DEF q

\* One pass of the loop of emit_valid_utf8, in terms of the first unit.
LEMMA PassedType ==
  ASSUME NEW s \in Seq(Byte), s # <<>>, NEW place \in Int, NEW later \in ScanResult
  PROVE  /\ Passed(s, place, later) \in ScanResult
         /\ (IF Taken(s) = SequenceLength(s[1])
             THEN [later EXCEPT !.text = SubSeq(s, 1, Taken(s)) \o @]
             ELSE [later EXCEPT !.text = Replacement \o @, !.invalid = <<place>> \o @])
              = Passed(s, place, later)
  <1> DEFINE u == Unit(s)
  <1>1. u \in Seq(Byte) /\ u = SubSeq(s, 1, Taken(s)) /\ (WellFormed(u) <=> Taken(s) = SequenceLength(s[1]))
    BY UnitKinds, UnitIs
  <1>2. /\ later.text \in Seq(Byte) /\ later.invalid \in Seq(Int) /\ later.rest \in Seq(Byte)
        /\ later = [text |-> later.text, invalid |-> later.invalid, rest |-> later.rest]
    BY DEF ScanResult
  <1>3. UnitText(u) \in Seq(Byte)
    BY <1>1, UnitTextType
  <1>4. <<place>> \in Seq(Int)
    OBVIOUS
  <1>5. UnitText(u) \o later.text \in Seq(Byte) /\ <<place>> \o later.invalid \in Seq(Int)
    BY <1>2, <1>3, <1>4, ConcatProperties
  <1> HIDE DEF u
  <1>6. Passed(s, place, later) \in ScanResult
    BY <1>2, <1>5 DEF Passed, ScanResult, u
  <1>7. CASE WellFormed(u)
    <2>1. UnitText(u) = SubSeq(s, 1, Taken(s))
      BY <1>1, <1>7 DEF UnitText
    <2>2. [later EXCEPT !.text = SubSeq(s, 1, Taken(s)) \o @]
            = [text |-> SubSeq(s, 1, Taken(s)) \o later.text, invalid |-> later.invalid, rest |-> later.rest]
      <3> DEFINE a == SubSeq(s, 1, Taken(s)) \o later.text
      <3> HIDE DEF a
      <3>1. [later EXCEPT !.text = a] = [text |-> a, invalid |-> later.invalid, rest |-> later.rest]
        BY Excepted, Zenon
      <3>. QED
        BY ONLY <3>1 DEF a
    <2>. QED
      BY <1>1, <1>6, <1>7, <2>1, <2>2 DEF Passed, u
  <1>8. CASE ~ WellFormed(u)
    <2>1. UnitText(u) = Replacement
      BY <1>8 DEF UnitText
    <2>2. [later EXCEPT !.text = Replacement \o @, !.invalid = <<place>> \o @]
            = [text |-> Replacement \o later.text, invalid |-> <<place>> \o later.invalid, rest |-> later.rest]
      <3> DEFINE a == Replacement \o later.text
                 b == <<place>> \o later.invalid
      <3> HIDE DEF a, b
      <3>1. [later EXCEPT !.text = a, !.invalid = b] = [text |-> a, invalid |-> b, rest |-> later.rest]
        BY ExceptedTwice, Zenon
      <3>. QED
        BY ONLY <3>1 DEF a, b
    <2>. QED
      BY <1>1, <1>6, <1>8, <2>1, <2>2 DEF Passed, u
  <1>. QED
    BY <1>7, <1>8

\* The loop of emit_valid_utf8 is a function, and satisfies its equation.
LEMMA ScanEquation ==
  ASSUME NEW input \in Seq(Byte), NEW final \in BOOLEAN
  PROVE  \E f \in [Seq(Byte) -> ScanResult] :
           /\ Scan(input, final) = f[input]
           /\ \A s \in Seq(Byte) :
                f[s] = IF s = <<>> \/ Kept(s, final) THEN Nothing(s)
                       ELSE Passed(s, Len(input) - Len(s) + 1, f[Drop(s, Taken(s))])
  <1> DEFINE V == ScanResult
             D == {s \in Seq(Byte) : s # <<>> /\ ~ Kept(s, final)}
             base == [s \in Seq(Byte) |-> Nothing(s)]
             d == [s \in D |-> Drop(s, Taken(s))]
             place(s) == Len(input) - Len(s) + 1
             c == [p \in Seq(Byte) \X V |-> IF p[1] \in D THEN Passed(p[1], place(p[1]), p[2]) ELSE Nothing(<<>>)]
             g == CHOOSE f : IsScan(f, input, final)
  <1>1. \A s \in D : /\ s \in Seq(Byte) /\ Drop(s, Taken(s)) \in Seq(Byte)
                     /\ Len(Drop(s, Taken(s))) < Len(s)
    BY UnitCut
  <1>2. \A s \in Seq(Byte) : place(s) \in Int /\ Nothing(s) \in V
    <2>1. <<>> \in Seq(Byte) /\ <<>> \in Seq(Int)
      BY EmptySeq
    <2>2. \A s \in Seq(Byte) : Nothing(s) \in V
      BY <2>1 DEF Nothing, ScanResult
    <2>3. \A s \in Seq(Byte) : Len(s) \in Nat
      BY LenProperties
    <2>. QED
      BY <2>2, <2>3
  <1>3. \A s \in D, v \in V : Passed(s, place(s), v) \in V /\ c[<<s, v>>] = Passed(s, place(s), v)
    <2> SUFFICES ASSUME NEW s \in D, NEW v \in V
                 PROVE  Passed(s, place(s), v) \in V /\ c[<<s, v>>] = Passed(s, place(s), v)
      OBVIOUS
    <2>1. s \in Seq(Byte) /\ s # <<>> /\ place(s) \in Int
      BY <1>2
    <2>2. Passed(s, place(s), v) \in V
      <3> HIDE DEF place, D
      <3>. QED
        BY <2>1, PassedType
    <2>. QED
      BY <2>1, <2>2
  <1>4. Descends(Byte, V, D, base, d, c)
    <2>1. base \in [Seq(Byte) -> V]
      BY <1>2
    <2>2. d \in [D -> Seq(Byte)] /\ \A s \in D : Len(d[s]) < Len(s)
      <3> HIDE DEF D
      <3>. QED
        BY <1>1
    <2>3. c \in [Seq(Byte) \X V -> V]
      <3> HIDE DEF V, D
      <3> SUFFICES ASSUME NEW s \in Seq(Byte), NEW v \in V
                   PROVE  (IF s \in D THEN Passed(s, place(s), v) ELSE Nothing(<<>>)) \in V
        BY Zenon
      <3>1. Nothing(<<>>) \in V
        BY <1>2, EmptySeq
      <3>. QED
        BY <1>3, <3>1
    <2>4. D \in SUBSET Seq(Byte)
      OBVIOUS
    <2> HIDE DEF V, D, base, d, c
    <2>. QED
      BY <2>1, <2>2, <2>3, <2>4 DEF Descends
  <1>5. \A s \in Seq(Byte) : base[s] = Nothing(s)
    OBVIOUS
  <1>6. \A s \in D : d[s] = Drop(s, Taken(s))
    OBVIOUS
  <1> HIDE DEF V, base, d, c, place, g
  <1>7. PICK f \in [Seq(Byte) -> V] :
          \A s \in Seq(Byte) : f[s] = IF s \in D THEN c[<<s, f[d[s]]>>] ELSE base[s]
    BY <1>4, RecursionExists
  <1>8. \A s \in Seq(Byte) : f[s] = IF s = <<>> \/ Kept(s, final) THEN Nothing(s)
                                    ELSE Passed(s, place(s), f[Drop(s, Taken(s))])
    <2> SUFFICES ASSUME NEW s \in Seq(Byte)
                 PROVE  f[s] = IF s = <<>> \/ Kept(s, final) THEN Nothing(s)
                               ELSE Passed(s, place(s), f[Drop(s, Taken(s))])
      OBVIOUS
    <2>1. CASE s \in D
      <3>1. f[Drop(s, Taken(s))] \in V
        BY <1>1, <1>7, <2>1
      <3>2. f[s] = Passed(s, place(s), f[Drop(s, Taken(s))])
        BY <1>3, <1>6, <1>7, <2>1, <3>1
      <3>. QED
        BY <2>1, <3>2
    <2>2. CASE s \notin D
      BY <1>5, <1>7, <2>2
    <2>. QED
      BY <2>1, <2>2
  <1>9. f = [s \in Seq(Byte) |-> f[s]]
    BY <1>7
  <1>10. IsScan(f, input, final)
    <2> DEFINE E(s, later) ==
                 IF Taken(s) = SequenceLength(s[1])
                 THEN [later EXCEPT !.text = SubSeq(s, 1, Taken(s)) \o @]
                 ELSE [later EXCEPT !.text = Replacement \o @,
                                    !.invalid = <<Len(input) - Len(s) + 1>> \o @]
               G(s) == IF s = <<>> \/ Kept(s, final) THEN [text |-> <<>>, invalid |-> <<>>, rest |-> s]
                       ELSE E(s, f[Drop(s, Taken(s))])
    <2>1. ASSUME NEW s \in D PROVE E(s, f[Drop(s, Taken(s))]) = Passed(s, place(s), f[Drop(s, Taken(s))])
      <3>1. f[Drop(s, Taken(s))] \in ScanResult
        BY <1>1, <1>7, <2>1 DEF V
      <3>2. s \in Seq(Byte) /\ s # <<>> /\ place(s) \in Int
        BY <1>2, <2>1
      <3>. QED
        BY <3>1, <3>2, PassedType DEF place
    <2> HIDE DEF E
    <2>2. ASSUME NEW s \in Seq(Byte) PROVE f[s] = G(s)
      <3>1. CASE s \in D
        BY <1>8, <2>1, <3>1
      <3>2. CASE s \notin D
        BY <1>8, <3>2 DEF Nothing
      <3>. QED
        BY <3>1, <3>2
    <2> HIDE DEF G
    <2>3. f = [s \in Seq(Byte) |-> G(s)]
      BY <1>9, <2>2
    <2>. QED
      BY ONLY <2>3 DEF G, E, IsScan
  <1>11. IsScan(g, input, final)
    BY <1>10 DEF g
  <1>12. Scan(input, final) = g[input]
    BY DEF g, Scan, IsScan
  <1> DEFINE U == {s \in Seq(Byte) : g[s] = f[s]}
  <1>13. ASSUME NEW s \in Seq(Byte), \A t \in Seq(Byte) : Len(t) < Len(s) => t \in U
         PROVE  s \in U
    <2> DEFINE E(later) ==
                 IF Taken(s) = SequenceLength(s[1])
                 THEN [later EXCEPT !.text = SubSeq(s, 1, Taken(s)) \o @]
                 ELSE [later EXCEPT !.text = Replacement \o @,
                                    !.invalid = <<Len(input) - Len(s) + 1>> \o @]
               G(h) == IF s = <<>> \/ Kept(s, final) THEN [text |-> <<>>, invalid |-> <<>>, rest |-> s]
                       ELSE E(h[Drop(s, Taken(s))])
    <2>1. f[s] = G(f)
      BY <1>10 DEF IsScan
    <2>2. g[s] = G(g)
      BY <1>11 DEF IsScan
    <2> HIDE DEF E
    <2>3. s \in D => g[Drop(s, Taken(s))] = f[Drop(s, Taken(s))]
      BY <1>1, <1>13
    <2>4. G(f) = G(g)
      BY <2>3
    <2> HIDE DEF G
    <2>. QED
      BY <2>1, <2>2, <2>4
  <1> HIDE DEF U
  <1>14. Seq(Byte) \subseteq U
    BY <1>13, LengthInductive
  <1>15. Scan(input, final) = f[input]
    BY <1>12, <1>14 DEF U
  <1>16. /\ f \in [Seq(Byte) -> ScanResult]
         /\ \A s \in Seq(Byte) :
              f[s] = IF s = <<>> \/ Kept(s, final) THEN Nothing(s)
                     ELSE Passed(s, Len(input) - Len(s) + 1, f[Drop(s, Taken(s))])
    BY <1>7, <1>8 DEF V, place
  <1>. QED
    BY <1>15, <1>16

\* The facts about concatenation.
LEMMA CatIs ==
  ASSUME NEW S, NEW s \in Seq(S), NEW t \in Seq(S)
  PROVE  /\ Cat(s, t) \in Seq(S) /\ Len(Cat(s, t)) = Len(s) + Len(t)
         /\ Cat(s, <<>>) = s /\ Cat(<<>>, s) = s
         /\ Len(s) \in Nat /\ Len(t) \in Nat
         /\ <<>> \in Seq(S) /\ Len(<<>>) = 0
         /\ Cat(s, t) = <<>> <=> s = <<>> /\ t = <<>>
  <1>1. s \o t \in Seq(S) /\ Len(s \o t) = Len(s) + Len(t)
    BY ConcatProperties
  <1>2. s \o <<>> = s /\ <<>> \o s = s
    BY ConcatEmptySeq
  <1>3. s \o t = <<>> <=> s = <<>> /\ t = <<>>
    BY ConcatEqualIffEmpty
  <1>4. Len(s) \in Nat /\ Len(t) \in Nat /\ <<>> \in Seq(S) /\ Len(<<>>) = 0
    BY EmptySeq, LenProperties
  <1>. QED
    BY <1>1, <1>2, <1>3, <1>4 DEF Cat

\* v is read in its units, however the text goes on behind rest: at the end
\* of the file (final) it does not.
Settled(v, rest, final) ==
  \A y \in Seq(Byte) : (final => y = <<>>) =>
    Units[Cat(v, Cat(rest, y))] = Cat(Units[v], Units[Cat(rest, y)])

\* What emit_valid_utf8 makes of s, at a place of the input: v is done, the
\* rest is kept, and both are as good as cut there.
Scanned(s, r, place, final, v) ==
  /\ v \in Seq(Byte) /\ r.rest \in Seq(Byte) /\ s = Cat(v, r.rest)
  /\ r.text = DecodedText(v)
  /\ r.invalid \in Seq(Int) /\ Len(r.invalid) = Cardinality(BadUnits(v))
  /\ r.invalid # <<>> => r.invalid[1] = place + FirstBad(v)
  /\ r.rest = <<>> \/ Kept(r.rest, final)
  /\ v = <<>> => s = <<>> \/ Kept(s, final)
  /\ v # <<>> => Taken(s) <= Len(v)
  /\ Settled(v, r.rest, final)

\* A text that is not scanned further (emit_valid_utf8).
LEMMA ScannedNothing ==
  ASSUME NEW s \in Seq(Byte), NEW final \in BOOLEAN, NEW place, s = <<>> \/ Kept(s, final)
  PROVE  Scanned(s, Nothing(s), place, final, <<>>)
  <1> DEFINE r == Nothing(s)
  <1>1. r.text = <<>> /\ r.invalid = <<>> /\ r.rest = s
    BY DEF Nothing
  <1> HIDE DEF r
  <1>2. <<>> \in Seq(Byte) /\ <<>> \in Seq(Int) /\ Len(<<>>) = 0 /\ s = Cat(<<>>, s)
    BY CatIs, EmptySeq
  <1>3. Units[<<>>] = <<>>
    BY UnitsEquation
  <1>4. DecodedText(<<>>) = <<>> /\ Cardinality(BadUnits(<<>>)) = 0
    BY <1>2, <1>3, OfUnits, TextOne, BadOne
  <1>5. Settled(<<>>, s, final)
    <2> SUFFICES ASSUME NEW y \in Seq(Byte)
                 PROVE  Units[Cat(<<>>, Cat(s, y))] = Cat(Units[<<>>], Units[Cat(s, y)])
      BY DEF Settled
    <2>1. Cat(s, y) \in Seq(Byte)
      BY CatIs
    <2>2. Units[Cat(s, y)] \in Seq(Seq(Byte))
      BY <2>1, UnitsEquation
    <2>3. Cat(<<>>, Cat(s, y)) = Cat(s, y)
      BY <2>1, CatIs
    <2>4. Cat(<<>>, Units[Cat(s, y)]) = Units[Cat(s, y)]
      BY <2>2, CatIs
    <2>. QED
      BY <1>3, <2>3, <2>4
  <1>. QED
    BY <1>1, <1>2, <1>4, <1>5 DEF Scanned, r

\* A pass of the loop of emit_valid_utf8 before what is scanned behind it.
LEMMA ScannedPass ==
  ASSUME NEW s \in Seq(Byte), NEW final \in BOOLEAN, NEW place \in Int, s # <<>>, ~ Kept(s, final),
         NEW later \in ScanResult, NEW w,
         Scanned(Drop(s, Taken(s)), later, place + Taken(s), final, w)
  PROVE  Scanned(s, Passed(s, place, later), place, final, Cat(Unit(s), w))
  <1> DEFINE u == Unit(s)
             x == Drop(s, Taken(s))
             v == Cat(u, w)
             r == Passed(s, place, later)
             rest == later.rest
  <1>1. u \in Seq(Byte) /\ u # <<>> /\ Len(u) = Taken(s) /\ Len(u) \in Nat
    BY UnitKinds, LenProperties
  <1>2. x \in Seq(Byte) /\ s = Cat(u, x)
    BY UnitCut DEF Cat
  <1>3. w \in Seq(Byte) /\ rest \in Seq(Byte) /\ x = Cat(w, rest)
    BY DEF Scanned
  <1>h. \A y \in Seq(Byte) : (final => y = <<>>) =>
          Units[Cat(w, Cat(rest, y))] = Cat(Units[w], Units[Cat(rest, y)])
    BY DEF Scanned, Settled
  <1>10. /\ r.text = Cat(UnitText(u), later.text) /\ r.rest = rest
         /\ r.invalid = IF WellFormed(u) THEN later.invalid ELSE <<place>> \o later.invalid
    BY DEF Passed, Cat
  <1>k. rest = <<>> \/ Kept(rest, final)
    BY DEF Scanned
  <1> HIDE DEF u, x, rest, r
  <1>4. v \in Seq(Byte) /\ v # <<>> /\ Len(v) = Len(u) + Len(w) /\ Len(w) \in Nat
    BY <1>1, <1>3, CatIs, ZenonT(60)
  <1>a. \A o, p, q \in Seq(Byte) : Cat(Cat(o, p), q) = Cat(o, Cat(p, q))
    BY CatAssociative
  <1>5. s = Cat(v, rest)
    BY <1>1, <1>2, <1>3, <1>a
  <1>6. Units[w] \in Seq(Seq(Byte)) /\ <<u>> \in Seq(Seq(Byte))
    BY <1>1, <1>3, UnitsEquation
  <1>7. Units[v] = Cat(<<u>>, Units[w])
    <2>1. Taken(v \o rest) <= Len(v)
      <3>1. v \o rest = s
        BY <1>5 DEF Cat
      <3>. QED
        BY ONLY <1>1, <1>4, <3>1
    <2>2. Taken(v) = Taken(v \o rest)
      <3> HIDE DEF v, rest
      <3>. QED
        BY <1>3, <1>4, <2>1, TakenLocal
    <2>3. Taken(u \o w) = Len(u)
      BY <1>1, <1>5, <2>2 DEF Cat
    <2>. QED
      BY <1>1, <1>3, <2>3, UnitsCons DEF Cat
  <1>8. ASSUME NEW y \in Seq(Byte), final => y = <<>>
        PROVE  Units[Cat(s, y)] = Cat(Units[v], Units[Cat(rest, y)])
    <2>1. Cat(s, y) = Cat(u, Cat(x, y)) /\ Cat(x, y) = Cat(w, Cat(rest, y))
      BY <1>1, <1>2, <1>3, <1>8, <1>a
    <2>2. Taken(Cat(s, y)) = Taken(s)
      <3>1. CASE final
        BY <1>8, <3>1, CatIs
      <3>2. CASE ~ final
        BY <3>2, TakenStable DEF Cat
      <3>. QED
        BY <3>1, <3>2
    <2>3. Cat(x, y) \in Seq(Byte) /\ Cat(rest, y) \in Seq(Byte)
      BY <1>2, <1>3, CatIs
    <2>4. Units[Cat(u, Cat(x, y))] = Cat(<<u>>, Units[Cat(x, y)])
      <3> DEFINE z == Cat(x, y)
      <3>1. z \in Seq(Byte) /\ Taken(u \o z) = Len(u)
        BY <1>1, <2>1, <2>2, <2>3 DEF Cat
      <3> HIDE DEF z, u
      <3>2. Units[u \o z] = <<u>> \o Units[z]
        BY <1>1, <3>1, UnitsCons
      <3>. QED
        BY <3>2 DEF Cat, z
    <2>5. Units[Cat(w, Cat(rest, y))] = Cat(Units[w], Units[Cat(rest, y)])
      BY <1>8, <1>h
    <2>6. Units[Cat(rest, y)] \in Seq(Seq(Byte))
      BY <2>3, UnitsEquation
    <2>7. Cat(Cat(<<u>>, Units[w]), Units[Cat(rest, y)]) = Cat(<<u>>, Cat(Units[w], Units[Cat(rest, y)]))
      <3> DEFINE a == <<u>>
                 b == Units[w]
                 e == Units[Cat(rest, y)]
      <3>1. a \in Seq(Seq(Byte)) /\ b \in Seq(Seq(Byte)) /\ e \in Seq(Seq(Byte))
        BY <1>6, <2>6
      <3> HIDE DEF a, b, e
      <3>2. Cat(Cat(a, b), e) = Cat(a, Cat(b, e))
        BY <3>1, CatAssociative
      <3>. QED
        BY <3>2 DEF a, b, e
    <2>. QED
      BY <1>7, <2>1, <2>4, <2>5, <2>7
  <1>9. Settled(v, rest, final)
    <2> SUFFICES ASSUME NEW y \in Seq(Byte), final => y = <<>>
                 PROVE  Units[Cat(v, Cat(rest, y))] = Cat(Units[v], Units[Cat(rest, y)])
      BY DEF Settled
    <2>1. Cat(v, Cat(rest, y)) = Cat(s, y)
      BY <1>3, <1>4, <1>5, <1>a
    <2>. QED
      BY <1>8, <2>1
  <1>11. r.text = DecodedText(v)
    <2>1. later.text = TextOf(Units[w])
      BY OfUnits DEF Scanned
    <2>2. TextOf(<<u>>) = UnitText(u)
      BY <1>1, TextOne
    <2>3. TextOf(Cat(<<u>>, Units[w])) = Cat(TextOf(<<u>>), TextOf(Units[w]))
      BY <1>6, TextConcat DEF Cat
    <2>4. DecodedText(v) = TextOf(Units[v])
      BY OfUnits
    <2>. QED
      BY <1>7, <1>10, <2>1, <2>2, <2>3, <2>4
  <1>12. /\ BadUnits(v) = Bad(<<u>> \o Units[w]) /\ BadUnits(w) = Bad(Units[w])
         /\ FirstBad(v) = FirstOf(<<u>> \o Units[w]) /\ FirstBad(w) = FirstOf(Units[w])
    BY <1>7, OfUnits DEF Cat
  <1>13. /\ later.invalid \in Seq(Int) /\ Len(later.invalid) = Cardinality(Bad(Units[w]))
         /\ later.invalid # <<>> => later.invalid[1] = (place + Taken(s)) + FirstOf(Units[w])
    BY <1>12 DEF Scanned
  <1>14. Cardinality(Bad(<<u>> \o Units[w])) = Cardinality(Bad(<<u>>)) + Cardinality(Bad(Units[w]))
    BY <1>6, BadConcat
  <1>15. Len(later.invalid) \in Nat
    BY <1>13, LenProperties
  <1>16. CASE WellFormed(u)
    <2>1. Bad(<<u>>) = {} /\ Cardinality(Bad(<<u>>)) = 0
      BY <1>1, <1>16, BadOne
    <2>2. Len(later.invalid) = Cardinality(Bad(<<u>> \o Units[w]))
      BY <1>13, <1>14, <1>15, <2>1
    <2>3. ASSUME later.invalid # <<>> PROVE later.invalid[1] = place + FirstBad(v)
      <3>1. Len(later.invalid) # 0
        BY <1>13, <2>3, EmptySeq
      <3>2. Bad(Units[w]) # {}
        BY <1>6, <1>13, <3>1, BadType
      <3>3. FirstOf(<<u>> \o Units[w]) = Len(FlattenSeq(<<u>>)) + FirstOf(Units[w])
        BY <1>6, <2>1, <3>2, FirstConcat
      <3>4. FlattenSeq(<<u>>) = u
        BY <1>1, FlattenOne
      <3>5. FirstOf(Units[w]) \in Nat
        BY <1>6, <3>2, FirstType
      <3>6. (place + Taken(s)) + FirstOf(Units[w]) = place + (Len(u) + FirstOf(Units[w]))
        BY <1>1, <3>5
      <3>. QED
        BY <1>12, <1>13, <2>3, <3>3, <3>4, <3>6
    <2>4. r.invalid = later.invalid
      BY <1>10, <1>16
    <2> HIDE DEF u, x, v, r, rest
    <2>5. Scanned(s, r, place, final, v)
      <3>1. Taken(s) <= Len(v)
        BY <1>1, <1>4
      <3>2. r.rest \in Seq(Byte) /\ s = Cat(v, r.rest) /\ Settled(v, r.rest, final)
        BY <1>3, <1>5, <1>9, <1>10
      <3>3. r.rest = <<>> \/ Kept(r.rest, final)
        BY <1>10, <1>k
      <3>4. /\ r.invalid \in Seq(Int) /\ Len(r.invalid) = Cardinality(BadUnits(v))
            /\ r.invalid # <<>> => r.invalid[1] = place + FirstBad(v)
        BY <1>12, <1>13, <2>2, <2>3, <2>4
      <3>. QED
        BY ONLY <1>4, <1>11, <3>1, <3>2, <3>3, <3>4 DEF Scanned
    <2>. QED
      BY <2>5 DEF r, v, u
  <1>17. CASE ~ WellFormed(u)
    <2>1. Cardinality(Bad(<<u>>)) = 1
      BY <1>1, <1>17, BadOne
    <2>2. r.invalid = <<place>> \o later.invalid /\ <<place>> \in Seq(Int) /\ Len(<<place>>) = 1
      BY <1>10, <1>17
    <2>3. r.invalid \in Seq(Int) /\ Len(r.invalid) = 1 + Len(later.invalid) /\ r.invalid[1] = place
      BY <1>13, <1>15, <2>2, ConcatProperties
    <2>4. Len(r.invalid) = Cardinality(Bad(<<u>> \o Units[w]))
      BY <1>13, <1>14, <2>1, <2>3
    <2>5. FirstOf(<<u>> \o Units[w]) = 0
      <3>1. <<>> \in Seq(Seq(Byte)) /\ Bad(<<>>) = {} /\ FlattenSeq(<<>>) = <<>> /\ Len(<<>>) = 0
        BY <1>1, EmptySeq, BadOne, FlattenRec
      <3>2. FirstOf(<<>> \o (<<u>> \o Units[w])) = Len(FlattenSeq(<<>>))
        BY <1>1, <1>6, <1>17, <3>1, FirstWhen
      <3>3. <<u>> \o Units[w] \in Seq(Seq(Byte))
        BY <1>6, ConcatProperties
      <3>4. <<>> \o (<<u>> \o Units[w]) = <<u>> \o Units[w]
        BY <3>3, ConcatEmptySeq
      <3>. QED
        BY <3>1, <3>2, <3>4
    <2> HIDE DEF u, x, v, r, rest
    <2>6. Scanned(s, r, place, final, v)
      <3>1. Taken(s) <= Len(v)
        BY <1>1, <1>4
      <3>2. r.rest \in Seq(Byte) /\ s = Cat(v, r.rest) /\ Settled(v, r.rest, final)
        BY <1>3, <1>5, <1>9, <1>10
      <3>3. r.rest = <<>> \/ Kept(r.rest, final)
        BY <1>10, <1>k
      <3>4. /\ r.invalid \in Seq(Int) /\ Len(r.invalid) = Cardinality(BadUnits(v))
            /\ r.invalid # <<>> => r.invalid[1] = place + FirstBad(v)
        BY <1>12, <2>3, <2>4, <2>5
      <3>. QED
        BY ONLY <1>4, <1>11, <3>1, <3>2, <3>3, <3>4 DEF Scanned
    <2>. QED
      BY <2>6 DEF r, v, u
  <1>. QED
    BY <1>16, <1>17

\* What emit_valid_utf8 makes of its input, whatever the input is.
LEMMA ScanIs ==
  ASSUME NEW input \in Seq(Byte), NEW final \in BOOLEAN
  PROVE  /\ Scan(input, final) \in ScanResult
         /\ \E v \in Seq(Byte) : Scanned(input, Scan(input, final), 1, final, v)
  <1>1. PICK f \in [Seq(Byte) -> ScanResult] :
           /\ Scan(input, final) = f[input]
           /\ \A s \in Seq(Byte) :
                f[s] = IF s = <<>> \/ Kept(s, final) THEN Nothing(s)
                       ELSE Passed(s, Len(input) - Len(s) + 1, f[Drop(s, Taken(s))])
    BY ScanEquation
  <1> DEFINE place(s) == Len(input) - Len(s) + 1
             U == {s \in Seq(Byte) : \E v \in Seq(Byte) : Scanned(s, f[s], place(s), final, v)}
  <1>2. ASSUME NEW s \in Seq(Byte), \A t \in Seq(Byte) : Len(t) < Len(s) => t \in U
        PROVE  s \in U
    <2>1. CASE s = <<>> \/ Kept(s, final)
      <3>1. f[s] = Nothing(s) /\ <<>> \in Seq(Byte)
        BY <1>1, <2>1, EmptySeq
      <3>2. Scanned(s, Nothing(s), place(s), final, <<>>)
        <4> HIDE DEF place
        <4>. QED
          BY <2>1, ScannedNothing
      <3>. QED
        BY <3>1, <3>2
    <2>2. CASE ~ (s = <<>> \/ Kept(s, final))
      <3> DEFINE x == Drop(s, Taken(s))
      <3>1. x \in Seq(Byte) /\ Len(x) < Len(s) /\ s = Unit(s) \o x /\ Unit(s) \in Seq(Byte)
            /\ Len(Unit(s)) = Taken(s)
        BY <2>2, UnitCut, UnitKinds
      <3>2. PICK w \in Seq(Byte) : Scanned(x, f[x], place(x), final, w)
        BY <1>2, <3>1
      <3>3. Len(s) = Taken(s) + Len(x) /\ Len(x) \in Nat /\ Taken(s) \in Nat /\ Len(input) \in Nat
        BY <3>1, ConcatProperties, LenProperties
      <3>4. place(x) = place(s) + Taken(s) /\ place(s) \in Int
        BY <3>3
      <3>5. f[x] \in ScanResult /\ f[s] = Passed(s, place(s), f[x])
        BY <1>1, <2>2, <3>1
      <3> HIDE DEF place
      <3>6. Scanned(s, Passed(s, place(s), f[x]), place(s), final, Cat(Unit(s), w))
        BY <2>2, <3>2, <3>4, <3>5, ScannedPass
      <3>7. Cat(Unit(s), w) \in Seq(Byte)
        BY <3>1, CatIs
      <3>. QED
        BY <3>5, <3>6, <3>7
    <2>. QED
      BY <2>1, <2>2
  <1> HIDE DEF U
  <1>3. input \in U
    BY <1>2, LengthInductive
  <1>4. place(input) = 1
    BY LenProperties
  <1> HIDE DEF place
  <1>. QED
    BY <1>1, <1>3, <1>4 DEF U

-----------------------------------------------------------------------------
(* TokenizerSession. *)

\* The states of TokenizerSession.
Tokenizer == [token : Seq(Byte), tokens : Seq(Seq(Byte)), long : BOOLEAN]

\* emit_pending leaves no token behind, and is idempotent.
LEMMA EmitIs ==
  ASSUME NEW s \in Tokenizer
  PROVE  /\ Emit(s) \in Tokenizer /\ Emit(s).token = <<>> /\ Emit(s).long = s.long
         /\ Emit(Emit(s)) = Emit(s)
         /\ Emit(s).tokens = IF s.token = <<>> THEN s.tokens ELSE Append(s.tokens, s.token)
  <1> DEFINE A == Seq(Byte)
             B == Seq(A)
             e == Emit(s)
  <1>0. s \in [token : A, tokens : B, long : BOOLEAN]
    BY DEF Tokenizer
  <1>1. <<>> \in A
    BY EmptySeq
  <1>2. s.token \in A /\ s.tokens \in B
    BY <1>0
  <1>3. Append(s.tokens, s.token) \in B
    BY <1>2, AppendProperties
  <1> HIDE DEF A, B
  <1>4. CASE s.token = <<>>
    <2>1. e = s
      BY <1>4 DEF Emit
    <2>. QED
      BY <1>0, <1>4, <2>1 DEF Tokenizer, A, B
  <1>5. CASE s.token # <<>>
    <2>1. e = [[s EXCEPT !.token = <<>>] EXCEPT !.tokens = Append(s.tokens, s.token)]
      BY <1>5 DEF Emit
    <2> DEFINE q == [s EXCEPT !.token = <<>>]
    <2>2. q \in [token : A, tokens : B, long : BOOLEAN] /\ q.token = <<>> /\ q.long = s.long
      BY <1>0, <1>1
    <2> HIDE DEF q
    <2>3. [q EXCEPT !.tokens = Append(s.tokens, s.token)] \in [token : A, tokens : B, long : BOOLEAN]
      BY <1>3, <2>2
    <2>4. /\ [q EXCEPT !.tokens = Append(s.tokens, s.token)].token = <<>>
          /\ [q EXCEPT !.tokens = Append(s.tokens, s.token)].long = s.long
          /\ [q EXCEPT !.tokens = Append(s.tokens, s.token)].tokens = Append(s.tokens, s.token)
      BY <2>2
    <2>5. e = [q EXCEPT !.tokens = Append(s.tokens, s.token)]
      BY <2>1 DEF q
    <2>6. e.token = <<>>
      BY <2>4, <2>5
    <2>7. Emit(e) = e
      BY <2>6 DEF Emit
    <2>8. e \in Tokenizer
      BY <2>3, <2>5 DEF Tokenizer, A, B
    <2>. QED
      BY <1>5, <2>4, <2>5, <2>7, <2>8
  <1>. QED
    BY <1>4, <1>5

\* The four outcomes of TokenizerSession::push on one character.
LEMMA PushOneIs ==
  ASSUME NEW s \in Tokenizer, NEW b \in Byte
  PROVE  /\ PushOne(s, b) \in Tokenizer
         /\ s.long => PushOne(s, b) = s
         /\ ~ s.long /\ ~ IsTokenCharacter(b) => PushOne(s, b) = Emit(s)
         /\ ~ s.long /\ IsTokenCharacter(b) /\ Len(s.token) = MaxToken =>
              /\ PushOne(s, b).long
         /\ ~ s.long /\ IsTokenCharacter(b) /\ Len(s.token) # MaxToken =>
              /\ PushOne(s, b).token = Append(s.token, Normalize(b))
              /\ PushOne(s, b).tokens = s.tokens /\ ~ PushOne(s, b).long
  <1> DEFINE A == Seq(Byte)
             B == Seq(A)
             p == PushOne(s, b)
  <1>0. s \in [token : A, tokens : B, long : BOOLEAN]
    BY DEF Tokenizer
  <1>1. s.token \in A /\ Normalize(b) \in Byte
    BY <1>0 DEF Normalize, Byte
  <1>2. Append(s.token, Normalize(b)) \in A
    BY <1>1, AppendProperties
  <1> HIDE DEF A, B
  <1>3. CASE s.long
    <2>1. p = s
      BY <1>3 DEF PushOne
    <2>. QED
      BY <1>3, <2>1
  <1>4. CASE ~ s.long /\ ~ IsTokenCharacter(b)
    <2>1. p = Emit(s)
      BY <1>4 DEF PushOne
    <2>. QED
      BY <1>4, <2>1, EmitIs
  <1>5. CASE ~ s.long /\ IsTokenCharacter(b) /\ Len(s.token) = MaxToken
    <2>1. p = [s EXCEPT !.long = TRUE]
      BY <1>5 DEF PushOne, TooLong
    <2>2. p \in [token : A, tokens : B, long : BOOLEAN] /\ p.long
      BY <1>0, <2>1
    <2>. QED
      BY <1>5, <2>2 DEF Tokenizer, A, B
  <1>6. CASE ~ s.long /\ IsTokenCharacter(b) /\ Len(s.token) # MaxToken
    <2>1. p = [s EXCEPT !.token = Append(s.token, Normalize(b))]
      BY <1>6 DEF PushOne, TooLong
    <2>2. /\ p \in [token : A, tokens : B, long : BOOLEAN]
          /\ p.token = Append(s.token, Normalize(b)) /\ p.tokens = s.tokens /\ p.long = s.long
      BY <1>0, <1>2, <2>1
    <2>. QED
      BY <1>6, <2>2 DEF Tokenizer, A, B
  <1>. QED
    BY <1>3, <1>4, <1>5, <1>6

\* The equation of push.
IsPushed(f, s) ==
  f = [t \in Seq(Byte) |-> IF t = <<>> THEN s ELSE PushOne(f[Front(t)], Last(t))]

\* TokenizerSession::push goes one character at a time, in the order of the
\* text.
LEMMA PushedIs ==
  ASSUME NEW s \in Tokenizer
  PROVE  /\ Pushed(s, <<>>) = s
         /\ \A t \in Seq(Byte) : Pushed(s, t) \in Tokenizer
         /\ \A t \in Seq(Byte), b \in Byte : Pushed(s, Append(t, b)) = PushOne(Pushed(s, t), b)
  <1> DEFINE V == Tokenizer
             D == Seq(Byte) \ {<<>>}
             base == [t \in Seq(Byte) |-> s]
             d == [t \in D |-> Front(t)]
             c == [p \in Seq(Byte) \X V |-> IF p[1] \in D THEN PushOne(p[2], Last(p[1])) ELSE s]
             g == CHOOSE f : IsPushed(f, s)
  <1>1. \A t \in D : /\ Front(t) \in Seq(Byte) /\ Last(t) \in Byte /\ Len(Front(t)) < Len(t)
    BY FrontIs
  <1>2. \A t \in D, v \in V : PushOne(v, Last(t)) \in V /\ c[<<t, v>>] = PushOne(v, Last(t))
    BY <1>1, PushOneIs
  <1>3. Descends(Byte, V, D, base, d, c)
    <2>1. base \in [Seq(Byte) -> V]
      OBVIOUS
    <2>2. d \in [D -> Seq(Byte)] /\ \A t \in D : Len(d[t]) < Len(t)
      <3> HIDE DEF D
      <3>. QED
        BY <1>1
    <2>3. c \in [Seq(Byte) \X V -> V]
      <3> HIDE DEF V, D
      <3> SUFFICES ASSUME NEW t \in Seq(Byte), NEW v \in V
                   PROVE  (IF t \in D THEN PushOne(v, Last(t)) ELSE s) \in V
        BY Zenon
      <3>. QED
        BY <1>2 DEF V
    <2>4. D \in SUBSET Seq(Byte)
      OBVIOUS
    <2> HIDE DEF V, D, base, d, c
    <2>. QED
      BY <2>1, <2>2, <2>3, <2>4 DEF Descends
  <1>4. (\A t \in Seq(Byte) : base[t] = s) /\ (\A t \in D : d[t] = Front(t))
    OBVIOUS
  <1> HIDE DEF V, base, d, c
  <1>5. PICK f \in [Seq(Byte) -> V] :
          \A t \in Seq(Byte) : f[t] = IF t \in D THEN c[<<t, f[d[t]]>>] ELSE base[t]
    BY <1>3, RecursionExists
  <1>6. \A t \in Seq(Byte) : f[t] = IF t = <<>> THEN s ELSE PushOne(f[Front(t)], Last(t))
    <2> SUFFICES ASSUME NEW t \in Seq(Byte)
                 PROVE  f[t] = IF t = <<>> THEN s ELSE PushOne(f[Front(t)], Last(t))
      OBVIOUS
    <2>1. CASE t \in D
      <3>1. f[Front(t)] \in V
        BY <1>1, <1>5, <2>1
      <3>. QED
        BY <1>2, <1>4, <1>5, <2>1, <3>1
    <2>2. CASE t \notin D
      BY <1>4, <1>5, <2>2
    <2>. QED
      BY <2>1, <2>2
  <1>7. IsPushed(f, s)
    <2>1. f = [t \in Seq(Byte) |-> f[t]]
      BY <1>5
    <2>. QED
      BY <1>6, <2>1 DEF IsPushed
  <1>8. IsPushed(g, s)
    BY <1>7
  <1>9. \A t : Pushed(s, t) = g[t]
    BY DEF Pushed, IsPushed
  <1> HIDE DEF g
  <1>10. \A t \in Seq(Byte) : g[t] = IF t = <<>> THEN s ELSE PushOne(g[Front(t)], Last(t))
    BY <1>8 DEF IsPushed
  <1> DEFINE U == {t \in Seq(Byte) : g[t] \in V}
  <1>11. ASSUME NEW t \in Seq(Byte), \A r \in Seq(Byte) : Len(r) < Len(t) => r \in U
         PROVE  t \in U
    <2>1. CASE t = <<>>
      BY <1>10, <2>1 DEF V
    <2>2. CASE t # <<>>
      <3>1. g[Front(t)] \in V
        BY <1>1, <1>11, <2>2
      <3>2. g[t] \in V
        BY <1>2, <1>10, <2>2, <3>1
      <3>. QED
        BY <3>2
    <2>. QED
      BY <2>1, <2>2
  <1> HIDE DEF U
  <1>12. Seq(Byte) \subseteq U
    BY <1>11, LengthInductive
  <1>13. \A t \in Seq(Byte) : Pushed(s, t) \in Tokenizer
    BY <1>9, <1>12 DEF U, V
  <1>14. <<>> \in Seq(Byte) /\ \A t \in Seq(Byte), b \in Byte :
           /\ Append(t, b) \in Seq(Byte) /\ Append(t, b) # <<>>
           /\ Front(Append(t, b)) = t /\ Last(Append(t, b)) = b
    BY EmptySeq, AppendProperties, FrontAppend
  <1>15. Pushed(s, <<>>) = s
    BY <1>9, <1>10, <1>14
  <1>16. ASSUME NEW t \in Seq(Byte), NEW b \in Byte
         PROVE  Pushed(s, Append(t, b)) = PushOne(Pushed(s, t), b)
    <2> DEFINE r == Append(t, b)
    <2>1. r \in Seq(Byte) /\ r # <<>> /\ Front(r) = t /\ Last(r) = b
      BY <1>14
    <2> HIDE DEF r
    <2>2. g[r] = PushOne(g[t], b)
      BY <1>10, <2>1
    <2>. QED
      BY <1>9, <2>2 DEF r
  <1>. QED
    BY <1>13, <1>15, <1>16

\* A text may be pushed in parts, cut anywhere (TokenizerSession::push).
LEMMA PushedConcat ==
  ASSUME NEW s \in Tokenizer, NEW t \in Seq(Byte), NEW u \in Seq(Byte)
  PROVE  Pushed(s, Cat(t, u)) = Pushed(Pushed(s, t), u)
  <1> DEFINE U == {r \in Seq(Byte) : Pushed(s, Cat(t, r)) = Pushed(Pushed(s, t), r)}
  <1>1. Pushed(s, t) \in Tokenizer
    BY PushedIs
  <1>2. <<>> \in U
    BY <1>1, PushedIs, CatIs
  <1>3. ASSUME NEW r \in Seq(Byte), NEW b \in Byte, r \in U PROVE Append(r, b) \in U
    <2>1. Cat(t, r) \in Seq(Byte) /\ Append(r, b) \in Seq(Byte)
      BY CatIs, AppendProperties
    <2>2. Cat(t, Append(r, b)) = Append(Cat(t, r), b)
      <3>1. Append(r, b) = Cat(r, <<b>>) /\ Append(Cat(t, r), b) = Cat(Cat(t, r), <<b>>)
        BY <2>1, AppendIsConcat DEF Cat
      <3>2. <<b>> \in Seq(Byte)
        OBVIOUS
      <3>3. \A o, p, q \in Seq(Byte) : Cat(Cat(o, p), q) = Cat(o, Cat(p, q))
        BY CatAssociative
      <3>4. Cat(Cat(t, r), <<b>>) = Cat(t, Cat(r, <<b>>))
        BY <3>2, <3>3
      <3>. QED
        BY ONLY <3>1, <3>4
    <2>3. Pushed(s, Append(Cat(t, r), b)) = PushOne(Pushed(s, Cat(t, r)), b)
      BY <2>1, PushedIs
    <2>4. Pushed(Pushed(s, t), Append(r, b)) = PushOne(Pushed(Pushed(s, t), r), b)
      BY <1>1, PushedIs
    <2>. QED
      BY <1>3, <2>1, <2>2, <2>3, <2>4
  <1> HIDE DEF U
  <1>4. u \in U
    BY <1>2, <1>3, SeqInductive
  <1>. QED
    BY <1>4 DEF U

\* Bytes that are no token characters end the token and do nothing else,
\* however many they are (TokenizerSession::push).
LEMMA PushedOther ==
  ASSUME NEW s \in Tokenizer, NEW u \in Seq(Byte), u # <<>>,
         \A k \in 1 .. Len(u) : ~ IsTokenCharacter(u[k])
  PROVE  Pushed(s, u) = IF s.long THEN s ELSE Emit(s)
  <1> DEFINE E == IF s.long THEN s ELSE Emit(s)
             Q(r) == r # <<>> /\ (\A k \in 1 .. Len(r) : ~ IsTokenCharacter(r[k])) => Pushed(s, r) = E
             U == {r \in Seq(Byte) : Q(r)}
  <1>1. <<>> \in U
    BY EmptySeq
  <1>2. E \in Tokenizer /\ (~ E.long => Emit(E) = E)
    BY EmitIs
  <1>3. ASSUME NEW r \in Seq(Byte), NEW b \in Byte, r \in U PROVE Append(r, b) \in U
    <2> DEFINE t == Append(r, b)
               n == Len(r)
    <2>1. /\ t \in Seq(Byte) /\ Len(t) = n + 1 /\ n \in Nat
          /\ (\A k \in 1 .. n : t[k] = r[k]) /\ t[n + 1] = b
      BY AppendProperties, LenProperties
    <2>2. Pushed(s, t) = PushOne(Pushed(s, r), b)
      BY PushedIs
    <2> HIDE DEF t, n, E
    <2>3. ASSUME \A k \in 1 .. Len(t) : ~ IsTokenCharacter(t[k]) PROVE Pushed(s, t) = E
      <3>1. ~ IsTokenCharacter(b)
        <4>1. n + 1 \in 1 .. Len(t)
          BY <2>1
        <4>. QED
          BY <2>1, <2>3, <4>1
      <3>2. \A k \in 1 .. n : ~ IsTokenCharacter(r[k])
        <4> SUFFICES ASSUME NEW k \in 1 .. n PROVE ~ IsTokenCharacter(r[k])
          OBVIOUS
        <4>1. k \in 1 .. Len(t)
          BY <2>1
        <4>. QED
          BY <2>1, <2>3, <4>1
      <3>3. CASE r = <<>>
        <4>1. Pushed(s, r) = s
          BY <3>3, PushedIs
        <4>. QED
          BY <2>2, <3>1, <4>1, PushOneIs DEF E
      <3>4. CASE r # <<>>
        <4>1. Pushed(s, r) = E
          BY <1>3, <3>2, <3>4 DEF n
        <4>2. PushOne(E, b) = IF E.long THEN E ELSE Emit(E)
          BY <1>2, <3>1, PushOneIs
        <4>. QED
          BY <1>2, <2>2, <4>1, <4>2
      <3>. QED
        BY <3>3, <3>4
    <2>. QED
      BY <2>1, <2>3 DEF t
  <1> HIDE DEF U, E
  <1>4. u \in U
    BY <1>1, <1>3, SeqInductive
  <1>. QED
    BY <1>4 DEF U, E

\* To the tokenizer a text and the text with its replacements are the same:
\* neither invalid bytes nor their replacements belong to tokens.
LEMMA PushedDecoded ==
  ASSUME NEW t \in Seq(Byte)
  PROVE  /\ DecodedText(t) \in Seq(Byte)
         /\ \A s \in Tokenizer : Pushed(s, DecodedText(t)) = Pushed(s, t)
  <1> DEFINE Q(r) == \A s \in Tokenizer : Pushed(s, DecodedText(r)) = Pushed(s, r)
             U == {r \in Seq(Byte) : Q(r)}
  <1>0. \A r \in Seq(Byte) : DecodedText(r) \in Seq(Byte)
    <2> SUFFICES ASSUME NEW r \in Seq(Byte) PROVE DecodedText(r) \in Seq(Byte)
      OBVIOUS
    <2>1. Units[r] \in Seq(Seq(Byte))
      BY UnitsEquation
    <2>. QED
      BY <2>1, OfUnits, TextConcat
  <1>1. ASSUME NEW r \in Seq(Byte), \A q \in Seq(Byte) : Len(q) < Len(r) => q \in U
        PROVE  r \in U
    <2>1. CASE r = <<>>
      <3>1. DecodedText(<<>>) = <<>>
        BY OfUnits, UnitsEquation, TextOne, EmptySeq
      <3>. QED
        BY <2>1, <3>1
    <2>2. CASE r # <<>>
      <3> DEFINE u == Unit(r)
                 x == Drop(r, Taken(r))
                 e == UnitText(u)
      <3>1. /\ u \in Seq(Byte) /\ u # <<>> /\ x \in Seq(Byte) /\ Len(x) < Len(r) /\ r = Cat(u, x)
            /\ ~ WellFormed(u) => \A k \in 1 .. Len(u) : ~ IsTokenCharacter(u[k])
        BY <2>2, UnitCut, UnitKinds DEF Cat
      <3>2. Units[r] = Cat(<<u>>, Units[x]) /\ Units[x] \in Seq(Seq(Byte)) /\ <<u>> \in Seq(Seq(Byte))
        BY <2>2, <3>1, UnitsEquation DEF Cat
      <3>q. \A s \in Tokenizer : Pushed(s, DecodedText(x)) = Pushed(s, x)
        <4>1. x \in U
          BY <1>1, <3>1
        <4>. QED
          BY <4>1
      <3> HIDE DEF u, x
      <3>3. DecodedText(r) = Cat(e, DecodedText(x)) /\ e \in Seq(Byte) /\ DecodedText(x) \in Seq(Byte)
        <4>1. TextOf(Cat(<<u>>, Units[x])) = Cat(TextOf(<<u>>), TextOf(Units[x]))
          BY <3>2, TextConcat DEF Cat
        <4>2. TextOf(<<u>>) = e
          BY <3>1, TextOne
        <4>3. DecodedText(r) = TextOf(Units[r]) /\ DecodedText(x) = TextOf(Units[x])
          BY OfUnits
        <4>4. e \in Seq(Byte)
          BY <3>1, UnitTextType
        <4>. QED
          BY <1>0, <3>1, <3>2, <4>1, <4>2, <4>3, <4>4
      <3>4. ASSUME NEW s \in Tokenizer PROVE Pushed(s, e) = Pushed(s, u)
        <4>1. CASE WellFormed(u)
          BY <4>1 DEF UnitText
        <4>2. CASE ~ WellFormed(u)
          <5>1. e = Replacement /\ Replacement # <<>> /\ Len(Replacement) = 3
            BY <4>2 DEF UnitText, Replacement
          <5>2. \A k \in 1 .. 3 : ~ IsTokenCharacter(Replacement[k])
            <6>1. /\ ~ IsTokenCharacter(239) /\ ~ IsTokenCharacter(191) /\ ~ IsTokenCharacter(189)
              BY DEF IsTokenCharacter
            <6>2. Replacement[1] = 239 /\ Replacement[2] = 191 /\ Replacement[3] = 189
              BY DEF Replacement
            <6>. QED
              BY <6>1, <6>2
          <5> HIDE DEF e
          <5>3. Pushed(s, e) = IF s.long THEN s ELSE Emit(s)
            <6>1. e # <<>> /\ \A k \in 1 .. Len(e) : ~ IsTokenCharacter(e[k])
              BY <5>1, <5>2
            <6>. QED
              BY <3>3, <6>1, PushedOther
          <5>4. Pushed(s, u) = IF s.long THEN s ELSE Emit(s)
            BY <3>1, <4>2, PushedOther
          <5>. QED
            BY <5>3, <5>4
        <4>. QED
          BY <4>1, <4>2
      <3> HIDE DEF e
      <3>5. ASSUME NEW s \in Tokenizer PROVE Pushed(s, DecodedText(r)) = Pushed(s, r)
        <4>1. Pushed(s, Cat(e, DecodedText(x))) = Pushed(Pushed(s, e), DecodedText(x))
          BY <3>3, PushedConcat
        <4>2. Pushed(s, Cat(u, x)) = Pushed(Pushed(s, u), x)
          BY <3>1, PushedConcat
        <4>3. Pushed(s, u) \in Tokenizer
          BY <3>1, PushedIs
        <4>. QED
          BY <3>1, <3>3, <3>4, <3>q, <4>1, <4>2, <4>3
      <3>. QED
        BY <3>5
    <2>. QED
      BY <2>1, <2>2
  <1> HIDE DEF U
  <1>2. t \in U
    BY <1>1, LengthInductive
  <1>. QED
    BY <1>0, <1>2 DEF U

-----------------------------------------------------------------------------
(* Tokens and runs. *)

\* The token that TokenizerSession collects is the end of the text, and
\* begins where a run begins.
Open(word, t) ==
  /\ Len(word) <= Len(t) /\ Len(word) <= MaxToken
  /\ \A k \in 1 .. Len(word) :
       /\ IsTokenCharacter(t[Len(t) - Len(word) + k])
       /\ word[k] = Normalize(t[Len(t) - Len(word) + k])
  /\ Len(word) < Len(t) => ~ IsTokenCharacter(t[Len(t) - Len(word)])

\* The tokens found are the runs that end before e, from their places st on.
Cut(st, found, t, e) ==
  /\ st \in Seq(Nat) /\ Len(st) = Len(found)
  /\ \A k \in 1 .. Len(found) :
       /\ 1 <= st[k] /\ 1 <= Len(found[k]) /\ st[k] + Len(found[k]) <= e
       /\ Run(t, st[k], st[k] + Len(found[k]) - 1)
       /\ \A n \in 1 .. Len(found[k]) : found[k][n] = Normalize(t[st[k] + n - 1])
  /\ \A j, k \in 1 .. Len(found) : j < k => st[j] < st[k]
  /\ \A i, j \in 1 .. Len(t) : Run(t, i, j) /\ j < e => \E k \in 1 .. Len(found) : st[k] = i

\* A run is the same after one more byte, unless that may belong to it
\* (TokenizerSession::push).
LEMMA RunLocal ==
  ASSUME NEW t \in Seq(Byte), NEW b \in Byte, NEW i \in Nat, NEW j \in Nat,
         1 <= i, j <= Len(t), j < Len(t) \/ ~ IsTokenCharacter(b)
  PROVE  Run(Append(t, b), i, j) <=> Run(t, i, j)
  <1> DEFINE a == Append(t, b)
             n == Len(t)
  <1>1. n \in Nat /\ Len(a) = n + 1 /\ (\A k \in 1 .. n : a[k] = t[k]) /\ a[n + 1] = b
    BY AppendProperties, LenProperties
  <1> HIDE DEF a, n
  <1>2. j <= n /\ (j < n \/ ~ IsTokenCharacter(b))
    BY DEF n
  <1>3. CASE ~ (i <= j)
    BY <1>3 DEF Run
  <1>4. CASE i <= j
    <2>1. \A k \in i .. j : a[k] = t[k]
      BY <1>1, <1>2
    <2>2. i > 1 => a[i - 1] = t[i - 1]
      BY <1>1, <1>2, <1>4
    <2>3. j < n => a[j + 1] = t[j + 1] /\ j < Len(a)
      BY <1>1
    <2>4. j = n => a[j + 1] = b /\ j < Len(a)
      BY <1>1
    <2>5. (j < Len(a) => ~ IsTokenCharacter(a[j + 1])) <=> (j < n => ~ IsTokenCharacter(t[j + 1]))
      BY <1>1, <1>2, <2>3, <2>4
    <2>6. n = Len(t)
      BY DEF n
    <2>. QED
      BY <2>1, <2>2, <2>5, <2>6 DEF Run, a
  <1>. QED
    BY <1>3, <1>4

\* So are the tokens found (TokenizerSession::push).
LEMMA CutGrows ==
  ASSUME NEW t \in Seq(Byte), NEW b \in Byte, NEW st, NEW found, NEW e \in Nat,
         Cut(st, found, t, e),
         e <= Len(t) \/ (e = Len(t) + 1 /\ ~ IsTokenCharacter(b)),
         Len(found) \in Nat, \A k \in 1 .. Len(found) : Len(found[k]) \in Nat
  PROVE  Cut(st, found, Append(t, b), e)
  <1> DEFINE a == Append(t, b)
             n == Len(t)
  <1>1. n \in Nat /\ Len(a) = n + 1 /\ (\A k \in 1 .. n : a[k] = t[k]) /\ a[n + 1] = b
    BY AppendProperties, LenProperties
  <1>2. \A i, j \in Nat : 1 <= i /\ j <= n /\ j < e => (Run(a, i, j) <=> Run(t, i, j))
    <2> SUFFICES ASSUME NEW i \in Nat, NEW j \in Nat, 1 <= i, j <= n, j < e
                 PROVE  Run(a, i, j) <=> Run(t, i, j)
      OBVIOUS
    <2>1. j < n \/ ~ IsTokenCharacter(b)
      BY <1>1
    <2>. QED
      BY <2>1, RunLocal
  <1> HIDE DEF a, n
  <1>3. e <= n \/ (e = n + 1 /\ ~ IsTokenCharacter(b))
    BY DEF n
  <1>4. n = Len(t)
    BY DEF n
  <1>5. \A k \in 1 .. Len(found) : st[k] \in Nat
    BY DEF Cut
  <1>6. ASSUME NEW k \in 1 .. Len(found)
        PROVE  /\ 1 <= st[k] /\ 1 <= Len(found[k]) /\ st[k] + Len(found[k]) <= e
               /\ Run(a, st[k], st[k] + Len(found[k]) - 1)
               /\ \A m \in 1 .. Len(found[k]) : found[k][m] = Normalize(a[st[k] + m - 1])
    <2> DEFINE l == Len(found[k])
               i == st[k]
    <2>1. /\ 1 <= i /\ 1 <= l /\ i + l <= e /\ Run(t, i, i + l - 1)
          /\ \A m \in 1 .. l : found[k][m] = Normalize(t[i + m - 1])
      BY DEF Cut
    <2>2. i \in Nat /\ l \in Nat
      BY <1>5
    <2> HIDE DEF l, i
    <2>3. i + l - 1 \in Nat /\ i + l - 1 <= n /\ i + l - 1 < e
      BY <1>1, <1>3, <2>1, <2>2
    <2>4. Run(a, i, i + l - 1)
      BY <1>2, <2>1, <2>2, <2>3
    <2>5. \A m \in 1 .. l : i + m - 1 \in 1 .. n
      BY <2>1, <2>2, <2>3, <1>1
    <2>6. \A m \in 1 .. l : found[k][m] = Normalize(a[i + m - 1])
      BY <1>1, <2>1, <2>5
    <2>. QED
      BY <2>1, <2>4, <2>6 DEF l, i
  <1>7. ASSUME NEW i \in 1 .. Len(a), NEW j \in 1 .. Len(a), Run(a, i, j), j < e
        PROVE  \E k \in 1 .. Len(found) : st[k] = i
    <2>1. i \in 1 .. n /\ j \in 1 .. n
      BY <1>1, <1>3, <1>7 DEF Run
    <2>2. Run(t, i, j)
      BY <1>1, <1>2, <1>7, <2>1
    <2>. QED
      BY <1>4, <1>7, <2>1, <2>2 DEF Cut
  <1>8. /\ st \in Seq(Nat) /\ Len(st) = Len(found)
        /\ \A j, k \in 1 .. Len(found) : j < k => st[j] < st[k]
    BY DEF Cut
  <1>. QED
    BY <1>6, <1>7, <1>8 DEF Cut, a

\* When the token is emitted, the runs of the whole text are found
\* (emit_pending).
LEMMA CutCloses ==
  ASSUME NEW t \in Seq(Byte), NEW st, NEW s \in Tokenizer, Open(s.token, t),
         Cut(st, s.tokens, t, Len(t) - Len(s.token))
  PROVE  \E nx : Cut(nx, Emit(s).tokens, t, Len(t) + 1)
  <1> DEFINE n == Len(t)
             w == s.token
             m == Len(w)
             e == n - m
             found == s.tokens
             z == Len(found)
  <1>1. w \in Seq(Byte) /\ found \in Seq(Seq(Byte))
    BY DEF Tokenizer
  <1>2. n \in Nat /\ m \in Nat /\ z \in Nat /\ \A k \in 1 .. z : Len(found[k]) \in Nat
    <2>1. \A k \in 1 .. z : found[k] \in Seq(Byte)
      BY <1>1
    <2>. QED
      BY <1>1, <2>1, LenProperties
  <1>3. /\ m <= n /\ (m < n => ~ IsTokenCharacter(t[e]))
        /\ \A k \in 1 .. m : IsTokenCharacter(t[e + k]) /\ w[k] = Normalize(t[e + k])
    BY DEF Open
  <1>4. /\ st \in Seq(Nat) /\ Len(st) = z
        /\ \A k \in 1 .. z :
             /\ 1 <= st[k] /\ 1 <= Len(found[k]) /\ st[k] + Len(found[k]) <= e
             /\ Run(t, st[k], st[k] + Len(found[k]) - 1)
             /\ \A q \in 1 .. Len(found[k]) : found[k][q] = Normalize(t[st[k] + q - 1])
        /\ \A j, k \in 1 .. z : j < k => st[j] < st[k]
        /\ \A i, j \in 1 .. n : Run(t, i, j) /\ j < e => \E k \in 1 .. z : st[k] = i
    BY DEF Cut
  <1>5. \A k \in 1 .. z : st[k] \in Nat
    BY <1>4
  <1>c. Emit(s).tokens = IF w = <<>> THEN found ELSE Append(found, w)
    BY EmitIs
  <1>e. e \in Nat /\ e + m = n
    BY <1>2, <1>3
  <1>d. (w = <<>>) <=> (m = 0)
    BY <1>1, EmptySeq
  <1>o. n = Len(t) /\ m = Len(w) /\ z = Len(found)
    OBVIOUS
  <1> HIDE DEF n, m, e, z, w, found
  \* Where a run can end: before e, or at the end of the text.
  <1>6. ASSUME NEW i \in 1 .. n, NEW j \in 1 .. n, Run(t, i, j), ~ (j < e)
        PROVE  i = e + 1 /\ m >= 1
    <2>1. i <= j /\ \A k \in i .. j : IsTokenCharacter(t[k])
      BY <1>6 DEF Run
    <2>2. j < n => ~ IsTokenCharacter(t[j + 1])
      BY <1>6, <1>o DEF Run
    <2>3. i > 1 => ~ IsTokenCharacter(t[i - 1])
      BY <1>6 DEF Run
    <2>4. m >= 1
      <3>1. ASSUME m = 0 PROVE FALSE
        <4>1. e = n /\ j = n /\ m < n
          BY <1>2, <1>e, <1>6, <3>1
        <4>2. j \in i .. j
          BY <2>1
        <4>. QED
          BY <1>3, <2>1, <4>1, <4>2
      <3>. QED
        BY <1>2, <3>1
    <2>5. j # e
      <3>1. ASSUME j = e PROVE FALSE
        <4>1. m < n /\ j \in i .. j
          BY <1>2, <1>e, <2>1, <2>4, <3>1
        <4>. QED
          BY <1>3, <2>1, <3>1, <4>1
      <3>. QED
        BY <3>1
    <2>6. j = n
      <3>1. ASSUME j < n PROVE FALSE
        <4>1. j + 1 - e \in 1 .. m /\ e + (j + 1 - e) = j + 1
          BY <1>2, <1>e, <1>6, <2>5, <3>1
        <4>. QED
          BY <1>3, <2>2, <3>1, <4>1
      <3>. QED
        BY <1>2, <3>1
    <2>7. ~ (i <= e)
      <3>1. ASSUME i <= e PROVE FALSE
        <4>1. m < n /\ e \in i .. j
          BY <1>2, <1>e, <1>6, <2>6, <3>1
        <4>. QED
          BY <1>3, <2>1, <4>1
      <3>. QED
        BY <3>1
    <2>8. ~ (i > e + 1)
      <3>1. ASSUME i > e + 1 PROVE FALSE
        <4>1. i - 1 - e \in 1 .. m /\ e + (i - 1 - e) = i - 1 /\ i > 1
          BY <1>2, <1>e, <3>1
        <4>. QED
          BY <1>3, <2>3, <4>1
      <3>. QED
        BY <3>1
    <2>. QED
      BY <1>2, <1>e, <2>4, <2>7, <2>8
  <1>7. CASE w = <<>>
    <2>1. m = 0 /\ e = n /\ Emit(s).tokens = found
      BY <1>c, <1>d, <1>e, <1>2, <1>7
    <2>2. ASSUME NEW k \in 1 .. z PROVE st[k] + Len(found[k]) <= n + 1
      BY <1>2, <1>4, <1>5, <2>1
    <2>3. ASSUME NEW i \in 1 .. n, NEW j \in 1 .. n, Run(t, i, j)
          PROVE  \E k \in 1 .. z : st[k] = i
      BY <1>4, <1>6, <2>1, <2>3
    <2>4. Cut(st, found, t, n + 1)
      BY <1>4, <1>o, <2>2, <2>3 DEF Cut
    <2>. QED
      BY <2>1, <2>4 DEF n
  <1>8. CASE w # <<>>
    <2> DEFINE nx == Append(st, e + 1)
               fx == Append(found, w)
    <2>1. m >= 1 /\ Emit(s).tokens = fx
      BY <1>c, <1>d, <1>2, <1>8
    <2>2. /\ nx \in Seq(Nat) /\ Len(nx) = z + 1 /\ nx[z + 1] = e + 1
          /\ \A k \in 1 .. z : nx[k] = st[k]
      BY <1>2, <1>4, <1>e, AppendProperties
    <2>3. Len(fx) = z + 1 /\ fx[z + 1] = w /\ \A k \in 1 .. z : fx[k] = found[k]
      BY <1>1, <1>o, AppendProperties
    <2> HIDE DEF nx, fx
    <2>4. Run(t, e + 1, n)
      <3>1. e + 1 <= n
        BY <1>2, <1>e, <2>1
      <3>2. ASSUME NEW k \in e + 1 .. n PROVE IsTokenCharacter(t[k])
        <4>1. k - e \in 1 .. m /\ e + (k - e) = k
          BY <1>2, <1>e
        <4>. QED
          BY <1>3, <4>1
      <3>3. e + 1 > 1 => ~ IsTokenCharacter(t[e])
        BY <1>2, <1>3, <1>e
      <3>4. e + 1 - 1 = e /\ ~ (n < Len(t))
        BY <1>2, <1>e, <1>o
      <3> DEFINE f == e + 1
      <3>f. f - 1 = e
        BY <1>e
      <3>5. f <= n /\ (\A k \in f .. n : IsTokenCharacter(t[k])) /\ (f > 1 => ~ IsTokenCharacter(t[f - 1]))
        BY ONLY <3>1, <3>2, <3>3, <3>f
      <3> HIDE DEF f
      <3>6. Run(t, f, n)
        BY ONLY <3>4, <3>5 DEF Run
      <3>. QED
        BY <3>6 DEF f
    <2>5. ASSUME NEW k \in 1 .. z + 1
          PROVE  /\ 1 <= nx[k] /\ 1 <= Len(fx[k]) /\ nx[k] + Len(fx[k]) <= n + 1
                 /\ Run(t, nx[k], nx[k] + Len(fx[k]) - 1)
                 /\ \A q \in 1 .. Len(fx[k]) : fx[k][q] = Normalize(t[nx[k] + q - 1])
      <3>1. CASE k \in 1 .. z
        <4>1. nx[k] = st[k] /\ fx[k] = found[k]
          BY <2>2, <2>3, <3>1
        <4>2. st[k] + Len(found[k]) <= n + 1
          BY <1>2, <1>4, <1>5, <1>e, <3>1, SMTT(60)
        <4>. QED
          BY <1>4, <3>1, <4>1, <4>2
      <3>2. CASE k = z + 1
        <4>1. nx[k] = e + 1 /\ fx[k] = w /\ Len(fx[k]) = m
          BY <1>o, <2>2, <2>3, <3>2
        <4>2. 1 <= e + 1 /\ 1 <= m /\ e + 1 + m <= n + 1 /\ e + 1 + m - 1 = n
          BY <1>2, <1>e, <2>1
        <4>3. \A q \in 1 .. m : w[q] = Normalize(t[e + 1 + q - 1])
          <5>1. \A q \in 1 .. m : e + 1 + q - 1 = e + q
            BY <1>e, <1>2
          <5>. QED
            BY <1>3, <5>1
        <4>. QED
          BY <2>4, <4>1, <4>2, <4>3
      <3>. QED
        BY <1>2, <3>1, <3>2
    <2>6. ASSUME NEW j \in 1 .. z + 1, NEW k \in 1 .. z + 1, j < k PROVE nx[j] < nx[k]
      <3>1. j \in 1 .. z
        BY <1>2, <2>6
      <3>2. CASE k \in 1 .. z
        BY <1>4, <2>2, <2>6, <3>1, <3>2
      <3>3. CASE k = z + 1
        <4>1. st[j] + Len(found[j]) <= e /\ 1 <= Len(found[j])
          BY <1>4, <3>1
        <4>2. st[j] < e + 1
          BY <1>2, <1>5, <1>e, <3>1, <4>1
        <4>. QED
          BY <2>2, <3>1, <3>3, <4>2
      <3>. QED
        BY <1>2, <3>2, <3>3
    <2>7. ASSUME NEW i \in 1 .. n, NEW j \in 1 .. n, Run(t, i, j)
          PROVE  \E k \in 1 .. z + 1 : nx[k] = i
      <3>1. CASE j < e
        <4>1. PICK k \in 1 .. z : st[k] = i
          BY <1>4, <2>7, <3>1
        <4>2. k \in 1 .. z + 1
          BY <1>2
        <4>. QED
          BY <2>2, <4>1, <4>2
      <3>2. CASE ~ (j < e)
        <4>1. z + 1 \in 1 .. z + 1
          BY <1>2
        <4>. QED
          BY <1>6, <2>2, <2>7, <3>2, <4>1
      <3>. QED
        BY <3>1, <3>2
    <2>8. Cut(nx, fx, t, n + 1)
      BY <1>o, <2>2, <2>3, <2>5, <2>6, <2>7 DEF Cut
    <2>. QED
      BY <2>1, <2>8 DEF n
  <1>. QED
    BY <1>7, <1>8

\* A new TokenizerSession.
Start == [token |-> <<>>, tokens |-> <<>>, long |-> FALSE]

\* What the session that has seen t is to know.
Tokenised(s, t) ==
  IF s.long THEN LongRun(t)
  ELSE /\ Open(s.token, t) /\ ~ LongRun(t)
       /\ \E st : Cut(st, s.tokens, t, Len(t) - Len(s.token))

\* A run over the limit stays one, and a byte makes one only when it is the
\* character behind a run at the limit (the length check of push).
LEMMA LongRunGrows ==
  ASSUME NEW t \in Seq(Byte), NEW b \in Byte
  PROVE  /\ LongRun(t) => LongRun(Append(t, b))
         /\ ~ LongRun(t) /\ LongRun(Append(t, b)) =>
              /\ MaxToken <= Len(t) /\ IsTokenCharacter(b)
              /\ \A k \in Len(t) + 1 - MaxToken .. Len(t) : IsTokenCharacter(t[k])
         /\ MaxToken <= Len(t) /\ IsTokenCharacter(b)
              /\ (\A k \in Len(t) + 1 - MaxToken .. Len(t) : IsTokenCharacter(t[k])) =>
            LongRun(Append(t, b))
  <1> DEFINE a == Append(t, b)
             n == Len(t)
  <1>1. n \in Nat /\ Len(a) = n + 1 /\ (\A k \in 1 .. n : a[k] = t[k]) /\ a[n + 1] = b
    BY AppendProperties, LenProperties
  <1>2. a \in Seq(Byte) /\ DOMAIN a = 1 .. Len(a) /\ DOMAIN t = 1 .. n
    BY AppendProperties, LenProperties
  <1>3. MaxToken \in Nat \ {0}
    BY TextAssumption
  <1>4. n = Len(t)
    OBVIOUS
  <1> HIDE DEF a, n
  <1>5. LongRun(t) <=> \E i \in 1 .. n : i + MaxToken <= n /\ \A k \in i .. i + MaxToken : IsTokenCharacter(t[k])
    BY <1>2, <1>4 DEF LongRun
  <1>6. LongRun(a) <=> \E i \in 1 .. n + 1 : i + MaxToken <= n + 1 /\ \A k \in i .. i + MaxToken : IsTokenCharacter(a[k])
    BY <1>1, <1>2 DEF LongRun
  <1>7. ASSUME LongRun(t) PROVE LongRun(a)
    <2>1. PICK i \in 1 .. n : i + MaxToken <= n /\ \A k \in i .. i + MaxToken : IsTokenCharacter(t[k])
      BY <1>5, <1>7
    <2>2. \A k \in i .. i + MaxToken : k \in 1 .. n
      BY <1>1, <1>3, <2>1
    <2>3. i \in 1 .. n + 1 /\ i + MaxToken <= n + 1
      BY <1>1, <1>3, <2>1
    <2>. QED
      BY <1>1, <1>6, <2>1, <2>2, <2>3
  <1>8. ASSUME ~ LongRun(t), LongRun(a)
        PROVE  /\ MaxToken <= n /\ IsTokenCharacter(b)
               /\ \A k \in n + 1 - MaxToken .. n : IsTokenCharacter(t[k])
    <2>1. PICK i \in 1 .. n + 1 : i + MaxToken <= n + 1 /\ \A k \in i .. i + MaxToken : IsTokenCharacter(a[k])
      BY <1>6, <1>8
    <2>2. i + MaxToken = n + 1
      <3>1. ASSUME i + MaxToken <= n PROVE FALSE
        <4>1. i \in 1 .. n /\ \A k \in i .. i + MaxToken : k \in 1 .. n
          BY <1>1, <1>3, <3>1
        <4>2. \A k \in i .. i + MaxToken : IsTokenCharacter(t[k])
          BY <1>1, <2>1, <4>1
        <4>. QED
          BY <1>5, <1>8, <3>1, <4>1, <4>2
      <3>. QED
        BY <1>1, <1>3, <2>1, <3>1
    <2>3. i = n + 1 - MaxToken /\ MaxToken <= n
      BY <1>1, <1>3, <2>2
    <2>4. \A k \in n + 1 - MaxToken .. n : k \in i .. i + MaxToken /\ k \in 1 .. n
      BY <1>1, <1>3, <2>2, <2>3
    <2>5. n + 1 \in i .. i + MaxToken
      BY <1>1, <1>3, <2>2
    <2>. QED
      BY <1>1, <2>1, <2>3, <2>4, <2>5
  <1>9. ASSUME MaxToken <= n, IsTokenCharacter(b),
               \A k \in n + 1 - MaxToken .. n : IsTokenCharacter(t[k])
        PROVE  LongRun(a)
    <2> DEFINE i == n + 1 - MaxToken
    <2>1. i \in 1 .. n + 1 /\ i + MaxToken = n + 1
      BY <1>1, <1>3, <1>9
    <2>2. ASSUME NEW k \in i .. i + MaxToken PROVE IsTokenCharacter(a[k])
      <3>1. CASE k = n + 1
        BY <1>1, <1>9, <3>1
      <3>2. CASE k # n + 1
        <4>1. k \in i .. n /\ k \in 1 .. n
          BY <1>1, <2>1, <3>2
        <4>. QED
          BY <1>1, <1>9, <4>1
      <3>. QED
        BY <3>1, <3>2
    <2> HIDE DEF i
    <2>3. i + MaxToken <= n + 1
      BY <1>1, <2>1
    <2>. QED
      BY <1>6, <2>1, <2>2, <2>3
  <1>. QED
    BY <1>7, <1>8, <1>9 DEF a, n

\* A character that belongs to the token (TokenizerSession::push).
LEMMA OpenAppend ==
  ASSUME NEW t \in Seq(Byte), NEW b \in Byte, NEW w \in Seq(Byte), Open(w, t),
         IsTokenCharacter(b), Len(w) < MaxToken
  PROVE  /\ Open(Append(w, Normalize(b)), Append(t, b))
         /\ Len(Append(t, b)) - Len(Append(w, Normalize(b))) = Len(t) - Len(w)
  <1> DEFINE a == Append(t, b)
             c == Append(w, Normalize(b))
             n == Len(t)
             m == Len(w)
             e == n - m
  <1>1. n \in Nat /\ Len(a) = n + 1 /\ (\A k \in 1 .. n : a[k] = t[k]) /\ a[n + 1] = b
    BY AppendProperties, LenProperties
  <1>2. Normalize(b) \in Byte
    BY DEF Normalize, Byte
  <1>3. m \in Nat /\ Len(c) = m + 1 /\ (\A k \in 1 .. m : c[k] = w[k]) /\ c[m + 1] = Normalize(b)
    BY <1>2, AppendProperties, LenProperties
  <1>4. /\ m <= n /\ m < MaxToken /\ (m < n => ~ IsTokenCharacter(t[e]))
        /\ \A k \in 1 .. m : IsTokenCharacter(t[e + k]) /\ w[k] = Normalize(t[e + k])
    BY DEF Open
  <1>5. MaxToken \in Nat
    BY TextAssumption
  <1>6. e \in Nat /\ e + m = n
    BY <1>1, <1>3, <1>4
  <1> HIDE DEF a, c, n, m, e
  <1>7. Len(a) - Len(c) = e /\ Len(c) <= Len(a) /\ Len(c) <= MaxToken /\ (Len(c) < Len(a) => m < n)
    BY <1>1, <1>3, <1>4, <1>5, <1>6
  <1>8. ASSUME NEW k \in 1 .. Len(c) PROVE IsTokenCharacter(a[e + k]) /\ c[k] = Normalize(a[e + k])
    <2>1. CASE k \in 1 .. m
      <3>1. e + k \in 1 .. n
        BY <1>1, <1>3, <1>6, <2>1
      <3>. QED
        BY <1>1, <1>3, <1>4, <2>1, <3>1
    <2>2. CASE k = m + 1
      <3>1. e + k = n + 1
        BY <1>1, <1>3, <1>6, <2>2
      <3>. QED
        BY <1>1, <1>3, <2>2, <3>1
    <2>. QED
      BY <1>3, <2>1, <2>2
  <1>9. ASSUME m < n PROVE ~ IsTokenCharacter(a[e])
    <2>1. e \in 1 .. n
      BY <1>1, <1>3, <1>6, <1>9
    <2>. QED
      BY <1>1, <1>4, <1>9, <2>1
  <1>10. Open(c, a)
    BY <1>7, <1>8, <1>9 DEF Open
  <1>. QED
    BY <1>7, <1>10 DEF a, c, n, m, e

\* One more character, whatever it is (TokenizerSession::push).
LEMMA TokenisedAppend ==
  ASSUME NEW t \in Seq(Byte), NEW b \in Byte, NEW s \in Tokenizer, Tokenised(s, t)
  PROVE  Tokenised(PushOne(s, b), Append(t, b))
  <1> DEFINE a == Append(t, b)
             p == PushOne(s, b)
             w == s.token
             n == Len(t)
  <1>1. /\ n \in Nat /\ Len(a) = n + 1 /\ (\A k \in 1 .. n : a[k] = t[k]) /\ a[n + 1] = b
        /\ a \in Seq(Byte)
    BY AppendProperties, LenProperties
  <1>2. w \in Seq(Byte) /\ s.tokens \in Seq(Seq(Byte)) /\ Len(w) \in Nat
    <2>1. w \in Seq(Byte) /\ s.tokens \in Seq(Seq(Byte))
      BY DEF Tokenizer
    <2>. QED
      BY <2>1, LenProperties
  <1>3. p \in Tokenizer
    BY PushOneIs
  <1>m. MaxToken \in Nat \ {0}
    BY TextAssumption
  <1>t. ASSUME NEW q \in Seq(Seq(Byte))
        PROVE  Len(q) \in Nat /\ \A k \in 1 .. Len(q) : Len(q[k]) \in Nat
    <2>1. \A k \in 1 .. Len(q) : q[k] \in Seq(Byte)
      OBVIOUS
    <2>. QED
      BY <2>1, LenProperties
  <1>n. n = Len(t)
    OBVIOUS
  <1> HIDE DEF a, p, w, n
  <1>4. CASE s.long
    <2>1. p = s /\ LongRun(t)
      BY <1>4, PushOneIs DEF p, Tokenised
    <2>. QED
      BY <1>4, <2>1, LongRunGrows DEF Tokenised, a, p
  <1>5. CASE ~ s.long
    <2>1. Open(w, t) /\ ~ LongRun(t) /\ \E st : Cut(st, s.tokens, t, Len(t) - Len(w))
      BY <1>5 DEF Tokenised, w
    <2>2. PICK st : Cut(st, s.tokens, t, Len(t) - Len(w))
      BY <2>1
    <2>3. /\ Len(w) <= n /\ Len(w) <= MaxToken
          /\ (Len(w) < n => ~ IsTokenCharacter(t[n - Len(w)]))
          /\ \A k \in 1 .. Len(w) : IsTokenCharacter(t[n - Len(w) + k])
      BY <2>1 DEF Open, n
    <2>4. CASE ~ IsTokenCharacter(b)
      <3>1. p = Emit(s) /\ p.token = <<>> /\ ~ p.long
        BY <1>5, <2>4, PushOneIs, EmitIs DEF p
      <3>2. PICK nx : Cut(nx, p.tokens, t, n + 1)
        BY <2>1, <2>2, <3>1, CutCloses DEF w, n
      <3>3. p.tokens \in Seq(Seq(Byte))
        BY <1>3 DEF Tokenizer
      <3>4. n + 1 \in Nat
        BY <1>1
      <3>5. Cut(nx, p.tokens, a, n + 1)
        BY <1>n, <1>t, <2>4, <3>2, <3>3, <3>4, CutGrows DEF a
      <3>6. Len(p.token) = 0 /\ Len(a) - Len(p.token) = n + 1 /\ Len(a) - 0 = n + 1
        BY <1>1, <3>1
      <3>7. Open(p.token, a)
        BY <1>1, <1>m, <2>4, <3>6 DEF Open
      <3>8. ~ LongRun(a)
        BY <2>1, <2>4, LongRunGrows DEF a
      <3>. QED
        BY <3>1, <3>5, <3>6, <3>7, <3>8 DEF Tokenised, a, p
    <2>5. CASE IsTokenCharacter(b) /\ Len(w) = MaxToken
      <3>1. p.long
        BY <1>5, <2>5, PushOneIs DEF p, w
      <3>2. MaxToken <= n /\ \A k \in n + 1 - MaxToken .. n : IsTokenCharacter(t[k])
        <4>1. ASSUME NEW k \in n + 1 - MaxToken .. n PROVE IsTokenCharacter(t[k])
          <5>1. k - (n - MaxToken) \in 1 .. MaxToken /\ n - MaxToken + (k - (n - MaxToken)) = k
            BY <1>1, <1>m
          <5>. QED
            BY <2>3, <2>5, <5>1
        <4>. QED
          BY <2>3, <2>5, <4>1
      <3>3. LongRun(a)
        BY <2>5, <3>2, LongRunGrows DEF a, n
      <3>. QED
        BY <3>1, <3>3 DEF Tokenised, a, p
    <2>6. CASE IsTokenCharacter(b) /\ Len(w) # MaxToken
      <3>1. p.token = Append(w, Normalize(b)) /\ p.tokens = s.tokens /\ ~ p.long
        BY <1>5, <2>6, PushOneIs DEF p, w
      <3>2. Len(w) < MaxToken
        BY <1>2, <1>m, <2>3, <2>6
      <3>3. Open(p.token, a) /\ Len(a) - Len(p.token) = Len(t) - Len(w)
        BY <1>2, <2>1, <2>6, <3>1, <3>2, OpenAppend DEF a
      <3>4. Len(t) - Len(w) \in Nat /\ Len(t) - Len(w) <= Len(t)
        BY <1>1, <1>2, <1>n, <2>3
      <3>5. Cut(st, s.tokens, a, Len(t) - Len(w))
        BY <1>2, <1>t, <2>2, <3>4, CutGrows DEF a
      <3>6. ~ LongRun(a)
        <4>1. ASSUME LongRun(a) PROVE FALSE
          <5>1. MaxToken <= n /\ \A k \in n + 1 - MaxToken .. n : IsTokenCharacter(t[k])
            BY <2>1, <4>1, LongRunGrows DEF a, n
          <5>2. Len(w) < n /\ n - Len(w) \in n + 1 - MaxToken .. n
            BY <1>1, <1>2, <1>m, <3>2, <5>1
          <5>. QED
            BY <2>3, <5>1, <5>2
        <4>. QED
          BY <4>1
      <3>. QED
        BY <3>1, <3>3, <3>5, <3>6 DEF Tokenised, a, p
    <2>. QED
      BY <2>4, <2>5, <2>6
  <1>. QED
    BY <1>4, <1>5

\* A new session knows the empty text (TokenizerSession).
LEMMA StartIs == Start \in Tokenizer /\ ~ Start.long /\ Tokenised(Start, <<>>)
  <1>1. <<>> \in Seq(Byte) /\ <<>> \in Seq(Seq(Byte)) /\ <<>> \in Seq(Nat)
    BY EmptySeq
  <1>2. Start \in Tokenizer
    BY <1>1 DEF Start, Tokenizer
  <1>3. Start.token = <<>> /\ Start.tokens = <<>> /\ Start.long = FALSE
    BY DEF Start
  <1>4. Len(<<>>) = 0 /\ DOMAIN <<>> = {}
    OBVIOUS
  <1>5. Open(<<>>, <<>>)
    <2>1. MaxToken \in Nat
      BY TextAssumption
    <2>. QED
      BY <1>4, <2>1 DEF Open
  <1>6. ~ LongRun(<<>>)
    BY <1>4 DEF LongRun
  <1>7. Cut(<<>>, <<>>, <<>>, 0 - 0)
    BY <1>1, <1>4 DEF Cut
  <1>. QED
    BY <1>2, <1>3, <1>4, <1>5, <1>6, <1>7 DEF Tokenised

\* Every text leads a session to what it is to know of it
\* (TokenizerSession::push).
LEMMA PushedTokenises ==
  ASSUME NEW t \in Seq(Byte)
  PROVE  Pushed(Start, t) \in Tokenizer /\ Tokenised(Pushed(Start, t), t)
  <1> DEFINE U == {r \in Seq(Byte) : Tokenised(Pushed(Start, r), r)}
  <1>1. Start \in Tokenizer
    BY StartIs
  <1>2. <<>> \in U
    <2>1. Pushed(Start, <<>>) = Start
      BY <1>1, PushedIs
    <2>. QED
      BY <2>1, StartIs, EmptySeq
  <1>3. ASSUME NEW r \in Seq(Byte), NEW b \in Byte, r \in U PROVE Append(r, b) \in U
    <2>1. /\ Pushed(Start, r) \in Tokenizer
          /\ Pushed(Start, Append(r, b)) = PushOne(Pushed(Start, r), b)
          /\ Append(r, b) \in Seq(Byte)
      BY <1>1, PushedIs, AppendProperties
    <2>2. Tokenised(PushOne(Pushed(Start, r), b), Append(r, b))
      BY <1>3, <2>1, TokenisedAppend
    <2>. QED
      BY <2>1, <2>2
  <1> HIDE DEF U
  <1>4. t \in U
    BY <1>2, <1>3, SeqInductive
  <1>5. Pushed(Start, t) \in Tokenizer
    BY <1>1, PushedIs
  <1>. QED
    BY <1>4, <1>5 DEF U

\* The tokens of a whole text are its runs, and it is rejected exactly for a
\* run over the limit (TokenizerSession::push and finish).
LEMMA TokensOfText ==
  ASSUME NEW t \in Seq(Byte)
  PROVE  /\ Pushed(Start, t).long => LongRun(t)
         /\ ~ Pushed(Start, t).long => ~ LongRun(t) /\ AreRuns(Emit(Pushed(Start, t)).tokens, t)
  <1> DEFINE s == Pushed(Start, t)
             found == Emit(s).tokens
             n == Len(t)
  <1>1. s \in Tokenizer /\ Tokenised(s, t)
    BY PushedTokenises
  <1>2. Emit(s) \in Tokenizer
    BY <1>1, EmitIs
  <1>3. found \in Seq(Seq(Byte))
    BY <1>2 DEF Tokenizer
  <1> HIDE DEF s
  <1>4. CASE s.long
    BY <1>1, <1>4 DEF Tokenised, s
  <1>5. CASE ~ s.long
    <2>1. PICK st : Cut(st, s.tokens, t, Len(t) - Len(s.token))
      BY <1>1, <1>5 DEF Tokenised
    <2>2. Open(s.token, t) /\ ~ LongRun(t)
      BY <1>1, <1>5 DEF Tokenised
    <2>3. PICK nx : Cut(nx, found, t, n + 1)
      BY <1>1, <2>1, <2>2, CutCloses
    <2>4. /\ DOMAIN found = 1 .. Len(found) /\ n \in Nat /\ DOMAIN t = 1 .. n
          /\ \A k \in 1 .. Len(found) : found[k] \in Seq(Byte)
      BY <1>3, LenProperties
    <2>5. \A k \in 1 .. Len(found) : Len(found[k]) \in Nat /\ DOMAIN found[k] = 1 .. Len(found[k])
      BY <2>4, LenProperties
    <2> HIDE DEF found, n
    <2>6. /\ nx \in Seq(Nat) /\ Len(nx) = Len(found)
          /\ \A k \in 1 .. Len(found) :
               /\ 1 <= nx[k] /\ 1 <= Len(found[k]) /\ nx[k] + Len(found[k]) <= n + 1
               /\ Run(t, nx[k], nx[k] + Len(found[k]) - 1)
               /\ \A q \in 1 .. Len(found[k]) : found[k][q] = Normalize(t[nx[k] + q - 1])
          /\ \A j, k \in 1 .. Len(found) : j < k => nx[j] < nx[k]
          /\ \A i, j \in 1 .. Len(t) : Run(t, i, j) /\ j < n + 1 => \E k \in 1 .. Len(found) : nx[k] = i
      BY <2>3 DEF Cut
    <2>7. \A k \in DOMAIN found : nx[k] \in DOMAIN t
      <3> SUFFICES ASSUME NEW k \in 1 .. Len(found) PROVE nx[k] \in 1 .. n
        BY <2>4
      <3> DEFINE i == nx[k]
                 l == Len(found[k])
      <3>1. i \in Nat /\ l \in Nat /\ n \in Nat
        BY <2>4, <2>5, <2>6
      <3>2. 1 <= i /\ 1 <= l /\ i + l <= n + 1
        BY <2>6
      <3> HIDE DEF i, l
      <3>3. i \in 1 .. n
        BY <3>1, <3>2
      <3>. QED
        BY <3>3 DEF i
    <2>8. nx \in [DOMAIN found -> DOMAIN t]
      <3>1. nx = [k \in 1 .. Len(nx) |-> nx[k]]
        BY <2>6, LenProperties
      <3>. QED
        BY <2>4, <2>6, <2>7, <3>1
    <2>9. \A i, j \in DOMAIN t : Run(t, i, j) => \E k \in DOMAIN found : nx[k] = i
      <3> SUFFICES ASSUME NEW i \in DOMAIN t, NEW j \in DOMAIN t, Run(t, i, j)
                   PROVE  \E k \in DOMAIN found : nx[k] = i
        OBVIOUS
      <3>1. i \in 1 .. Len(t) /\ j \in 1 .. Len(t) /\ j < n + 1
        BY <2>4 DEF n
      <3>. QED
        BY <2>4, <2>6, <3>1
    <2>10. AreRuns(found, t)
      <3>1. ASSUME NEW k \in DOMAIN found
            PROVE  /\ Run(t, nx[k], nx[k] + Len(found[k]) - 1)
                   /\ \A q \in DOMAIN found[k] : found[k][q] = Normalize(t[nx[k] + q - 1])
        <4>1. k \in 1 .. Len(found) /\ DOMAIN found[k] = 1 .. Len(found[k])
          BY <2>4, <2>5
        <4>. QED
          BY <2>6, <4>1
      <3>2. \A j, k \in DOMAIN found : j < k => nx[j] < nx[k]
        BY <2>4, <2>6
      <3>. QED
        BY <2>8, <2>9, <3>1, <3>2, Zenon DEF AreRuns
    <2>. QED
      BY <1>5, <2>2, <2>10 DEF found, s
  <1>. QED
    BY <1>4, <1>5

-----------------------------------------------------------------------------
(* From chunk to chunk. *)

\* Of two beginnings of a text the shorter is one of the longer.
LEMMA PrefixOf ==
  ASSUME NEW p \in Seq(Byte), NEW b \in Seq(Byte), NEW v \in Seq(Byte), NEW r \in Seq(Byte),
         Cat(p, b) = Cat(v, r), Len(p) <= Len(v)
  PROVE  Drop(v, Len(p)) \in Seq(Byte) /\ v = Cat(p, Drop(v, Len(p)))
  <1> DEFINE n == Len(p)
             x == SubSeq(v, 1, n)
             z == Drop(v, n)
  <1>1. n \in Nat /\ n <= Len(v)
    BY LenProperties
  <1>2. x \in Seq(Byte) /\ Len(x) = n /\ z \in Seq(Byte) /\ v = Cat(x, z)
    BY <1>1, DropIs DEF Cat
  <1>3. n = Len(p)
    OBVIOUS
  <1> HIDE DEF n, x, z
  <1>4. SubSeq(Cat(p, b), 1, n) = p
    BY <1>3, CutApart DEF Cat
  <1>5. Cat(v, r) = Cat(x, Cat(z, r)) /\ Cat(z, r) \in Seq(Byte)
    <2>1. \A o, s, t \in Seq(Byte) : Cat(o, s) \in Seq(Byte) /\ Cat(Cat(o, s), t) = Cat(o, Cat(s, t))
      BY CatAssociative
    <2>2. x \in Seq(Byte) /\ z \in Seq(Byte) /\ r \in Seq(Byte) /\ v = Cat(x, z)
      BY <1>2
    <2>. QED
      BY ONLY <2>1, <2>2
  <1>6. SubSeq(Cat(x, Cat(z, r)), 1, n) = x
    BY <1>2, <1>5, CutApart DEF Cat
  <1>7. x = p
    BY <1>4, <1>5, <1>6
  <1>. QED
    BY <1>2, <1>7 DEF n, z

\* What the scan r of p and the bytes behind it says of the whole text: v
\* is done too.
Advanced(d, p, bytes, final, r, v) ==
  /\ Cat(p, bytes) = Cat(v, r.rest) /\ r.text = DecodedText(v)
  /\ Cat(Cat(d, p), bytes) = Cat(Cat(d, v), r.rest)
  /\ DecodedText(Cat(d, v)) = Cat(DecodedText(d), r.text)
  /\ Cardinality(BadUnits(Cat(d, v))) = Cardinality(BadUnits(d)) + Len(r.invalid)
  /\ BadUnits(d) = {} /\ r.invalid = <<>> => BadUnits(Cat(d, v)) = {}
  /\ BadUnits(d) = {} /\ r.invalid # <<>> =>
       FirstBad(Cat(Cat(d, p), bytes)) = Len(d) + r.invalid[1] - 1
  /\ Settled(Cat(d, v), r.rest, final)
  /\ r.rest = <<>> \/ Kept(r.rest, final)

\* The step from chunk to chunk: d is done and p is kept; the scan of p and
\* the bytes of the chunk goes on where a scan of the whole text would be
\* (emit_valid_utf8, Utf8State).
LEMMA ReadOn ==
  ASSUME NEW d \in Seq(Byte), NEW p \in Seq(Byte), p = <<>> \/ Kept(p, FALSE),
         Settled(d, p, FALSE), NEW bytes \in Seq(Byte), NEW final \in BOOLEAN,
         final => bytes = <<>>, NEW r, r = Scan(Cat(p, bytes), final)
  PROVE  /\ r \in ScanResult
         /\ \E v \in Seq(Byte) : Advanced(d, p, bytes, final, r, v)
  <1> DEFINE input == Cat(p, bytes)
             S == Seq(Byte)
             Y == Seq(Byte)
             T == Seq(Y)
  <1>1. input \in S /\ <<>> \in S
    BY CatIs
  <1>2. r \in ScanResult
    BY <1>1, ScanIs
  <1>3. PICK v \in S : Scanned(input, r, 1, final, v)
    BY <1>1, ScanIs
  <1>4. /\ r.rest \in S /\ input = Cat(v, r.rest)
        /\ r.text = DecodedText(v)
        /\ r.invalid \in Seq(Int) /\ Len(r.invalid) = Cardinality(BadUnits(v))
        /\ r.invalid # <<>> => r.invalid[1] = 1 + FirstBad(v)
        /\ r.rest = <<>> \/ Kept(r.rest, final)
        /\ v # <<>> => Taken(input) <= Len(v)
        /\ Settled(v, r.rest, final)
    BY <1>3 DEF Scanned
  <1>5. \A o, s, t \in S : Cat(o, s) \in S /\ Cat(Cat(o, s), t) = Cat(o, Cat(s, t))
    BY CatAssociative
  <1>7. (\A s \in S : Units[s] \in T) /\ Units[<<>>] = <<>>
    BY UnitsEquation
  <1>8. \A s \in S : Cat(s, <<>>) = s /\ Cat(<<>>, s) = s
    BY CatIs
  <1>9. \A us \in T : Cat(us, <<>>) = us
    BY CatIs
  <1>p. v = <<>> \/ \E z \in S : v = Cat(p, z)
    <2>1. CASE p = <<>>
      BY <1>8, <2>1
    <2>2. CASE p # <<>> /\ v # <<>>
      <3>1. Taken(input) >= Len(p) /\ Taken(input) <= Len(v)
        BY <1>4, <2>2, KeptTaken DEF Cat
      <3>2. Taken(input) \in Int /\ Len(p) \in Int /\ Len(v) \in Int
        <4>1. input # <<>>
          BY <1>1, <2>2, CatIs
        <4>2. Taken(input) \in 1 .. 4
          BY <1>1, <4>1, TakenIs
        <4>3. Len(p) \in Nat /\ Len(v) \in Nat
          BY LenProperties
        <4>. QED
          BY <4>2, <4>3
      <3> DEFINE a == Taken(input)
                 b == Len(p)
                 c == Len(v)
      <3>h. a >= b /\ a <= c /\ a \in Int /\ b \in Int /\ c \in Int
        BY <3>1, <3>2
      <3> HIDE DEF a, b, c
      <3>3. b <= c
        BY <3>h
      <3>4. Len(p) <= Len(v)
        BY <3>3 DEF b, c
      <3>. QED
        <4> DEFINE z == Drop(v, Len(p))
        <4>1. Cat(p, bytes) = Cat(v, r.rest) /\ r.rest \in S
          BY <1>4
        <4>2. z \in S /\ v = Cat(p, z)
          BY <3>4, <4>1, PrefixOf
        <4> HIDE DEF z, S, T, input
        <4>. QED
          BY <4>2
    <2>. QED
      BY <2>1, <2>2
  <1>r. r.rest \in S
    BY <1>4
  <1>v. v \in S
    BY <1>3
  <1> HIDE DEF S, T, Y, input
  <1>10. Cat(d, v) \in S /\ Cat(d, p) \in S /\ p \in S /\ d \in S /\ bytes \in S
    BY <1>5 DEF S
  <1>11. Units[Cat(d, v)] = Cat(Units[d], Units[v])
    <2>1. CASE v = <<>>
      BY <1>7, <1>8, <1>9, <1>10, <2>1
    <2>2. ASSUME NEW z \in S, v = Cat(p, z) PROVE Units[Cat(d, v)] = Cat(Units[d], Units[v])
      BY <2>2 DEF Settled, S
    <2>. QED
      BY <1>p, <2>1, <2>2
  <1>12. ASSUME NEW y \in S, final => y = <<>>
         PROVE  Units[Cat(d, Cat(v, Cat(r.rest, y)))] = Cat(Units[d], Cat(Units[v], Units[Cat(r.rest, y)]))
    <2>1. Cat(v, Cat(r.rest, y)) = Cat(p, Cat(bytes, y)) /\ Cat(bytes, y) \in S
      <3>1. Cat(v, Cat(r.rest, y)) = Cat(Cat(v, r.rest), y)
        BY <1>5, <1>r, <1>3
      <3>2. Cat(Cat(p, bytes), y) = Cat(p, Cat(bytes, y)) /\ Cat(bytes, y) \in S
        BY <1>5, <1>10
      <3>. QED
        BY <1>4, <3>1, <3>2 DEF input
    <2>2. Units[Cat(d, Cat(p, Cat(bytes, y)))] = Cat(Units[d], Units[Cat(p, Cat(bytes, y))])
      BY <2>1 DEF Settled, S
    <2>3. Units[Cat(v, Cat(r.rest, y))] = Cat(Units[v], Units[Cat(r.rest, y)])
      BY <1>4, <1>12 DEF Settled, S
    <2>. QED
      BY <2>1, <2>2, <2>3
  <1>13. Settled(Cat(d, v), r.rest, final)
    <2> SUFFICES ASSUME NEW y \in S, final => y = <<>>
                 PROVE  Units[Cat(Cat(d, v), Cat(r.rest, y))] = Cat(Units[Cat(d, v)], Units[Cat(r.rest, y)])
      BY DEF Settled, S
    <2>1. Cat(r.rest, y) \in S
      BY <1>5, <1>r
    <2>2. Cat(Cat(d, v), Cat(r.rest, y)) = Cat(d, Cat(v, Cat(r.rest, y)))
      BY <1>3, <1>5, <1>10, <2>1
    <2>3. Units[d] \in T /\ Units[v] \in T /\ Units[Cat(r.rest, y)] \in T
      BY <1>3, <1>7, <1>10, <2>1
    <2>4. Cat(Cat(Units[d], Units[v]), Units[Cat(r.rest, y)]) = Cat(Units[d], Cat(Units[v], Units[Cat(r.rest, y)]))
      <3> DEFINE a == Units[d]
                 b == Units[v]
                 e == Units[Cat(r.rest, y)]
      <3>1. a \in Seq(Y) /\ b \in Seq(Y) /\ e \in Seq(Y)
        BY <2>3 DEF T
      <3> HIDE DEF a, b, e
      <3>2. Cat(Cat(a, b), e) = Cat(a, Cat(b, e))
        BY <3>1, CatAssociative
      <3>. QED
        BY <3>2 DEF a, b, e
    <2>. QED
      BY <1>11, <1>12, <2>2, <2>4
  <1>14. Cat(Cat(d, p), bytes) = Cat(Cat(d, v), r.rest)
    <2>1. Cat(Cat(d, p), bytes) = Cat(d, Cat(p, bytes))
      BY <1>5, <1>10
    <2>2. Cat(Cat(d, v), r.rest) = Cat(d, Cat(v, r.rest))
      <3> DEFINE a == d
                 b == v
                 e == r.rest
      <3>1. a \in Seq(Byte) /\ b \in Seq(Byte) /\ e \in Seq(Byte)
        BY <1>v, <1>10, <1>r DEF S
      <3> HIDE DEF a, b, e
      <3>2. Cat(Cat(a, b), e) = Cat(a, Cat(b, e))
        BY <3>1, CatAssociative
      <3>. QED
        BY <3>2 DEF a, b, e
    <2>. QED
      BY <1>4, <2>1, <2>2 DEF input
  <1>u. Units[d] \in T /\ Units[v] \in T /\ Units[r.rest] \in T
    BY <1>3, <1>7, <1>10, <1>r
  <1>15. DecodedText(Cat(d, v)) = Cat(DecodedText(d), r.text)
    <2>1. TextOf(Cat(Units[d], Units[v])) = Cat(TextOf(Units[d]), TextOf(Units[v]))
      BY <1>u, TextConcat DEF Cat, T, Y
    <2>2. /\ DecodedText(Cat(d, v)) = TextOf(Units[Cat(d, v)]) /\ DecodedText(d) = TextOf(Units[d])
          /\ DecodedText(v) = TextOf(Units[v])
      BY OfUnits
    <2>. QED
      BY <1>4, <1>11, <2>1, <2>2
  <1>16. /\ Cardinality(BadUnits(Cat(d, v))) = Cardinality(BadUnits(d)) + Len(r.invalid)
         /\ BadUnits(Cat(d, v)) = {} <=> BadUnits(d) = {} /\ BadUnits(v) = {}
         /\ r.invalid = <<>> <=> BadUnits(v) = {}
    <2>1. /\ BadUnits(Cat(d, v)) = Bad(Units[Cat(d, v)]) /\ BadUnits(d) = Bad(Units[d])
          /\ BadUnits(v) = Bad(Units[v])
      BY OfUnits
    <2>2. /\ Cardinality(Bad(Cat(Units[d], Units[v]))) = Cardinality(Bad(Units[d])) + Cardinality(Bad(Units[v]))
          /\ Bad(Cat(Units[d], Units[v])) = {} <=> Bad(Units[d]) = {} /\ Bad(Units[v]) = {}
      BY <1>u, BadConcat DEF Cat, T, Y
    <2>3. Cardinality(Bad(Units[v])) = 0 <=> Bad(Units[v]) = {}
      BY <1>u, BadType DEF T, Y
    <2>4. Len(r.invalid) = 0 <=> r.invalid = <<>>
      BY <1>4, EmptySeq
    <2>5. Len(r.invalid) = Cardinality(Bad(Units[v]))
      BY <1>4, <2>1
    <2>6. Cardinality(BadUnits(Cat(d, v))) = Cardinality(BadUnits(d)) + Len(r.invalid)
      BY <1>11, <2>1, <2>2, <2>5
    <2>7. BadUnits(Cat(d, v)) = {} <=> BadUnits(d) = {} /\ BadUnits(v) = {}
      BY <1>11, <2>1, <2>2
    <2>8. r.invalid = <<>> <=> BadUnits(v) = {}
      BY <2>1, <2>3, <2>4, <2>5
    <2>. QED
      BY <2>6, <2>7, <2>8
  <1>17. ASSUME BadUnits(d) = {}, r.invalid # <<>>
         PROVE  FirstBad(Cat(Cat(d, p), bytes)) = Len(d) + r.invalid[1] - 1
    <2>1. Units[Cat(Cat(d, p), bytes)] = Cat(Units[d], Cat(Units[v], Units[r.rest]))
      <3>1. Units[Cat(d, Cat(v, Cat(r.rest, <<>>)))] = Cat(Units[d], Cat(Units[v], Units[Cat(r.rest, <<>>)]))
        BY <1>1, <1>12 DEF S
      <3>2. Cat(r.rest, <<>>) = r.rest
        BY <1>8, <1>r
      <3>3. Cat(Cat(d, v), r.rest) = Cat(d, Cat(v, r.rest))
        <4> DEFINE a == d
                   b == v
                   e == r.rest
        <4>1. a \in Seq(Byte) /\ b \in Seq(Byte) /\ e \in Seq(Byte)
          BY <1>v, <1>10, <1>r DEF S
        <4> HIDE DEF a, b, e
        <4>2. Cat(Cat(a, b), e) = Cat(a, Cat(b, e))
          BY <4>1, CatAssociative
        <4>. QED
          BY <4>2 DEF a, b, e
      <3>. QED
        BY <1>14, <3>1, <3>2, <3>3
    <2>2. Bad(Units[d]) = {} /\ Bad(Units[v]) # {}
      BY <1>16, <1>17, OfUnits
    <2>3. FirstOf(Cat(Units[d], Cat(Units[v], Units[r.rest]))) = Len(FlattenSeq(Units[d])) + FirstOf(Units[v])
      BY <1>u, <2>2, FirstConcat DEF Cat, T, Y
    <2>4. FlattenSeq(Units[d]) = d /\ Len(d) \in Nat
      BY FlattenUnits, LenProperties
    <2>5. FirstOf(Units[v]) \in Nat
      BY <1>u, <2>2, FirstType DEF T, Y
    <2>6. FirstBad(Cat(Cat(d, p), bytes)) = Len(d) + FirstOf(Units[v])
      BY <2>1, <2>3, <2>4, OfUnits
    <2>7. r.invalid[1] = 1 + FirstOf(Units[v])
      BY <1>4, <1>17, OfUnits
    <2> DEFINE a == FirstOf(Units[v])
               b == Len(d)
    <2>8. a \in Nat /\ b \in Nat
      BY <2>4, <2>5
    <2> HIDE DEF a, b
    <2>9. b + (1 + a) - 1 = b + a
      BY <2>8
    <2>. QED
      BY <2>6, <2>7, <2>9 DEF a, b
  <1>. QED
    BY <1>2, <1>3, <1>4, <1>13, <1>14, <1>15, <1>16, <1>17 DEF Advanced, S, input

\* A run over the limit does not go away (TokenizerSession::push).
LEMMA LongRunStays ==
  ASSUME NEW t \in Seq(Byte), NEW u \in Seq(Byte), LongRun(t)
  PROVE  LongRun(Cat(t, u))
  <1> DEFINE U == {r \in Seq(Byte) : LongRun(Cat(t, r))}
  <1>1. <<>> \in U
    BY CatIs
  <1>2. ASSUME NEW r \in Seq(Byte), NEW b \in Byte, r \in U PROVE Append(r, b) \in U
    <2>1. Cat(t, r) \in Seq(Byte) /\ Append(r, b) \in Seq(Byte)
      BY CatIs, AppendProperties
    <2>2. LongRun(Append(Cat(t, r), b))
      BY <1>2, <2>1, LongRunGrows
    <2>3. Append(r, b) = Cat(r, <<b>>) /\ Append(Cat(t, r), b) = Cat(Cat(t, r), <<b>>)
      BY <2>1, AppendIsConcat DEF Cat
    <2>4. \A o, p, q \in Seq(Byte) : Cat(Cat(o, p), q) = Cat(o, Cat(p, q))
      BY CatAssociative
    <2>5. <<b>> \in Seq(Byte)
      OBVIOUS
    <2>6. Append(Cat(t, r), b) = Cat(t, Append(r, b))
      <3>1. Cat(Cat(t, r), <<b>>) = Cat(t, Cat(r, <<b>>))
        <4> DEFINE o == t
                   p == r
                   e == <<b>>
        <4>1. o \in Seq(Byte) /\ p \in Seq(Byte) /\ e \in Seq(Byte)
          BY <2>5
        <4> HIDE DEF o, p, e
        <4>2. Cat(Cat(o, p), e) = Cat(o, Cat(p, e))
          BY <4>1, CatAssociative
        <4>. QED
          BY <4>2 DEF o, p, e
      <3>. QED
        BY ONLY <2>3, <3>1
    <2>. QED
      BY <2>1, <2>2, <2>6
  <1> HIDE DEF U
  <1>3. u \in U
    BY <1>1, <1>2, SeqInductive
  <1>. QED
    BY <1>3 DEF U

-----------------------------------------------------------------------------
(* The invariant. *)

\* Types.
TextType ==
  /\ content \in Seq(Byte) /\ modified \in Nat /\ chunk \in Nat \ {0} /\ rejecting \in BOOLEAN
  /\ pc \in {"start", "read", "finish", "check", "parsed", "failed"}
  /\ before \in [size : Nat, time : Nat] /\ hashed \in Seq(Byte)
  /\ pending \in [bytes : Seq(Byte), offset : Nat]

\* While the file is read, d is done: its text was handed on, the tokenizer
\* has seen it, and what is kept of a sequence is as good as cut there.
Reading(d) ==
  /\ hashed = Cat(d, pending.bytes)
  /\ output = DecodedText(d) /\ invalid = Cardinality(BadUnits(d))
  /\ pending.bytes # <<>> => Kept(pending.bytes, FALSE) /\ pending.offset = Len(d)
  /\ rejecting => BadUnits(d) = {}
  /\ Settled(d, pending.bytes, FALSE)
  /\ [token |-> token, tokens |-> tokens, long |-> FALSE] = Pushed(Start, d)

\* After the final pass everything is done.
Whole ==
  /\ pending.bytes = <<>>
  /\ output = DecodedText(hashed) /\ invalid = Cardinality(BadUnits(hashed))
  /\ rejecting => BadUnits(hashed) = {}
  /\ ~ Pushed(Start, hashed).long /\ tokens = Emit(Pushed(Start, hashed)).tokens

\* What a failure says of the file.
Faults ==
  \/ error.reason = "invalid" /\ rejecting /\ error.offset = FirstBad(hashed)
  \/ error.reason = "long" /\ LongRun(hashed)
  \/ error.reason = "changed" /\ modified > 0

\* h is what c begins with.
Leads(h, c) == Len(h) <= Len(c) /\ h = SubSeq(c, 1, Len(h))

\* As long as the time of the file is the one read first, so is the file.
Versions ==
  /\ before.time <= modified
  /\ pc = "start" => hashed = <<>>
  /\ pc \in {"read", "finish", "check"} /\ before.time = modified =>
       before.size = Len(content) /\ Leads(hashed, content)
  /\ pc \in {"finish", "check"} /\ before.time = modified => hashed = content
  /\ pc = "parsed" => hashed = content /\ before = Metadata

\* The inductive invariant.
TextInv ==
  /\ TextType /\ Versions
  /\ pc \in {"start", "read", "finish"} => \E d \in Seq(Byte) : Reading(d)
  /\ pc \in {"check", "parsed"} => Whole
  /\ pc = "failed" => Faults

\* A read from the place behind the bytes read so far continues them, and a
\* short one ends the file (TextReader::read).
LEMMA ChunkIs ==
  ASSUME NEW c \in Seq(Byte), NEW h \in Seq(Byte), NEW size \in Nat \ {0}, NEW bytes,
         bytes = SubSeq(c, Len(h) + 1, Min({Len(h) + size, Len(c)}))
  PROVE  /\ bytes \in Seq(Byte)
         /\ Leads(h, c) =>
              /\ Leads(Cat(h, bytes), c)
              /\ Len(bytes) < size => Cat(h, bytes) = c
  <1> DEFINE l == Len(c)
             from == Len(h)
             m == Min({from + size, Len(c)})
  <1>0. from \in Nat /\ from = Len(h)
    BY LenProperties
  <1>s. bytes = SubSeq(c, from + 1, m)
    OBVIOUS
  <1> HIDE DEF from
  <1>1. l \in Nat /\ l = Len(c) /\ \A k \in 1 .. l : c[k] \in Byte
    BY LenProperties
  <1>2. m = IF from + size <= l THEN from + size ELSE l
    <2> DEFINE a == from + size
               b == IF a <= l THEN a ELSE l
               T == {a, l}
    <2>1. a \in Nat /\ b \in T /\ \A y \in T : b <= y
      BY <1>0, <1>1
    <2>2. \A x \in T : (\A y \in T : x <= y) => x = b
      BY <1>0, <1>1, <2>1
    <2> HIDE DEF a, b
    <2>3. (CHOOSE x \in T : \A y \in T : x <= y) = b
      BY <2>1, <2>2
    <2>. QED
      BY <2>3 DEF Min, a, b
  <1>3. bytes = SubSeq(c, from + 1, m)
    BY <1>0, <1>s
  <1> HIDE DEF l, m
  <1>4. m \in Nat /\ m <= l /\ from + 1 \in Int /\ m <= from + size
    BY <1>0, <1>1, <1>2
  <1>5. \A k \in from + 1 .. m : c[k] \in Byte
    BY <1>0, <1>1, <1>4
  <1>6. /\ bytes \in Seq(Byte) /\ Len(bytes) = IF from + 1 <= m THEN m - (from + 1) + 1 ELSE 0
        /\ \A i \in 1 .. m - (from + 1) + 1 : bytes[i] = c[from + 1 + i - 1]
    <2> DEFINE f == from + 1
    <2>1. m \in Int /\ f \in Int /\ \A k \in f .. m : c[k] \in Byte
      BY <1>0, <1>4, <1>5
    <2>2. bytes = SubSeq(c, f, m)
      BY <1>0, <1>3
    <2> HIDE DEF f
    <2>3. /\ SubSeq(c, f, m) \in Seq(Byte) /\ Len(SubSeq(c, f, m)) = IF f <= m THEN m - f + 1 ELSE 0
          /\ \A i \in 1 .. m - f + 1 : SubSeq(c, f, m)[i] = c[f + i - 1]
      BY <2>1, SubSeqProperties
    <2>4. /\ bytes \in Seq(Byte) /\ Len(bytes) = IF f <= m THEN m - f + 1 ELSE 0
          /\ \A i \in 1 .. m - f + 1 : bytes[i] = c[f + i - 1]
      BY <2>2, <2>3
    <2>. QED
      BY <2>4 DEF f
  <1>7. ASSUME Len(h) <= Len(c), h = SubSeq(c, 1, Len(h))
        PROVE  /\ Len(Cat(h, bytes)) <= Len(c)
               /\ Cat(h, bytes) = SubSeq(c, 1, Len(Cat(h, bytes)))
               /\ Len(bytes) < size => Cat(h, bytes) = c
    <2> DEFINE g == Cat(h, bytes)
               n == Len(g)
               x == Len(bytes)
    <2>1. from <= m
      BY <1>0, <1>1, <1>2, <1>7
    <2>a. x = IF from + 1 <= m THEN m - (from + 1) + 1 ELSE 0
      BY <1>0, <1>6
    <2>b. g \in Seq(Byte) /\ n = Len(h) + x
      BY <1>0, <1>6, CatIs, ZenonT(60)
    <2>c. n = from + x
      BY <1>0, <1>7, <2>b
    <2> HIDE DEF g, n, x
    <2>2. x = m - from
      BY <1>0, <1>4, <2>1, <2>a
    <2>4. n = m
      BY <1>0, <1>4, <2>2, <2>c
    <2>5. x < size => m = l
      BY <1>0, <1>1, <1>2, <1>4, <2>2
    <2>3. g \in Seq(Byte) /\ n = Len(g)
      BY <2>b DEF n
    <2> USE DEF g, x
    <2>6. \A k \in 1 .. m : g[k] = c[k]
      <3> SUFFICES ASSUME NEW k \in 1 .. m PROVE g[k] = c[k]
        OBVIOUS
      <3>a. k \in 1 .. Len(h) + Len(bytes)
        <4>1. Len(h) + Len(bytes) = m
          BY <1>0, <1>7, <2>4, <2>c
        <4>. QED
          BY <4>1
      <3>1. g[k] = IF k <= Len(h) THEN h[k] ELSE bytes[k - Len(h)]
        BY <1>0, <1>6, <3>a, ConcatProperties DEF Cat
      <3> HIDE DEF g
      <3>2. CASE k <= from
        <4>1. k \in 1 .. from - 1 + 1 /\ 1 + k - 1 = k
          BY <1>0, <1>4, <3>2
        <4>2. \A i \in 1 .. from : c[i] \in Byte
          BY <1>0, <1>1, <1>4, <2>1
        <4>0. 1 \in Int /\ from \in Int
          BY <1>0
        <4>3. SubSeq(c, 1, from)[k] = c[1 + k - 1]
          BY <4>0, <4>1, <4>2, SubSeqProperties
        <4>. QED
          BY <1>0, <1>7, <3>1, <3>2, <4>1, <4>3
      <3>3. CASE ~ (k <= from)
        <4>1. k - from \in 1 .. m - (from + 1) + 1 /\ from + 1 + (k - from) - 1 = k
          BY <1>0, <1>4, <3>3
        <4>. QED
          BY <1>0, <1>6, <1>7, <3>1, <3>3, <4>1
      <3>. QED
        BY <3>2, <3>3
    <2>7. \A i \in 1 .. m : c[i] \in Byte
      BY <1>0, <1>1, <1>4
    <2>8. SubSeq(c, 1, m) \in Seq(Byte) /\ Len(SubSeq(c, 1, m)) = m /\ \A i \in 1 .. m : SubSeq(c, 1, m)[i] = c[i]
      <3>1. m \in Int /\ 1 \in Int /\ m - 1 + 1 = m /\ (IF 1 <= m THEN m - 1 + 1 ELSE 0) = m
        BY <1>0, <1>4
      <3>2. \A i \in 1 .. m : 1 + i - 1 = i
        OBVIOUS
      <3>. QED
        BY <2>7, <3>1, <3>2, SubSeqProperties
    <2>9. g = SubSeq(c, 1, m)
      <3> HIDE DEF g
      <3> DEFINE q == SubSeq(c, 1, m)
      <3>1. q \in Seq(Byte) /\ Len(q) = Len(g) /\ \A i \in 1 .. Len(g) : g[i] = q[i]
        BY <2>3, <2>4, <2>6, <2>8
      <3> HIDE DEF q
      <3>2. g = q
        BY <2>3, <3>1, SeqEqual
      <3>. QED
        BY <3>2 DEF q
    <2> HIDE DEF g, x
    <2>10. Len(g) <= Len(c) /\ g = SubSeq(c, 1, Len(g)) /\ (x < size => g = c)
      <3>1. SubSeq(c, 1, l) = c
        BY <1>1, SubSeqFull
      <3>2. x < size => g = c
        BY <2>5, <2>9, <3>1
      <3>. QED
        BY <1>0, <1>1, <1>4, <2>3, <2>4, <2>9, <3>2
    <2>. QED
      BY <2>10 DEF g, x
  <1>. QED
    BY <1>6, <1>7 DEF Leads

\* emit_valid_utf8 and the tokenizer it feeds preserve what is known of the
\* bytes read, or fail for a reason.
LEMMA EmitStep ==
  ASSUME TextType, NEW d \in Seq(Byte), Reading(d), NEW bytes \in Seq(Byte),
         NEW final \in BOOLEAN, final => bytes = <<>>, NEW next,
         EmitValid(bytes, final, next), hashed' = Cat(hashed, bytes), rejecting' = rejecting
  PROVE  /\ pending' \in [bytes : Seq(Byte), offset : Nat]
         /\ \/ pc' = "failed" /\ Faults'
            \/ /\ pc' = next /\ error' = error
               /\ ~ final => \E e \in Seq(Byte) : Reading(e)'
               /\ final => Whole'
  <1> DEFINE p == pending.bytes
             input == Cat(p, bytes)
             r == Scan(input, final)
             s0 == [token |-> token, tokens |-> tokens, long |-> FALSE]
             pushed == Pushed(s0, r.text)
             done == IF final THEN Emit(pushed) ELSE pushed
             bad == rejecting /\ r.invalid # <<>>
  <1>1. /\ bad => /\ pc' = "failed"
                  /\ error' = [reason |-> "invalid", offset |-> BaseOffset + r.invalid[1] - 1]
                  /\ pending' = pending
        /\ ~ bad => /\ output' = output \o r.text
                    /\ invalid' = invalid + Len(r.invalid)
                    /\ pending' = [bytes |-> r.rest,
                                   offset |-> IF r.rest = <<>> THEN 0
                                              ELSE BaseOffset + Len(input) - Len(r.rest)]
                    /\ token' = done.token /\ tokens' = done.tokens
                    /\ IF pushed.long
                       THEN pc' = "failed" /\ error' = [reason |-> "long", offset |-> 0]
                       ELSE pc' = next /\ error' = error
    BY DEF EmitValid, Fail, Push, Cat
  <1>2. /\ hashed = Cat(d, p)
        /\ output = DecodedText(d) /\ invalid = Cardinality(BadUnits(d))
        /\ p = <<>> \/ (Kept(p, FALSE) /\ pending.offset = Len(d))
        /\ rejecting => BadUnits(d) = {}
        /\ Settled(d, p, FALSE)
        /\ s0 = Pushed(Start, d)
    BY DEF Reading
  <1>3. p \in Seq(Byte) /\ pending \in [bytes : Seq(Byte), offset : Nat] /\ rejecting \in BOOLEAN
    BY DEF TextType
  <1> HIDE DEF p, s0
  <1>r. r = Scan(Cat(p, bytes), final)
    OBVIOUS
  <1> HIDE DEF r
  <1>4. r \in ScanResult
    BY <1>2, <1>3, <1>r, ReadOn
  <1>a. PICK v \in Seq(Byte) : Advanced(d, p, bytes, final, r, v)
    BY <1>2, <1>3, <1>r, ReadOn
  <1>5. /\ Cat(p, bytes) = Cat(v, r.rest) /\ r.text = DecodedText(v)
        /\ Cat(Cat(d, p), bytes) = Cat(Cat(d, v), r.rest)
        /\ DecodedText(Cat(d, v)) = Cat(DecodedText(d), r.text)
        /\ Cardinality(BadUnits(Cat(d, v))) = Cardinality(BadUnits(d)) + Len(r.invalid)
        /\ BadUnits(d) = {} /\ r.invalid = <<>> => BadUnits(Cat(d, v)) = {}
        /\ BadUnits(d) = {} /\ r.invalid # <<>> =>
             FirstBad(Cat(Cat(d, p), bytes)) = Len(d) + r.invalid[1] - 1
        /\ Settled(Cat(d, v), r.rest, final)
        /\ r.rest = <<>> \/ Kept(r.rest, final)
    BY <1>a DEF Advanced
  <1> DEFINE e == Cat(d, v)
  <1>6. r.rest \in Seq(Byte)
    BY <1>4 DEF ScanResult
  <1>7. /\ input = Cat(v, r.rest) /\ hashed' = Cat(e, r.rest) /\ output = DecodedText(d)
        /\ e \in Seq(Byte) /\ Len(e) = Len(d) + Len(v)
        /\ Len(input) = Len(v) + Len(r.rest)
        /\ Len(d) \in Nat /\ Len(v) \in Nat /\ Len(r.rest) \in Nat
    <2>1. e \in Seq(Byte) /\ Len(e) = Len(d) + Len(v) /\ Len(d) \in Nat /\ Len(v) \in Nat
      BY CatIs
    <2>2. Len(Cat(v, r.rest)) = Len(v) + Len(r.rest) /\ Len(r.rest) \in Nat
      BY ONLY v \in Seq(Byte), <1>6, CatIs, ZenonT(60)
    <2> HIDE DEF e
    <2>3. input = Cat(v, r.rest) /\ hashed' = Cat(e, r.rest)
      BY <1>2, <1>5 DEF e
    <2>. QED
      BY <1>2, <2>1, <2>2, <2>3
  <1>8. BaseOffset = Len(d)
    <2>1. CASE p = <<>>
      <3>1. hashed = d
        BY <1>2, <2>1, CatIs
      <3>. QED
        BY <2>1, <3>1 DEF BaseOffset, p
    <2>2. CASE p # <<>>
      BY <1>2, <2>2 DEF BaseOffset, p
    <2>. QED
      BY <2>1, <2>2
  <1>9. pushed = Pushed(Start, e)
    <2>1. Start \in Tokenizer
      BY StartIs
    <2>2. s0 \in Tokenizer
      BY <1>2, <2>1, PushedIs
    <2>3. pushed = Pushed(s0, v)
      BY <1>5, <2>2, PushedDecoded
    <2>4. Pushed(Start, Cat(d, v)) = Pushed(Pushed(Start, d), v)
      BY <2>1, PushedConcat
    <2>. QED
      BY <1>2, <2>3, <2>4
  <1>10. Pushed(Start, e) \in Tokenizer
    BY <1>7, StartIs, PushedIs
  <1>11. final => r.rest = <<>>
    BY <1>5, <1>6, KeptIs
  <1>b. /\ DecodedText(e) = Cat(DecodedText(d), r.text)
        /\ Cardinality(BadUnits(e)) = Cardinality(BadUnits(d)) + Len(r.invalid)
        /\ BadUnits(d) = {} /\ r.invalid = <<>> => BadUnits(e) = {}
        /\ BadUnits(d) = {} /\ r.invalid # <<>> => FirstBad(hashed') = Len(d) + r.invalid[1] - 1
        /\ Settled(e, r.rest, final)
        /\ r.rest = <<>> \/ Kept(r.rest, final)
    BY <1>2, <1>5
  <1> HIDE DEF input, r, pushed, e
  <1>12. CASE bad
    <2>1. FirstBad(hashed') = Len(d) + r.invalid[1] - 1
      BY <1>2, <1>b, <1>12
    <2>2. error'.reason = "invalid" /\ error'.offset = Len(d) + r.invalid[1] - 1
      BY <1>1, <1>8, <1>12
    <2>3. Faults'
      BY <1>12, <2>1, <2>2 DEF Faults
    <2>. QED
      BY <1>1, <1>3, <1>12, <2>3
  <1>13. CASE ~ bad
    <2> DEFINE place == IF r.rest = <<>> THEN 0 ELSE BaseOffset + Len(input) - Len(r.rest)
    <2>1. place = IF r.rest = <<>> THEN 0 ELSE Len(e)
      <3> DEFINE a == Len(d)
                 b == Len(v)
                 c == Len(r.rest)
      <3>1. a \in Nat /\ b \in Nat /\ c \in Nat /\ Len(input) = b + c /\ Len(e) = a + b /\ BaseOffset = a
        BY <1>7, <1>8
      <3> HIDE DEF a, b, c
      <3>2. a + (b + c) - c = a + b
        BY <3>1
      <3>. QED
        BY <3>1, <3>2 DEF c
    <2>2. place \in Nat
      <3>1. Len(e) \in Nat
        BY <1>7, LenProperties
      <3>. QED
        BY <2>1, <3>1
    <2>3. pending' = [bytes |-> r.rest, offset |-> place]
      BY <1>1, <1>13
    <2> HIDE DEF place
    <2>4. pending' \in [bytes : Seq(Byte), offset : Nat] /\ pending'.bytes = r.rest /\ pending'.offset = place
      BY <1>6, <2>2, <2>3
    <2>5. output' = DecodedText(e) /\ invalid' = Cardinality(BadUnits(e))
      BY <1>1, <1>2, <1>b, <1>13 DEF Cat
    <2>6. rejecting' => BadUnits(e) = {}
      BY <1>2, <1>b, <1>13
    <2>7. CASE pushed.long
      <3>1. LongRun(e)
        BY <1>7, <1>9, <2>7, TokensOfText
      <3>2. LongRun(hashed')
        BY <1>6, <1>7, <3>1, LongRunStays
      <3>3. pc' = "failed" /\ error'.reason = "long"
        BY <1>1, <1>13, <2>7
      <3>. QED
        BY <2>4, <3>2, <3>3 DEF Faults
    <2>8. CASE ~ pushed.long
      <3>1. pc' = next /\ error' = error /\ token' = done.token /\ tokens' = done.tokens
        BY <1>1, <1>13, <2>8
      <3>2. ASSUME ~ final PROVE Reading(e)'
        <4>1. token' = pushed.token /\ tokens' = pushed.tokens /\ pushed.long = FALSE
          BY <1>9, <1>10, <2>8, <3>1, <3>2 DEF Tokenizer
        <4>2. pushed = [token |-> token', tokens |-> tokens', long |-> FALSE]
          BY <1>9, <1>10, <4>1 DEF Tokenizer
        <4>3. Settled(e, pending'.bytes, FALSE)
          <5>1. final = FALSE
            BY <3>2
          <5>. QED
            BY <1>b, <2>4, <5>1
        <4>4. pending'.bytes # <<>> => Kept(pending'.bytes, FALSE) /\ pending'.offset = Len(e)
          <5>1. final = FALSE
            BY <3>2
          <5>. QED
            BY <1>b, <2>1, <2>4, <5>1
        <4>5. hashed' = Cat(e, pending'.bytes)
          BY <1>7, <2>4
        <4>. QED
          BY <1>9, <2>5, <2>6, <4>2, <4>3, <4>4, <4>5 DEF Reading
      <3>3. ASSUME final PROVE Whole'
        <4>1. r.rest = <<>> /\ hashed' = e
          BY <1>7, <1>11, <3>3, CatIs
        <4>2. tokens' = Emit(pushed).tokens
          BY <3>1, <3>3
        <4>. QED
          BY <1>9, <2>4, <2>5, <2>6, <2>8, <4>1, <4>2 DEF Whole
      <3>. QED
        BY <1>7, <2>4, <3>1, <3>2, <3>3
    <2>. QED
      BY <2>7, <2>8
  <1>. QED
    BY <1>12, <1>13

-----------------------------------------------------------------------------
(* Its steps. *)

\* Nothing is read at first (parse_document).
LEMMA TextInit == Init => TextInv
  <1> SUFFICES ASSUME Init PROVE TextInv
    OBVIOUS
  <1>1. content \in Seq(Byte) /\ chunk \in Nat \ {0}
    BY TextAssumption DEF Init
  <1>2. /\ modified = 0 /\ rejecting \in BOOLEAN
        /\ pc = "start" /\ before = [size |-> 0, time |-> 0]
        /\ hashed = <<>> /\ pending = [bytes |-> <<>>, offset |-> 0] /\ output = <<>> /\ invalid = 0
        /\ token = <<>> /\ tokens = <<>>
    BY DEF Init
  <1>3. <<>> \in Seq(Byte) /\ <<>> \in Seq(Seq(Byte))
    BY EmptySeq
  <1>4. TextType
    BY <1>1, <1>2, <1>3 DEF TextType
  <1>5. Versions
    BY <1>2 DEF Versions
  <1>6. Reading(<<>>)
    <2>1. pending.bytes = <<>> /\ Cat(<<>>, <<>>) = <<>>
      BY <1>2, <1>3, CatIs
    <2>2. Units[<<>>] = <<>> /\ \A s \in Seq(Byte) : Units[s] \in Seq(Seq(Byte))
      BY UnitsEquation
    <2>3. DecodedText(<<>>) = <<>>
      BY <1>3, <2>2, OfUnits, TextOne
    <2>4. BadUnits(<<>>) = {}
      <3>1. DOMAIN <<>> = {}
        OBVIOUS
      <3>. QED
        BY <2>2, <3>1 DEF BadUnits
    <2>5. Cardinality({}) = 0
      BY FS_EmptySet
    <2>6. Settled(<<>>, <<>>, FALSE)
      <3> SUFFICES ASSUME NEW y \in Seq(Byte)
                   PROVE  Units[Cat(<<>>, Cat(<<>>, y))] = Cat(Units[<<>>], Units[Cat(<<>>, y)])
        BY DEF Settled
      <3>1. Cat(<<>>, y) = y
        BY CatIs
      <3>2. Cat(<<>>, Units[y]) = Units[y]
        BY <2>2, CatIs
      <3>. QED
        BY <2>2, <3>1, <3>2
    <2>7. Pushed(Start, <<>>) = Start
      BY StartIs, PushedIs
    <2>8. [token |-> token, tokens |-> tokens, long |-> FALSE] = Start
      BY <1>2 DEF Start
    <2>. QED
      BY <1>2, <2>1, <2>3, <2>4, <2>5, <2>6, <2>7, <2>8 DEF Reading
  <1>. QED
    BY <1>2, <1>3, <1>4, <1>5, <1>6 DEF TextInv

\* Steps that leave the parse alone.
LEMMA ReadingKept ==
  ASSUME NEW d \in Seq(Byte),
         UNCHANGED <<rejecting, hashed, pending, output, invalid, token, tokens>>
  PROVE  Reading(d)' <=> Reading(d)
  BY DEF Reading

\* ... also after the final pass.
LEMMA WholeKept ==
  ASSUME UNCHANGED <<rejecting, hashed, pending, output, invalid, token, tokens>>
  PROVE  Whole' <=> Whole
  BY DEF Whole

\* The first read_metadata preserves the invariant.
LEMMA MetadataStep ==
  ASSUME TextInv, ReadMetadata PROVE TextInv'
  <1>1. /\ pc = "start" /\ before' = Metadata /\ pc' = "read"
        /\ UNCHANGED <<content, modified, chunk, rejecting, hashed, pending, output, invalid,
                       token, tokens, error>>
    BY DEF ReadMetadata
  <1>2. TextType /\ Versions /\ \E d \in Seq(Byte) : Reading(d)
    BY <1>1 DEF TextInv
  <1>3. Len(content) \in Nat
    BY <1>2, LenProperties DEF TextType
  <1>4. TextType'
    BY <1>1, <1>2, <1>3 DEF TextType, Metadata
  <1>5. Versions'
    <2>1. hashed' = <<>> /\ content' = content /\ modified' = modified
      BY <1>1, <1>2 DEF Versions
    <2>2. Len(<<>>) = 0 /\ SubSeq(content, 1, 0) = <<>>
      BY SubSeqEmpty
    <2>3. before'.time = modified' /\ before'.size = Len(content')
      BY <1>1, <2>1 DEF Metadata
    <2>4. modified \in Nat
      BY <1>2 DEF TextType
    <2>. QED
      BY <1>1, <1>3, <2>1, <2>2, <2>3, <2>4 DEF Versions, Leads
  <1>6. \E d \in Seq(Byte) : Reading(d)'
    BY <1>1, <1>2, ReadingKept
  <1>. QED
    BY <1>1, <1>4, <1>5, <1>6 DEF TextInv

\* So does a pass of the loop of TextReader::read.
LEMMA ChunkStep ==
  ASSUME TextInv, ReadChunk PROVE TextInv'
  <1> DEFINE from == Len(hashed)
             bytes == SubSeq(content, from + 1, Min({from + chunk, Len(content)}))
             next == IF Len(bytes) < chunk THEN "finish" ELSE "read"
  <1>1. /\ pc = "read" /\ hashed' = hashed \o bytes /\ EmitValid(bytes, FALSE, next)
        /\ UNCHANGED <<content, modified, chunk, rejecting, before>>
    BY DEF ReadChunk
  <1>2. TextType /\ Versions
    BY <1>1 DEF TextInv
  <1>d. PICK d \in Seq(Byte) : Reading(d)
    BY <1>1 DEF TextInv
  <1>3. /\ content \in Seq(Byte) /\ hashed \in Seq(Byte) /\ from \in Nat /\ chunk \in Nat \ {0}
        /\ Len(content) \in Nat
    BY <1>2, LenProperties DEF TextType
  <1>5. next \in {"finish", "read"} /\ (next = "finish" => Len(bytes) < chunk)
    OBVIOUS
  <1>s. bytes = SubSeq(content, Len(hashed) + 1, Min({Len(hashed) + chunk, Len(content)}))
    OBVIOUS
  <1> HIDE DEF from, bytes, next
  <1>6. bytes \in Seq(Byte)
    BY <1>3, <1>s, ChunkIs
  <1>7. /\ pending' \in [bytes : Seq(Byte), offset : Nat]
        /\ \/ pc' = "failed" /\ Faults'
           \/ pc' = next /\ \E e \in Seq(Byte) : Reading(e)'
    BY <1>1, <1>2, <1>6, <1>d, EmitStep DEF Cat
  <1>8. hashed' \in Seq(Byte) /\ hashed' = Cat(hashed, bytes)
    BY <1>1, <1>3, <1>6, ConcatProperties DEF Cat
  <1>9. pc' \in {"failed", "finish", "read"}
    BY <1>5, <1>7
  <1>10. TextType'
    BY <1>1, <1>2, <1>7, <1>8, <1>9 DEF TextType
  <1>11. Versions'
    <2>1. before'.time <= modified'
      BY <1>1, <1>2 DEF Versions
    <2>2. ASSUME pc' # "failed", before.time = modified
          PROVE  /\ before.size = Len(content) /\ Leads(hashed', content)
                 /\ pc' = "finish" => hashed' = content
      <3>1. before.size = Len(content) /\ Leads(hashed, content)
        BY <1>1, <1>2, <2>2 DEF Versions
      <3>2. pc' = "finish" => Len(bytes) < chunk
        BY <1>5, <1>7, <2>2
      <3>3. Leads(Cat(hashed, bytes), content) /\ (Len(bytes) < chunk => Cat(hashed, bytes) = content)
        <4>1. Leads(hashed, content)
          BY <3>1
        <4>2. /\ content \in Seq(Byte) /\ hashed \in Seq(Byte) /\ chunk \in Nat \ {0}
              /\ bytes = SubSeq(content, Len(hashed) + 1, Min({Len(hashed) + chunk, Len(content)}))
          BY ONLY <1>3, <1>s
        <4>3. Leads(hashed, content) =>
                /\ Leads(Cat(hashed, bytes), content)
                /\ Len(bytes) < chunk => Cat(hashed, bytes) = content
          BY ONLY <4>2, ChunkIs, ZenonT(60)
        <4>. QED
          BY ONLY <4>1, <4>3, Zenon
      <3>. QED
        BY <1>8, <3>1, <3>2, <3>3
    <2>3. pc' # "start" /\ pc' # "check" /\ pc' # "parsed"
      BY <1>9
    <2>4. before' = before /\ modified' = modified /\ content' = content
      BY <1>1
    <2>. QED
      BY <2>1, <2>2, <2>3, <2>4 DEF Versions
  <1>12. pc' = "failed" => Faults'
    BY <1>5, <1>7
  <1>13. pc' \in {"start", "read", "finish"} => \E e \in Seq(Byte) : Reading(e)'
    BY <1>7
  <1>14. pc' \notin {"check", "parsed"}
    BY <1>9
  <1>. QED
    BY <1>10, <1>11, <1>12, <1>13, <1>14 DEF TextInv

\* So does the final emit_valid_utf8 with TokenizerSession::finish.
LEMMA FinishStep ==
  ASSUME TextInv, Finish PROVE TextInv'
  <1>1. /\ pc = "finish" /\ EmitValid(<<>>, TRUE, "check")
        /\ UNCHANGED <<content, modified, chunk, rejecting, before, hashed>>
    BY DEF Finish
  <1>2. TextType /\ Versions
    BY <1>1 DEF TextInv
  <1>d. PICK d \in Seq(Byte) : Reading(d)
    BY <1>1 DEF TextInv
  <1>3. hashed \in Seq(Byte) /\ <<>> \in Seq(Byte)
    BY <1>2, EmptySeq DEF TextType
  <1>4. hashed' = Cat(hashed, <<>>)
    BY <1>1, <1>3, CatIs
  <1>5. /\ pending' \in [bytes : Seq(Byte), offset : Nat]
        /\ \/ pc' = "failed" /\ Faults'
           \/ pc' = "check" /\ Whole'
    BY <1>1, <1>2, <1>3, <1>4, <1>d, EmitStep
  <1>6. TextType'
    BY <1>1, <1>2, <1>5 DEF TextType
  <1>7. Versions'
    BY <1>1, <1>2, <1>5 DEF Versions
  <1>. QED
    BY <1>5, <1>6, <1>7 DEF TextInv

\* So does the second read_metadata, which only an edit fails.
LEMMA CheckStep ==
  ASSUME TextInv, CheckMetadata PROVE TextInv'
  <1>1. /\ pc = "check"
        /\ IF Changed THEN pc' = "failed" /\ error' = [reason |-> "changed", offset |-> 0]
           ELSE pc' = "parsed"
        /\ UNCHANGED <<content, modified, chunk, rejecting, before, hashed, pending, output,
                       invalid, token, tokens>>
    BY DEF CheckMetadata, Fail
  <1>2. TextType /\ Versions /\ Whole
    BY <1>1 DEF TextInv
  <1>3. TextType'
    BY <1>1, <1>2 DEF TextType
  <1>4. Whole'
    BY <1>1, <1>2, WholeKept
  <1>5. before = [size |-> before.size, time |-> before.time] /\ before.time \in Nat /\ modified \in Nat
    BY <1>2 DEF TextType
  <1>6. CASE Changed
    <2>1. modified > 0
      <3>1. ASSUME modified = 0 PROVE FALSE
        <4>1. before.time = modified
          BY <1>2, <1>5, <3>1 DEF Versions
        <4>2. before.size = Len(content) /\ Len(hashed) = Len(content)
          BY <1>1, <1>2, <4>1 DEF Versions
        <4>. QED
          BY <1>5, <1>6, <4>1, <4>2 DEF Changed, Metadata
      <3>. QED
        BY <1>5, <3>1
    <2>2. Faults'
      BY <1>1, <1>6, <2>1 DEF Faults
    <2>3. Versions'
      BY <1>1, <1>2, <1>6 DEF Versions
    <2>. QED
      BY <1>1, <1>3, <1>6, <2>2, <2>3 DEF TextInv
  <1>7. CASE ~ Changed
    <2>1. before = Metadata /\ Len(hashed) = before.size
      BY <1>7 DEF Changed
    <2>2. before.time = modified /\ before.size = Len(content)
      BY <2>1 DEF Metadata
    <2>3. hashed = SubSeq(content, 1, Len(content))
      BY <1>1, <1>2, <2>1, <2>2 DEF Versions, Leads
    <2>4. content \in Seq(Byte)
      BY <1>2 DEF TextType
    <2>5. hashed = content
      BY <2>3, <2>4, SubSeqFull
    <2>6. Metadata' = Metadata
      BY <1>1 DEF Metadata
    <2>7. pc' = "parsed" /\ hashed' = content' /\ before' = Metadata' /\ before'.time <= modified'
      BY <1>1, <1>2, <1>7, <2>1, <2>5, <2>6 DEF Versions
    <2>8. Versions'
      BY <2>7 DEF Versions
    <2>. QED
      BY <1>3, <1>4, <2>7, <2>8 DEF TextInv
  <1>. QED
    BY <1>6, <1>7

\* So does a write of the editor, since it moves the time of the file.
LEMMA EditStep ==
  ASSUME TextInv, Edit PROVE TextInv'
  <1>1. /\ pc \notin {"parsed", "failed"} /\ content' \in Rewrites /\ modified' = modified + 1
        /\ UNCHANGED <<chunk, rejecting, pc, before, hashed, pending, output, invalid, token,
                       tokens, error>>
    BY DEF Edit
  <1>2. TextType /\ Versions
    BY DEF TextInv
  <1>3. content' \in Seq(Byte)
    BY <1>1, TextAssumption
  <1>4. modified \in Nat /\ before.time \in Nat
    BY <1>2 DEF TextType
  <1>5. TextType'
    BY <1>1, <1>2, <1>3, <1>4 DEF TextType
  <1>6. before'.time <= modified' /\ before'.time # modified'
    BY <1>1, <1>2, <1>4 DEF Versions
  <1>7. Versions'
    BY <1>1, <1>2, <1>6 DEF Versions
  <1>8. pc' \in {"start", "read", "finish"} => \E d \in Seq(Byte) : Reading(d)'
    BY <1>1, ReadingKept DEF TextInv
  <1>9. pc' \in {"check", "parsed"} => Whole'
    BY <1>1, WholeKept DEF TextInv
  <1>. QED
    BY <1>1, <1>5, <1>7, <1>8, <1>9 DEF TextInv

\* So does a step in which nothing happens.
LEMMA StutterStep ==
  ASSUME TextInv, UNCHANGED vars PROVE TextInv'
  <1>1. UNCHANGED <<content, modified, chunk, rejecting, pc, before, hashed, pending, output, invalid,
                    token, tokens, error>>
    BY DEF vars
  <1>2. TextType' /\ Versions'
    BY <1>1 DEF TextInv, TextType, Versions, Metadata
  <1>3. pc' \in {"start", "read", "finish"} => \E d \in Seq(Byte) : Reading(d)'
    BY <1>1, ReadingKept DEF TextInv
  <1>4. pc' \in {"check", "parsed"} => Whole'
    BY <1>1, WholeKept DEF TextInv
  <1>5. pc' = "failed" => Faults'
    BY <1>1 DEF TextInv, Faults
  <1>. QED
    BY <1>2, <1>3, <1>4, <1>5 DEF TextInv

\* So does every step (parse_document).
LEMMA TextNext == TextInv /\ [Next]_vars => TextInv'
  BY MetadataStep, ChunkStep, FinishStep, CheckStep, EditStep, StutterStep DEF Next

-----------------------------------------------------------------------------
(* Theorems. *)

\* The parse of every file, in chunks of every size, with an editor that may
\* write at any time, satisfies the inductive invariant (parse_document).
THEOREM TextInvariant == Spec => []TextInv
  BY TextInit, TextNext, PTL DEF Spec

\* The text does not depend on the chunks (emit_valid_utf8, Utf8State).
LEMMA SameText == TextInv => TextIndependentOfChunks
  <1> SUFFICES ASSUME TextInv PROVE TextIndependentOfChunks
    OBVIOUS
  <1> DEFINE done == SubSeq(hashed, 1, Len(hashed) - Len(pending.bytes))
  <1>1. hashed \in Seq(Byte) /\ pending.bytes \in Seq(Byte) /\ Versions
    BY DEF TextInv, TextType
  <1>2. ASSUME pc \in {"start", "read", "finish"}
        PROVE  /\ hashed = done \o pending.bytes
               /\ output = DecodedText(done) /\ invalid = Cardinality(BadUnits(done))
               /\ pending.bytes # <<>> =>
                    /\ Begins(pending.bytes) /\ ~ WellFormed(pending.bytes)
                    /\ Len(pending.bytes) <= 3 /\ pending.offset = Len(done)
    <2>1. PICK d \in Seq(Byte) : Reading(d)
      BY <1>2 DEF TextInv
    <2> DEFINE p == pending.bytes
               l == Len(hashed)
    <2>2. hashed = Cat(d, p) /\ p \in Seq(Byte)
      BY <1>1, <2>1 DEF Reading
    <2> HIDE DEF p, l
    <2>3. Len(hashed) = Len(d) + Len(p) /\ Len(d) \in Nat /\ Len(p) \in Nat
      BY <2>2, CatIs
    <2>4. Len(hashed) - Len(p) = Len(d)
      <3> DEFINE a == Len(d)
                 b == Len(p)
                 c == Len(hashed)
      <3>1. a \in Nat /\ b \in Nat /\ c = a + b
        BY <2>3
      <3> HIDE DEF a, b, c
      <3>2. c - b = a
        BY <3>1
      <3>. QED
        BY <3>2 DEF a, b, c
    <2>5. SubSeq(hashed, 1, Len(d)) = d
      BY <2>2, CutApart DEF Cat
    <2>6. done = d
      BY <2>4, <2>5 DEF p
    <2>7. ASSUME p # <<>> PROVE Begins(p) /\ ~ WellFormed(p) /\ Len(p) <= 3 /\ pending.offset = Len(d)
      <3>1. Kept(p, FALSE) /\ pending.offset = Len(d)
        BY <2>1, <2>7 DEF Reading, p
      <3>2. Kept(p, FALSE) => Len(p) \in 1 .. 3 /\ Begins(p) /\ ~ WellFormed(p)
        BY <2>2, <2>7, KeptIs
      <3>3. Len(p) <= 3
        <4> DEFINE m == Len(p)
        <4>1. m \in 1 .. 3
          BY <3>1, <3>2
        <4> HIDE DEF m
        <4>2. m <= 3
          BY <4>1
        <4>. QED
          BY <4>2 DEF m
      <3>. QED
        BY ONLY <3>1, <3>2, <3>3
    <2> HIDE DEF done
    <2>. QED
      BY <2>1, <2>2, <2>6, <2>7 DEF Reading, Cat, p
  <1>3. ASSUME pc \in {"check", "parsed"}
        PROVE  /\ hashed = done \o pending.bytes
               /\ output = DecodedText(done) /\ invalid = Cardinality(BadUnits(done))
               /\ pending.bytes = <<>> /\ output = DecodedText(hashed)
    <2>1. /\ pending.bytes = <<>> /\ output = DecodedText(hashed)
          /\ invalid = Cardinality(BadUnits(hashed))
      BY <1>3 DEF TextInv, Whole
    <2>2. Len(hashed) - Len(<<>>) = Len(hashed)
      BY <1>1, LenProperties
    <2>3. done = hashed
      BY <1>1, <2>1, <2>2, SubSeqFull
    <2>4. hashed \o <<>> = hashed
      BY <1>1, ConcatEmptySeq
    <2> HIDE DEF done
    <2>. QED
      BY <2>1, <2>3, <2>4
  <1>4. pc = "parsed" => hashed = content
    BY <1>1 DEF Versions
  <1>5. pc \in {"start", "read", "finish", "check", "parsed", "failed"}
    BY DEF TextInv, TextType
  <1>. QED
    BY <1>2, <1>3, <1>4, <1>5 DEF TextIndependentOfChunks

\* The tokens are the runs, of one version, and failures have reasons
\* (TokenizerSession, parse_document).
LEMMA RunsFound == TextInv => TokensAreRuns /\ OneVersion /\ FailsForItsFaults
  <1> SUFFICES ASSUME TextInv PROVE TokensAreRuns /\ OneVersion /\ FailsForItsFaults
    OBVIOUS
  <1>1. hashed \in Seq(Byte)
    BY DEF TextInv, TextType
  <1>2. OneVersion
    BY DEF TextInv, Versions, OneVersion
  <1>3. ASSUME pc = "parsed"
        PROVE  /\ AreRuns(tokens, content) /\ ~ LongRun(content)
               /\ rejecting => BadUnits(content) = {}
    <2>1. hashed = content /\ Whole
      BY <1>3 DEF TextInv, Versions
    <2>2. /\ rejecting => BadUnits(hashed) = {}
          /\ ~ Pushed(Start, hashed).long /\ tokens = Emit(Pushed(Start, hashed)).tokens
      BY <2>1 DEF Whole
    <2>3. ~ LongRun(hashed) /\ AreRuns(tokens, hashed)
      BY <1>1, <2>2, TokensOfText
    <2>. QED
      BY <2>1, <2>2, <2>3
  <1>4. ASSUME pc = "failed"
        PROVE  CASE error.reason = "invalid" -> rejecting /\ error.offset = FirstBad(hashed)
                 [] error.reason = "long" -> LongRun(hashed)
                 [] error.reason = "changed" -> modified > 0
    <2>1. Faults
      BY <1>4 DEF TextInv
    <2>. QED
      BY <2>1 DEF Faults
  <1>. QED
    BY <1>2, <1>3, <1>4 DEF TokensAreRuns, FailsForItsFaults

\* Whatever the file contains and however long the chunks are, what was
\* handed on is the text of the bytes read but for at most three, which begin
\* a sequence; a parsed file has the text of its content as a whole
\* (emit_valid_utf8, Utf8State).
THEOREM ChunksDoNotMatter == Spec => []TextIndependentOfChunks
  BY TextInvariant, SameText, PTL

\* The tokens of a parsed file are the runs of token characters of its
\* content, for every content, chunk size and length limit (TokenizerSession).
THEOREM TokensAreTheRuns == Spec => []TokensAreRuns
  BY TextInvariant, RunsFound, PTL

\* A parsed file was read in one version, whenever the editor writes
\* (parse_document).
THEOREM ParsedInOneVersion == Spec => []OneVersion
  BY TextInvariant, RunsFound, PTL

\* A file fails for its own fault, reported where it is, and no file with a
\* fault is parsed (InvalidUtf8Error, "token exceeds maximum length").
THEOREM FailuresHaveReasons == Spec => []FailsForItsFaults
  BY TextInvariant, RunsFound, PTL
=============================================================================
