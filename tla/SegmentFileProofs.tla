------------------------- MODULE SegmentFileProofs --------------------------
(***************************************************************************)
(* Theorems about SegmentFile, for every index and every file: there is    *)
(* one encoding of an index, and what the writer writes the reader reads   *)
(* back.  The lemmas before them are about totals, flattened sequences     *)
(* and orders.                                                             *)
(***************************************************************************)
EXTENDS SegmentFile, SumLemmas

-----------------------------------------------------------------------------
(* Totals of the first n numbers. *)

SumStep(g, s, k) == IF k = 0 THEN 0 ELSE g[k - 1] + s[k]

IsUpTo(g, s, n) == g = [k \in 0 .. n |-> SumStep(g, s, k)]

UpTo(s, n) == CHOOSE g : IsUpTo(g, s, n)

\* The recursive function behind SumTo is a function.
LEMMA UpToExists ==
  ASSUME NEW s, NEW n \in Nat
  PROVE  \E g : IsUpTo(g, s, n)
  <1> DEFINE T == {m \in Nat : \E g : IsUpTo(g, s, m)}
  <1>1. 0 \in T
    <2> DEFINE g == [k \in 0 .. 0 |-> 0]
    <2>1. \A k \in 0 .. 0 : g[k] = SumStep(g, s, k)
      BY DEF SumStep
    <2>2. g = [k \in 0 .. 0 |-> SumStep(g, s, k)]
      BY DEF SumStep
    <2> HIDE DEF g
    <2>. QED
      BY <2>2 DEF IsUpTo
  <1>2. ASSUME NEW m \in Nat, m \in T PROVE m + 1 \in T
    <2>1. PICK g : IsUpTo(g, s, m)
      BY <1>2
    <2> DEFINE h == [k \in 0 .. (m + 1) |-> IF k <= m THEN g[k] ELSE SumStep(g, s, k)]
    <2>2. \A k \in 0 .. m : g[k] = SumStep(g, s, k)
      BY <2>1 DEF IsUpTo
    <2>3. \A k \in 0 .. (m + 1) : h[k] = SumStep(g, s, k)
      BY <2>2
    <2>4. \A k \in 0 .. m : h[k] = g[k]
      OBVIOUS
    <2>5. h = [k \in 0 .. (m + 1) |-> h[k]]
      OBVIOUS
    <2> HIDE DEF h
    <2>6. \A k \in 0 .. (m + 1) : k # 0 => k - 1 \in 0 .. m
      OBVIOUS
    <2>7. \A k \in 0 .. (m + 1) : SumStep(g, s, k) = SumStep(h, s, k)
      BY <2>4, <2>6 DEF SumStep
    <2>8. IsUpTo(h, s, m + 1)
      BY <2>3, <2>5, <2>7 DEF IsUpTo
    <2>. QED
      BY <2>8
  <1> HIDE DEF T
  <1>3. n \in T
    BY <1>1, <1>2, NatInductive
  <1>. QED
    BY <1>3 DEF T

\* ... and SumTo is its last value.
LEMMA UpToRec ==
  ASSUME NEW s, NEW n \in Nat
  PROVE  /\ SumTo(s, n) = UpTo(s, n)[n]
         /\ \A k \in 0 .. n : UpTo(s, n)[k] = SumStep(UpTo(s, n), s, k)
  <1>1. SumTo(s, n) = UpTo(s, n)[n]
    BY DEF SumTo, UpTo, IsUpTo, SumStep
  <1>2. IsUpTo(UpTo(s, n), s, n)
    BY UpToExists DEF UpTo
  <1>. QED
    BY <1>1, <1>2 DEF IsUpTo

\* How far a total is taken does not matter for the totals before.
LEMMA UpToAgree ==
  ASSUME NEW s, NEW n \in Nat, NEW k \in 0 .. n
  PROVE  UpTo(s, n)[k] = SumTo(s, k)
  <1> DEFINE T == {j \in Nat : \A a, b \in Nat : j <= a /\ j <= b => UpTo(s, a)[j] = UpTo(s, b)[j]}
  <1>1. 0 \in T
    BY UpToRec DEF SumStep
  <1>2. ASSUME NEW j \in Nat, j \in T PROVE j + 1 \in T
    <2> SUFFICES ASSUME NEW a \in Nat, NEW b \in Nat, j + 1 <= a, j + 1 <= b
                 PROVE  UpTo(s, a)[j + 1] = UpTo(s, b)[j + 1]
      OBVIOUS
    <2>1. /\ j + 1 # 0 /\ (j + 1) - 1 = j /\ j + 1 \in 0 .. a /\ j + 1 \in 0 .. b
          /\ j <= a /\ j <= b
      OBVIOUS
    <2>2. /\ UpTo(s, a)[j + 1] = UpTo(s, a)[j] + s[j + 1]
          /\ UpTo(s, b)[j + 1] = UpTo(s, b)[j] + s[j + 1]
      BY <2>1, UpToRec DEF SumStep
    <2>3. UpTo(s, a)[j] = UpTo(s, b)[j]
      BY <1>2, <2>1
    <2> QED
      BY <2>2, <2>3
  <1> HIDE DEF T
  <1>3. k \in T
    BY <1>1, <1>2, NatInductive
  <1>4. k \in Nat /\ k <= n
    OBVIOUS
  <1>5. UpTo(s, n)[k] = UpTo(s, k)[k]
    BY <1>3, <1>4 DEF T
  <1>. QED
    BY <1>4, <1>5, UpToRec

\* A total grows by one number at a time.
LEMMA SumToRec ==
  ASSUME NEW s, NEW n \in Nat
  PROVE  SumTo(s, 0) = 0 /\ SumTo(s, n + 1) = SumTo(s, n) + s[n + 1]
  <1>1. SumTo(s, 0) = 0
    BY UpToRec DEF SumStep
  <1>2. n + 1 \in Nat /\ n + 1 \in 0 .. (n + 1) /\ n \in 0 .. (n + 1) /\ n + 1 # 0 /\ (n + 1) - 1 = n
    OBVIOUS
  <1>3. SumTo(s, n + 1) = UpTo(s, n + 1)[n] + s[n + 1]
    BY <1>2, UpToRec DEF SumStep
  <1>. QED
    BY <1>1, <1>2, <1>3, UpToAgree

\* Naturals have a natural total.
LEMMA SumToNat ==
  ASSUME NEW s, NEW n \in Nat, \A k \in 1 .. n : s[k] \in Nat
  PROVE  SumTo(s, n) \in Nat
  <1> DEFINE T == {m \in Nat : m <= n => SumTo(s, m) \in Nat}
  <1>1. 0 \in T
    BY SumToRec
  <1>2. ASSUME NEW m \in Nat, m \in T PROVE m + 1 \in T
    BY <1>2, SumToRec
  <1> HIDE DEF T
  <1>3. n \in T
    BY <1>1, <1>2, NatInductive
  <1>. QED
    BY <1>3 DEF T

\* A total depends on the first n numbers only.
LEMMA SumToSame ==
  ASSUME NEW s, NEW t, NEW n \in Nat, \A k \in 1 .. n : s[k] = t[k]
  PROVE  SumTo(s, n) = SumTo(t, n)
  <1> DEFINE T == {m \in Nat : m <= n => SumTo(s, m) = SumTo(t, m)}
  <1>1. 0 \in T
    BY SumToRec
  <1>2. ASSUME NEW m \in Nat, m \in T PROVE m + 1 \in T
    <2>1. m + 1 <= n => SumTo(s, m) = SumTo(t, m) /\ s[m + 1] = t[m + 1]
      BY <1>2
    <2>2. /\ SumTo(s, m + 1) = SumTo(s, m) + s[m + 1]
          /\ SumTo(t, m + 1) = SumTo(t, m) + t[m + 1]
      BY SumToRec
    <2>. QED
      BY <2>1, <2>2
  <1> HIDE DEF T
  <1>3. n \in T
    BY <1>1, <1>2, NatInductive
  <1>. QED
    BY <1>3 DEF T

\* A factor comes out of a total.
LEMMA SumToScale ==
  ASSUME NEW c \in Nat, NEW s, NEW t, NEW n \in Nat,
         \A k \in 1 .. n : s[k] \in Nat /\ t[k] = c * s[k]
  PROVE  SumTo(t, n) = c * SumTo(s, n)
  <1> DEFINE T == {m \in Nat : m <= n => SumTo(t, m) = c * SumTo(s, m)}
  <1>1. 0 \in T
    BY SumToRec
  <1>2. ASSUME NEW m \in Nat, m \in T PROVE m + 1 \in T
    <2> SUFFICES ASSUME m + 1 <= n PROVE SumTo(t, m + 1) = c * SumTo(s, m + 1)
      OBVIOUS
    <2>1. /\ SumTo(t, m) = c * SumTo(s, m) /\ t[m + 1] = c * s[m + 1] /\ s[m + 1] \in Nat
          /\ SumTo(s, m) \in Nat
      BY <1>2, SumToNat
    <2>2. /\ SumTo(s, m + 1) = SumTo(s, m) + s[m + 1]
          /\ SumTo(t, m + 1) = SumTo(t, m) + t[m + 1]
      BY SumToRec
    <2>3. \A a, b \in Nat : c * (a + b) = c * a + c * b
      OBVIOUS
    <2>. QED
      BY <2>1, <2>2, <2>3
  <1> HIDE DEF T
  <1>3. n \in T
    BY <1>1, <1>2, NatInductive
  <1>. QED
    BY <1>3 DEF T

\* A total is that of the first n numbers and that of the rest.
LEMMA SumToAfter ==
  ASSUME NEW s, NEW t, NEW n \in Nat, NEW m \in Nat,
         \A k \in 1 .. (n + m) : s[k] \in Nat,
         \A k \in 1 .. m : t[k] = s[n + k]
  PROVE  SumTo(s, n + m) = SumTo(s, n) + SumTo(t, m)
  <1> DEFINE T == {k \in Nat : k <= m => SumTo(s, n + k) = SumTo(s, n) + SumTo(t, k)}
  <1>0. \A k \in 0 .. (n + m) : SumTo(s, k) \in Nat
    BY SumToNat
  <1>1. 0 \in T
    BY <1>0, SumToRec
  <1>2. ASSUME NEW k \in Nat, k \in T PROVE k + 1 \in T
    <2> SUFFICES ASSUME k + 1 <= m PROVE SumTo(s, n + (k + 1)) = SumTo(s, n) + SumTo(t, k + 1)
      OBVIOUS
    <2>1. /\ SumTo(s, n + k) = SumTo(s, n) + SumTo(t, k) /\ t[k + 1] = s[n + (k + 1)]
          /\ s[n + (k + 1)] \in Nat
      BY <1>2
    <2>2. n + k \in Nat /\ (n + k) + 1 = n + (k + 1)
      OBVIOUS
    <2>3. SumTo(s, n + (k + 1)) = SumTo(s, n + k) + s[n + (k + 1)]
      BY <2>2, SumToRec
    <2>4. SumTo(t, k + 1) = SumTo(t, k) + t[k + 1]
      BY SumToRec
    <2>5. SumTo(t, k) \in Nat
      <3>1. \A j \in 1 .. k : t[j] \in Nat
        OBVIOUS
      <3>. QED
        BY <3>1, SumToNat
    <2>. QED
      BY <1>0, <2>1, <2>3, <2>4, <2>5
  <1> HIDE DEF T
  <1>3. m \in T
    BY <1>1, <1>2, NatInductive
  <1>. QED
    BY <1>3 DEF T

\* More naturals, a larger total.
LEMMA SumToMonotone ==
  ASSUME NEW s, NEW m \in Nat, NEW n \in Nat, n <= m, \A k \in 1 .. m : s[k] \in Nat
  PROVE  SumTo(s, n) <= SumTo(s, m)
  <1>1. PICK d \in Nat : m = n + d
    <2>1. m - n \in Nat /\ m = n + (m - n)
      OBVIOUS
    <2>. QED
      BY <2>1
  <1> DEFINE t == [k \in 1 .. d |-> s[n + k]]
  <1>2. \A k \in 1 .. d : t[k] = s[n + k] /\ t[k] \in Nat
    BY <1>1
  <1> HIDE DEF t
  <1>3. SumTo(s, n + d) = SumTo(s, n) + SumTo(t, d)
    <2>1. n \in Nat /\ \A k \in 1 .. (n + d) : s[k] \in Nat
      BY <1>1
    <2>2. \A k \in 1 .. d : t[k] = s[n + k]
      BY <1>2
    <2>. QED
      BY ONLY <2>1, <2>2, n \in Nat, d \in Nat, SumToAfter
  <1>4. SumTo(t, d) \in Nat /\ SumTo(s, n) \in Nat
    BY <1>1, <1>2, SumToNat
  <1>. QED
    BY <1>1, <1>3, <1>4

\* Where a number falls among the totals.
LEMMA SumToFind ==
  ASSUME NEW s, NEW n \in Nat, \A k \in 1 .. n : s[k] \in Nat,
         NEW p \in 1 .. SumTo(s, n)
  PROVE  \E i \in 1 .. n : p - SumTo(s, i - 1) \in 1 .. s[i]
  <1> DEFINE T == {m \in Nat : m <= n /\ p <= SumTo(s, m) =>
                     \E i \in 1 .. m : p - SumTo(s, i - 1) \in 1 .. s[i]}
  <1>0. \A k \in 0 .. n : SumTo(s, k) \in Nat
    BY SumToNat
  <1>1. 0 \in T
    BY <1>0, SumToRec
  <1>2. ASSUME NEW m \in Nat, m \in T PROVE m + 1 \in T
    <2> SUFFICES ASSUME m + 1 <= n, p <= SumTo(s, m + 1)
                 PROVE  \E i \in 1 .. (m + 1) : p - SumTo(s, i - 1) \in 1 .. s[i]
      OBVIOUS
    <2>1. CASE p <= SumTo(s, m)
      BY <1>2, <2>1
    <2>2. CASE ~ (p <= SumTo(s, m))
      <3>1. SumTo(s, m + 1) = SumTo(s, m) + s[m + 1] /\ (m + 1) - 1 = m /\ m + 1 \in 1 .. (m + 1)
        BY SumToRec
      <3>2. SumTo(s, m) \in Nat /\ s[m + 1] \in Nat /\ p \in Nat
        BY <1>0
      <3>3. p - SumTo(s, m) \in 1 .. s[m + 1]
        BY <2>2, <3>1, <3>2
      <3>. QED
        BY <3>1, <3>3
    <2>. QED
      BY <2>1, <2>2
  <1> HIDE DEF T
  <1>3. n \in T
    BY <1>1, <1>2, NatInductive
  <1>. QED
    BY <1>0, <1>3 DEF T

\* A total of naturals is at least each of them.
LEMMA SumToTerm ==
  ASSUME NEW s, NEW n \in Nat, \A k \in 1 .. n : s[k] \in Nat, NEW i \in 1 .. n
  PROVE  s[i] <= SumTo(s, n)
  <1>1. i - 1 \in Nat /\ (i - 1) + 1 = i /\ i \in Nat /\ i <= n
    OBVIOUS
  <1>2. SumTo(s, i) = SumTo(s, i - 1) + s[i] /\ SumTo(s, i - 1) \in Nat
    BY <1>1, SumToRec, SumToNat
  <1>3. SumTo(s, i) <= SumTo(s, n) /\ SumTo(s, n) \in Nat /\ SumTo(s, i) \in Nat
    BY <1>1, SumToMonotone, SumToNat
  <1>. QED
    BY <1>2, <1>3

\* A total of zeros and one number is that number.
LEMMA SumToSingle ==
  ASSUME NEW s, NEW n \in Nat, NEW i \in 1 .. n, s[i] \in Nat,
         \A k \in 1 .. n : k # i => s[k] = 0
  PROVE  SumTo(s, n) = s[i]
  <1> DEFINE T == {m \in Nat : m <= n => SumTo(s, m) = IF i <= m THEN s[i] ELSE 0}
  <1>1. 0 \in T
    BY SumToRec
  <1>2. ASSUME NEW m \in Nat, m \in T PROVE m + 1 \in T
    <2>1. SumTo(s, m + 1) = SumTo(s, m) + s[m + 1]
      BY SumToRec
    <2>. QED
      BY <1>2, <2>1
  <1> HIDE DEF T
  <1>3. n \in T
    BY <1>1, <1>2, NatInductive
  <1>. QED
    BY <1>3 DEF T

\* A total of zeros is zero.
LEMMA SumToZero ==
  ASSUME NEW s, NEW n \in Nat, \A k \in 1 .. n : s[k] = 0
  PROVE  SumTo(s, n) = 0
  <1> DEFINE T == {m \in Nat : m <= n => SumTo(s, m) = 0}
  <1>1. 0 \in T
    BY SumToRec
  <1>2. ASSUME NEW m \in Nat, m \in T PROVE m + 1 \in T
    <2>1. SumTo(s, m + 1) = SumTo(s, m) + s[m + 1]
      BY SumToRec
    <2>. QED
      BY <1>2, <2>1
  <1> HIDE DEF T
  <1>3. n \in T
    BY <1>1, <1>2, NatInductive
  <1>. QED
    BY <1>3 DEF T

\* The total of sums is the sum of the totals.
LEMMA SumToPlus ==
  ASSUME NEW s, NEW t, NEW u, NEW n \in Nat,
         \A k \in 1 .. n : s[k] \in Nat /\ t[k] \in Nat /\ u[k] = s[k] + t[k]
  PROVE  SumTo(u, n) = SumTo(s, n) + SumTo(t, n)
  <1> DEFINE T == {m \in Nat : m <= n => SumTo(u, m) = SumTo(s, m) + SumTo(t, m)}
  <1>0. \A m \in 0 .. n : SumTo(s, m) \in Nat /\ SumTo(t, m) \in Nat
    BY SumToNat
  <1>1. 0 \in T
    BY SumToRec
  <1>2. ASSUME NEW m \in Nat, m \in T PROVE m + 1 \in T
    <2> SUFFICES ASSUME m + 1 <= n PROVE SumTo(u, m + 1) = SumTo(s, m + 1) + SumTo(t, m + 1)
      OBVIOUS
    <2>1. /\ SumTo(u, m) = SumTo(s, m) + SumTo(t, m) /\ u[m + 1] = s[m + 1] + t[m + 1]
          /\ s[m + 1] \in Nat /\ t[m + 1] \in Nat /\ SumTo(s, m) \in Nat /\ SumTo(t, m) \in Nat
      BY <1>0, <1>2
    <2>2. /\ SumTo(s, m + 1) = SumTo(s, m) + s[m + 1]
          /\ SumTo(t, m + 1) = SumTo(t, m) + t[m + 1]
          /\ SumTo(u, m + 1) = SumTo(u, m) + u[m + 1]
      BY SumToRec
    <2>. QED
      BY <2>1, <2>2
  <1> HIDE DEF T
  <1>3. n \in T
    BY <1>1, <1>2, NatInductive
  <1>. QED
    BY <1>3 DEF T

\* Larger naturals, a larger total.
LEMMA SumToLess ==
  ASSUME NEW s, NEW t, NEW n \in Nat,
         \A k \in 1 .. n : s[k] \in Nat /\ t[k] \in Nat /\ s[k] <= t[k]
  PROVE  SumTo(s, n) <= SumTo(t, n)
  <1> DEFINE T == {m \in Nat : m <= n => SumTo(s, m) <= SumTo(t, m)}
  <1>0. \A m \in 0 .. n : SumTo(s, m) \in Nat /\ SumTo(t, m) \in Nat
    BY SumToNat
  <1>1. 0 \in T
    BY SumToRec
  <1>2. ASSUME NEW m \in Nat, m \in T PROVE m + 1 \in T
    <2> SUFFICES ASSUME m + 1 <= n PROVE SumTo(s, m + 1) <= SumTo(t, m + 1)
      OBVIOUS
    <2>1. /\ SumTo(s, m) <= SumTo(t, m) /\ s[m + 1] <= t[m + 1]
          /\ s[m + 1] \in Nat /\ t[m + 1] \in Nat /\ SumTo(s, m) \in Nat /\ SumTo(t, m) \in Nat
      BY <1>0, <1>2
    <2>2. /\ SumTo(s, m + 1) = SumTo(s, m) + s[m + 1]
          /\ SumTo(t, m + 1) = SumTo(t, m) + t[m + 1]
      BY SumToRec
    <2>. QED
      BY <2>1, <2>2
  <1> HIDE DEF T
  <1>3. n \in T
    BY <1>1, <1>2, NatInductive
  <1>. QED
    BY <1>3 DEF T

-----------------------------------------------------------------------------
(* Flattening. *)

Lens(ss) == [i \in DOMAIN ss |-> Len(ss[i])]

\* The place of an element of a part in the whole.
LEMMA FlattenAt ==
  ASSUME NEW X, NEW ss \in Seq(Seq(X))
  PROVE  /\ FlattenSeq(ss) \in Seq(X)
         /\ Len(FlattenSeq(ss)) = SumTo(Lens(ss), Len(ss))
         /\ \A i \in 1 .. Len(ss), k \in Nat :
              k \in 1 .. Len(ss[i]) =>
                /\ SumTo(Lens(ss), i - 1) + k \in 1 .. Len(FlattenSeq(ss))
                /\ FlattenSeq(ss)[SumTo(Lens(ss), i - 1) + k] = ss[i][k]
  <1> DEFINE Right(tt) ==
               /\ Len(FlattenSeq(tt)) = SumTo(Lens(tt), Len(tt))
               /\ \A i \in 1 .. Len(tt), k \in Nat :
                    k \in 1 .. Len(tt[i]) =>
                      /\ SumTo(Lens(tt), i - 1) + k \in 1 .. Len(FlattenSeq(tt))
                      /\ FlattenSeq(tt)[SumTo(Lens(tt), i - 1) + k] = tt[i][k]
             U == {tt \in Seq(Seq(X)) : Right(tt)}
  <1>1. <<>> \in U
    BY FlattenRec, EmptySeq, SumToRec
  <1>2. ASSUME NEW tt \in Seq(Seq(X)), NEW s \in Seq(X), tt \in U PROVE Append(tt, s) \in U
    <2> DEFINE uu == Append(tt, s)
               n == Len(tt)
               f == FlattenSeq(tt)
    <2>1. /\ n \in Nat /\ uu \in Seq(Seq(X)) /\ Len(uu) = n + 1 /\ uu[n + 1] = s
          /\ \A i \in 1 .. n : uu[i] = tt[i]
          /\ \A i \in 1 .. n : tt[i] \in Seq(X)
      BY AppendProperties, LenProperties, ElementOfSeq
    <2>2. DOMAIN uu = 1 .. (n + 1) /\ DOMAIN tt = 1 .. n
      BY <2>1, LenProperties
    <2>3. \A i \in 1 .. n : Lens(tt)[i] = Len(tt[i]) /\ Lens(uu)[i] = Len(tt[i]) /\ Len(tt[i]) \in Nat
      BY <2>1, <2>2, LenProperties DEF Lens
    <2>4. Lens(uu)[n + 1] = Len(s) /\ Len(s) \in Nat
      BY <2>1, <2>2, LenProperties DEF Lens
    <2>5. FlattenSeq(uu) = f \o s /\ f \in Seq(X)
      BY FlattenRec, FlattenType
    <2>6. /\ Len(f \o s) = Len(f) + Len(s) /\ Len(f) \in Nat
          /\ \A k \in 1 .. Len(f) : (f \o s)[k] = f[k]
          /\ \A k \in 1 .. Len(s) : (f \o s)[Len(f) + k] = s[k]
      BY <2>4, <2>5, ConcatProperties, LenProperties
    <2>7. Len(f) = SumTo(Lens(tt), n) /\ Right(tt)
      BY <1>2
    <2> HIDE DEF uu, n, f, Right
    <2>8. \A m \in 0 .. n : SumTo(Lens(uu), m) = SumTo(Lens(tt), m)
      <3> TAKE m \in 0 .. n
      <3>1. m \in Nat /\ \A k \in 1 .. m : Lens(uu)[k] = Lens(tt)[k]
        BY <2>1, <2>3
      <3>. QED
        BY <3>1, SumToSame
    <2>9. SumTo(Lens(uu), n + 1) = SumTo(Lens(uu), n) + Lens(uu)[n + 1]
      BY <2>1, SumToRec
    <2>10. Len(FlattenSeq(uu)) = SumTo(Lens(uu), Len(uu))
      BY <2>1, <2>4, <2>5, <2>6, <2>7, <2>8, <2>9
    <2>11. ASSUME NEW i \in 1 .. Len(uu), NEW k \in Nat, k \in 1 .. Len(uu[i])
           PROVE  /\ SumTo(Lens(uu), i - 1) + k \in 1 .. Len(FlattenSeq(uu))
                  /\ FlattenSeq(uu)[SumTo(Lens(uu), i - 1) + k] = uu[i][k]
      <3>1. CASE i \in 1 .. n
        <4>1. /\ i - 1 \in 0 .. n /\ uu[i] = tt[i]
              /\ SumTo(Lens(tt), i - 1) + k \in 1 .. Len(f)
              /\ f[SumTo(Lens(tt), i - 1) + k] = tt[i][k]
          BY <2>1, <2>7, <2>11, <3>1 DEF Right, n, f
        <4>. QED
          BY <2>4, <2>5, <2>6, <2>8, <4>1
      <3>2. CASE i = n + 1
        <4>1. i - 1 = n /\ n \in 0 .. n /\ uu[i] = s
          BY <2>1, <3>2
        <4>2. SumTo(Lens(uu), i - 1) = Len(f)
          BY <2>7, <2>8, <4>1
        <4>. QED
          BY <2>4, <2>5, <2>6, <2>11, <4>1, <4>2
      <3>. QED
        BY <2>1, <3>1, <3>2
    <2>12. Right(uu)
      BY <2>10, <2>11 DEF Right
    <2>. QED
      BY <2>1, <2>12 DEF uu
  <1> HIDE DEF U, Right
  <1>3. ss \in U
    BY <1>1, <1>2, SeqInductive
  <1>. QED
    BY <1>3, FlattenType DEF U, Right

\* A sequence of sequences, its lengths and its members.
LEMMA LensNat ==
  ASSUME NEW X, NEW ss \in Seq(Seq(X))
  PROVE  /\ Len(ss) \in Nat /\ DOMAIN ss = 1 .. Len(ss)
         /\ \A i \in 1 .. Len(ss) :
              /\ ss[i] \in Seq(X) /\ Lens(ss)[i] = Len(ss[i]) /\ Len(ss[i]) \in Nat
              /\ DOMAIN ss[i] = 1 .. Len(ss[i])
              /\ \A k \in 1 .. Len(ss[i]) : ss[i][k] \in X
  <1>1. Len(ss) \in Nat /\ DOMAIN ss = 1 .. Len(ss) /\ \A i \in 1 .. Len(ss) : ss[i] \in Seq(X)
    BY LenProperties, ElementOfSeq
  <1>2. \A i \in 1 .. Len(ss) : Lens(ss)[i] = Len(ss[i])
    BY <1>1 DEF Lens
  <1>. QED
    BY <1>1, <1>2, LenProperties, ElementOfSeq

\* A sequence with every part in its place is the flattened one.
LEMMA FlattenIs ==
  ASSUME NEW X, NEW ss \in Seq(Seq(X)), NEW s \in Seq(X),
         Len(s) = SumTo(Lens(ss), Len(ss)),
         \A i \in 1 .. Len(ss), k \in Nat :
           k \in 1 .. Len(ss[i]) => s[SumTo(Lens(ss), i - 1) + k] = ss[i][k]
  PROVE  FlattenSeq(ss) = s
  <1> DEFINE f == FlattenSeq(ss)
             e == Lens(ss)
             n == Len(ss)
  <1>1. n \in Nat /\ \A i \in 1 .. n : e[i] \in Nat /\ e[i] = Len(ss[i])
    BY LensNat
  <1>2. f \in Seq(X) /\ Len(f) = SumTo(e, n)
    BY FlattenAt
  <1>3. \A i \in 1 .. n, k \in Nat :
          k \in 1 .. e[i] => f[SumTo(e, i - 1) + k] = ss[i][k] /\ s[SumTo(e, i - 1) + k] = ss[i][k]
    BY <1>1, FlattenAt
  <1>4. \A i \in 1 .. n : SumTo(e, i - 1) \in Nat
    <2> TAKE i \in 1 .. n
    <2>1. i - 1 \in Nat /\ \A k \in 1 .. (i - 1) : e[k] \in Nat
      BY <1>1
    <2>. QED
      BY <2>1, SumToNat
  <1>5. Len(s) = SumTo(e, n)
    OBVIOUS
  <1> HIDE DEF f, e, n
  <1>6. ASSUME NEW p \in 1 .. Len(s) PROVE f[p] = s[p]
    <2>1. PICK i \in 1 .. n : p - SumTo(e, i - 1) \in 1 .. e[i]
      BY <1>1, <1>5, SumToFind
    <2>2. p - SumTo(e, i - 1) \in Nat /\ SumTo(e, i - 1) + (p - SumTo(e, i - 1)) = p
      BY <1>4, <2>1
    <2>3. /\ f[SumTo(e, i - 1) + (p - SumTo(e, i - 1))] = ss[i][p - SumTo(e, i - 1)]
          /\ s[SumTo(e, i - 1) + (p - SumTo(e, i - 1))] = ss[i][p - SumTo(e, i - 1)]
      BY <1>3, <2>1, <2>2
    <2>. QED
      BY <2>2, <2>3
  <1>7. f = s
    BY <1>2, <1>5, <1>6, SeqEqual
  <1>. QED
    BY <1>7 DEF f

\* A subsequence by its start and its length.
LEMMA Piece ==
  ASSUME NEW X, NEW s \in Seq(X), NEW a \in Nat, NEW d \in Nat, a + d <= Len(s)
  PROVE  /\ SubSeq(s, a + 1, a + d) \in Seq(X) /\ Len(SubSeq(s, a + 1, a + d)) = d
         /\ \A k \in 1 .. d : SubSeq(s, a + 1, a + d)[k] = s[a + k]
  <1>1. \A k \in 1 .. Len(s) : s[k] \in X
    BY ElementOfSeq
  <1>2. \A k \in (a + 1) .. (a + d) : s[k] \in X
    BY <1>1
  <1>3. a + 1 \in Int /\ a + d \in Int
    OBVIOUS
  <1>4. /\ SubSeq(s, a + 1, a + d) \in Seq(X)
        /\ Len(SubSeq(s, a + 1, a + d)) = IF a + 1 <= a + d THEN (a + d) - (a + 1) + 1 ELSE 0
        /\ \A k \in 1 .. ((a + d) - (a + 1) + 1) : SubSeq(s, a + 1, a + d)[k] = s[(a + 1) + k - 1]
    BY ONLY <1>2, <1>3, SubSeqProperties
  <1>5. /\ (IF a + 1 <= a + d THEN (a + d) - (a + 1) + 1 ELSE 0) = d
        /\ (a + d) - (a + 1) + 1 = d /\ \A k \in 1 .. d : (a + 1) + k - 1 = a + k
    OBVIOUS
  <1>. QED
    BY ONLY <1>4, <1>5

IsCut(ss, s, e, n) ==
  /\ ss = [i \in 1 .. n |-> ss[i]]
  /\ \A i \in 1 .. n : ss[i] = SubSeq(s, SumTo(e, i - 1) + 1, SumTo(e, i - 1) + e[i])
  /\ \A i \in 1 .. n : e[i] \in Nat
  /\ SumTo(e, n) = Len(s)

\* A sequence that is cut at totals is put together again by flattening.
LEMMA FlattenCut ==
  ASSUME NEW X, NEW s \in Seq(X), NEW n \in Nat, NEW e, NEW ss, IsCut(ss, s, e, n)
  PROVE  /\ ss \in Seq(Seq(X)) /\ Len(ss) = n /\ \A i \in 1 .. n : Len(ss[i]) = e[i]
         /\ FlattenSeq(ss) = s
  <1>0. /\ \A i \in 1 .. n : e[i] \in Nat
        /\ \A i \in 1 .. n : ss[i] = SubSeq(s, SumTo(e, i - 1) + 1, SumTo(e, i - 1) + e[i])
        /\ SumTo(e, n) = Len(s)
    BY DEF IsCut
  <1>1. \A i \in 1 .. n : SumTo(e, i - 1) \in Nat /\ SumTo(e, i - 1) + e[i] <= Len(s)
    <2> TAKE i \in 1 .. n
    <2>1. i - 1 \in Nat /\ (i - 1) + 1 = i /\ i \in Nat /\ \A k \in 1 .. (i - 1) : e[k] \in Nat
      BY <1>0
    <2>2. SumTo(e, i) = SumTo(e, i - 1) + e[i]
      BY <2>1, SumToRec
    <2>. QED
      BY <1>0, <2>1, <2>2, SumToNat, SumToMonotone
  <1>2. \A k \in 1 .. Len(s) : s[k] \in X
    BY ElementOfSeq
  <1>3. ASSUME NEW i \in 1 .. n
        PROVE  /\ ss[i] \in Seq(X) /\ Len(ss[i]) = e[i]
               /\ \A k \in 1 .. e[i] : ss[i][k] = s[SumTo(e, i - 1) + k]
    <2> DEFINE a == SumTo(e, i - 1)
    <2>1. a \in Nat /\ e[i] \in Nat /\ a + e[i] <= Len(s) /\ ss[i] = SubSeq(s, a + 1, a + e[i])
      BY <1>0, <1>1
    <2> HIDE DEF a
    <2>2. /\ SubSeq(s, a + 1, a + e[i]) \in Seq(X) /\ Len(SubSeq(s, a + 1, a + e[i])) = e[i]
          /\ \A k \in 1 .. e[i] : SubSeq(s, a + 1, a + e[i])[k] = s[a + k]
      BY ONLY s \in Seq(X), <2>1, Piece
    <2>. QED
      BY ONLY <2>1, <2>2 DEF a
  <1>4. ss \in Seq(Seq(X)) /\ Len(ss) = n
    <2>1. ss = [i \in 1 .. n |-> ss[i]]
      BY DEF IsCut
    <2>2. \A i \in 1 .. n : ss[i] \in Seq(X)
      BY ONLY <1>3
    <2>. QED
      BY ONLY n \in Nat, <2>1, <2>2, SeqIs
  <1>5. \A i \in 1 .. n : Lens(ss)[i] = e[i]
    <2>1. \A i \in 1 .. n : Len(ss[i]) = e[i]
      BY ONLY <1>3
    <2>. QED
      BY ONLY <1>4, <2>1, LensNat, SMTT(60)
  <1>6. \A i \in 0 .. n : SumTo(Lens(ss), i) = SumTo(e, i)
    <2> TAKE i \in 0 .. n
    <2>1. i \in Nat /\ i <= n
      OBVIOUS
    <2>2. \A k \in 1 .. i : Lens(ss)[k] = e[k]
      BY ONLY n \in Nat, <1>5, <2>1
    <2>. QED
      BY ONLY <2>1, <2>2, SumToSame
  <1>7. FlattenSeq(ss) = s
    <2>1. Len(s) = SumTo(Lens(ss), Len(ss))
      <3>1. SumTo(e, n) = Len(s) /\ n \in 0 .. n
        BY <1>0
      <3>. QED
        BY ONLY <1>4, <1>6, <3>1
    <2>2. ASSUME NEW i \in 1 .. Len(ss), NEW k \in Nat, k \in 1 .. Len(ss[i])
          PROVE  s[SumTo(Lens(ss), i - 1) + k] = ss[i][k]
      <3>1. i \in 1 .. n /\ i - 1 \in 0 .. n
        BY <1>4
      <3>. QED
        BY ONLY <1>3, <1>6, <2>2, <3>1
    <2>. QED
      BY ONLY s \in Seq(X), <1>4, <2>1, <2>2, FlattenIs
  <1>. QED
    BY <1>3, <1>4, <1>7

\* Flattening commutes with changing every element.
LEMMA FlattenMap ==
  ASSUME NEW X, NEW Y, NEW ss \in Seq(Seq(X)), NEW w \in [X -> Y], NEW tt,
         tt = [i \in DOMAIN ss |-> [k \in DOMAIN ss[i] |-> w[ss[i][k]]]]
  PROVE  /\ tt \in Seq(Seq(Y))
         /\ FlattenSeq(tt) = [k \in DOMAIN FlattenSeq(ss) |-> w[FlattenSeq(ss)[k]]]
  <1> DEFINE f == FlattenSeq(ss)
             g == [k \in DOMAIN f |-> w[f[k]]]
             n == Len(ss)
  <1>1. /\ n \in Nat /\ DOMAIN ss = 1 .. n
        /\ \A i \in 1 .. n : /\ Lens(ss)[i] = Len(ss[i]) /\ Len(ss[i]) \in Nat
                             /\ DOMAIN ss[i] = 1 .. Len(ss[i])
                             /\ \A k \in 1 .. Len(ss[i]) : ss[i][k] \in X
    BY LensNat
  <1>2. f \in Seq(X) /\ Len(f) = SumTo(Lens(ss), n)
    BY FlattenAt
  <1>3. Len(f) \in Nat /\ DOMAIN f = 1 .. Len(f) /\ \A k \in 1 .. Len(f) : f[k] \in X
    BY <1>2, LenProperties, ElementOfSeq
  <1>4. \A i \in 1 .. n, k \in Nat :
          k \in 1 .. Len(ss[i]) => /\ SumTo(Lens(ss), i - 1) + k \in 1 .. Len(f)
                                   /\ f[SumTo(Lens(ss), i - 1) + k] = ss[i][k]
    BY FlattenAt
  <1> HIDE DEF f, n
  <1>5. g \in Seq(Y) /\ Len(g) = Len(f)
    <2>1. g = [k \in 1 .. Len(f) |-> g[k]] /\ \A k \in 1 .. Len(f) : g[k] \in Y
      BY <1>3
    <2> HIDE DEF g
    <2>. QED
      BY <1>3, <2>1, SeqIs
  <1>6. ASSUME NEW i \in 1 .. n
        PROVE  /\ tt[i] \in Seq(Y) /\ Len(tt[i]) = Len(ss[i])
               /\ \A k \in 1 .. Len(ss[i]) : tt[i][k] = w[ss[i][k]]
    <2> DEFINE t == [k \in DOMAIN ss[i] |-> w[ss[i][k]]]
    <2>1. tt[i] = t
      BY <1>1
    <2>2. t = [k \in 1 .. Len(ss[i]) |-> t[k]] /\ \A k \in 1 .. Len(ss[i]) : t[k] \in Y /\ t[k] = w[ss[i][k]]
      BY <1>1
    <2> HIDE DEF t
    <2>3. Len(ss[i]) \in Nat
      BY <1>1
    <2>4. t \in Seq(Y) /\ Len(t) = Len(ss[i])
      BY ONLY <2>2, <2>3, SeqIs
    <2>. QED
      BY ONLY <2>1, <2>2, <2>4
  <1>7. tt \in Seq(Seq(Y)) /\ Len(tt) = n
    <2>1. tt = [i \in 1 .. n |-> tt[i]]
      BY <1>1
    <2>. QED
      <3>1. n \in Nat /\ \A i \in 1 .. n : tt[i] \in Seq(Y)
        BY ONLY <1>1, <1>6
      <3>. QED
        BY ONLY <2>1, <3>1, SeqIs
  <1>8. \A i \in 1 .. n : Lens(tt)[i] = Lens(ss)[i]
    BY ONLY <1>1, <1>6, <1>7, LensNat
  <1>9. \A i \in 0 .. n : SumTo(Lens(tt), i) = SumTo(Lens(ss), i)
    <2> TAKE i \in 0 .. n
    <2>1. i \in Nat /\ \A k \in 1 .. i : Lens(tt)[k] = Lens(ss)[k]
      BY <1>1, <1>8
    <2>. QED
      BY <2>1, SumToSame
  <1>10. FlattenSeq(tt) = g
    <2>1. Len(g) = SumTo(Lens(tt), Len(tt))
      BY <1>1, <1>2, <1>5, <1>7, <1>9
    <2>2. ASSUME NEW i \in 1 .. Len(tt), NEW k \in Nat, k \in 1 .. Len(tt[i])
          PROVE  g[SumTo(Lens(tt), i - 1) + k] = tt[i][k]
      <3>1. i \in 1 .. n /\ i - 1 \in 0 .. n /\ k \in 1 .. Len(ss[i])
        BY <1>1, <1>6, <1>7, <2>2
      <3>. QED
        BY <1>3, <1>4, <1>6, <1>9, <3>1, SMTT(60)
    <2> HIDE DEF g
    <2>. QED
      BY <1>5, <1>7, <2>1, <2>2, FlattenIs
  <1>. QED
    BY <1>7, <1>10 DEF f

\* The flattening of a concatenation.
LEMMA FlattenConcat ==
  ASSUME NEW X, NEW ss \in Seq(Seq(X)), NEW tt \in Seq(Seq(X))
  PROVE  FlattenSeq(ss \o tt) = FlattenSeq(ss) \o FlattenSeq(tt)
  <1> DEFINE U == {uu \in Seq(Seq(X)) : FlattenSeq(ss \o uu) = FlattenSeq(ss) \o FlattenSeq(uu)}
  <1>1. <<>> \in U
    <2>1. FlattenSeq(<<>>) = <<>> /\ FlattenSeq(ss) \in Seq(X) /\ <<>> \in Seq(Seq(X))
      BY FlattenRec, FlattenType, EmptySeq
    <2>2. ss \o <<>> = ss /\ FlattenSeq(ss) \o <<>> = FlattenSeq(ss)
      BY <2>1, ConcatEmptySeq
    <2>. QED
      BY <2>1, <2>2
  <1>2. ASSUME NEW uu \in Seq(Seq(X)), NEW s \in Seq(X), uu \in U PROVE Append(uu, s) \in U
    <2>1. ss \o Append(uu, s) = Append(ss \o uu, s)
      <3>1. Append(uu, s) = uu \o <<s>> /\ <<s>> \in Seq(Seq(X)) /\ ss \o uu \in Seq(Seq(X))
        <4>1. <<s>> \in Seq(Seq(X))
          OBVIOUS
        <4>2. Append(uu, s) = uu \o <<s>>
          BY AppendIsConcat
        <4>3. ss \o uu \in Seq(Seq(X))
          BY ConcatProperties
        <4>. QED
          BY <4>1, <4>2, <4>3
      <3>2. Append(ss \o uu, s) = (ss \o uu) \o <<s>>
        BY <3>1, AppendIsConcat
      <3>3. (ss \o uu) \o <<s>> = ss \o (uu \o <<s>>)
        <4> DEFINE Y == Seq(X)
                   q == <<s>>
        <4>1. ss \in Seq(Y) /\ uu \in Seq(Y) /\ q \in Seq(Y)
          BY <3>1
        <4> HIDE DEF Y, q
        <4>2. (ss \o uu) \o q = ss \o (uu \o q)
          BY ONLY <4>1, ConcatAssociative, SMTT(60)
        <4>. QED
          BY <4>2 DEF q
      <3>. QED
        BY <3>1, <3>2, <3>3
    <2>2. ss \o uu \in Seq(Seq(X)) /\ Append(uu, s) \in Seq(Seq(X))
      BY ConcatProperties, AppendProperties
    <2>3. FlattenSeq(Append(ss \o uu, s)) = FlattenSeq(ss \o uu) \o s
      BY <2>2, FlattenRec
    <2>4. FlattenSeq(Append(uu, s)) = FlattenSeq(uu) \o s
      BY FlattenRec
    <2>5. (FlattenSeq(ss) \o FlattenSeq(uu)) \o s = FlattenSeq(ss) \o (FlattenSeq(uu) \o s)
      <3>1. FlattenSeq(ss) \in Seq(X) /\ FlattenSeq(uu) \in Seq(X)
        BY FlattenType
      <3>. QED
        BY <3>1, ConcatAssociative
    <2>. QED
      BY <1>2, <2>1, <2>2, <2>3, <2>4, <2>5
  <1> HIDE DEF U
  <1>3. tt \in U
    BY <1>1, <1>2, SeqInductive
  <1>. QED
    BY <1>3 DEF U

Each(sss) == [i \in DOMAIN sss |-> FlattenSeq(sss[i])]

\* Flattening twice is flattening each, then all.
LEMMA FlattenTwice ==
  ASSUME NEW X, NEW sss \in Seq(Seq(Seq(X)))
  PROVE  /\ Each(sss) \in Seq(Seq(X)) /\ Len(Each(sss)) = Len(sss)
         /\ FlattenSeq(FlattenSeq(sss)) = FlattenSeq(Each(sss))
  <1> DEFINE U == {uuu \in Seq(Seq(Seq(X))) : FlattenSeq(FlattenSeq(uuu)) = FlattenSeq(Each(uuu))}
  <1>0. ASSUME NEW uuu \in Seq(Seq(Seq(X)))
        PROVE  Each(uuu) \in Seq(Seq(X)) /\ Len(Each(uuu)) = Len(uuu)
    <2>1. Len(uuu) \in Nat /\ DOMAIN uuu = 1 .. Len(uuu) /\ \A i \in 1 .. Len(uuu) : uuu[i] \in Seq(Seq(X))
      BY LenProperties, ElementOfSeq
    <2>2. \A i \in 1 .. Len(uuu) : Each(uuu)[i] \in Seq(X)
      BY <2>1, FlattenType DEF Each
    <2>3. Each(uuu) = [i \in 1 .. Len(uuu) |-> Each(uuu)[i]]
      BY <2>1 DEF Each
    <2>. QED
      BY <2>1, <2>2, <2>3, SeqIs
  <1>1. <<>> \in U
    <2>1. FlattenSeq(<<>>) = <<>> /\ <<>> \in Seq(Seq(Seq(X)))
      BY FlattenRec, EmptySeq
    <2>2. Each(<<>>) = <<>>
      <3>1. Each(<<>>) \in Seq(Seq(X)) /\ Len(Each(<<>>)) = 0
        BY <1>0, EmptySeq
      <3>. QED
        BY <3>1, EmptySeq
    <2>. QED
      BY <2>1, <2>2
  <1>2. ASSUME NEW uuu \in Seq(Seq(Seq(X))), NEW ss \in Seq(Seq(X)), uuu \in U
        PROVE  Append(uuu, ss) \in U
    <2>1. Append(uuu, ss) \in Seq(Seq(Seq(X))) /\ FlattenSeq(Append(uuu, ss)) = FlattenSeq(uuu) \o ss
      BY AppendProperties, FlattenRec
    <2>2. FlattenSeq(uuu) \in Seq(Seq(X))
      BY FlattenType
    <2>3. FlattenSeq(FlattenSeq(uuu) \o ss) = FlattenSeq(FlattenSeq(uuu)) \o FlattenSeq(ss)
      BY <2>2, FlattenConcat
    <2>4. Each(Append(uuu, ss)) = Append(Each(uuu), FlattenSeq(ss))
      <3> DEFINE n == Len(uuu)
                 a == Append(uuu, ss)
                 b == Append(Each(uuu), FlattenSeq(ss))
      <3>1. n \in Nat /\ DOMAIN uuu = 1 .. n /\ Len(a) = n + 1 /\ a[n + 1] = ss
            /\ \A i \in 1 .. n : a[i] = uuu[i]
        BY AppendProperties, LenProperties
      <3>2. DOMAIN a = 1 .. (n + 1)
        BY <2>1, <3>1, LenProperties
      <3>3. /\ b \in Seq(Seq(X)) /\ Len(b) = n + 1 /\ b[n + 1] = FlattenSeq(ss)
            /\ \A i \in 1 .. n : b[i] = Each(uuu)[i]
        <4>1. Each(uuu) \in Seq(Seq(X)) /\ Len(Each(uuu)) = Len(uuu) /\ FlattenSeq(ss) \in Seq(X)
          BY <1>0, FlattenType
        <4>. QED
          BY <4>1, AppendProperties
      <3>4. Each(a) \in Seq(Seq(X)) /\ Len(Each(a)) = n + 1
        BY <1>0, <2>1, <3>1
      <3> HIDE DEF a, b, n
      <3>5. \A i \in 1 .. (n + 1) : Each(a)[i] = b[i]
        <4>1. \A i \in 1 .. (n + 1) : i \in 1 .. n \/ i = n + 1
          BY <3>1
        <4>2. \A i \in 1 .. n : Each(uuu)[i] = FlattenSeq(uuu[i])
          BY <3>1 DEF Each
        <4>3. \A i \in 1 .. (n + 1) : Each(a)[i] = FlattenSeq(a[i])
          BY <3>2 DEF Each
        <4>. QED
          BY <3>1, <3>3, <4>1, <4>2, <4>3
      <3>6. Each(a) = b
        BY <3>3, <3>4, <3>5, SeqEqual
      <3>. QED
        BY <3>6 DEF a, b
    <2>5. FlattenSeq(Append(Each(uuu), FlattenSeq(ss))) = FlattenSeq(Each(uuu)) \o FlattenSeq(ss)
      BY <1>0, FlattenType, FlattenRec
    <2>. QED
      BY <1>2, <2>1, <2>3, <2>4, <2>5
  <1> HIDE DEF U
  <1>3. sss \in U
    BY <1>1, <1>2, SeqInductive
  <1>. QED
    BY <1>0, <1>3 DEF U

-----------------------------------------------------------------------------
(* Orders: a finite set has one enumeration in the order of a total order. *)

IsOrder(R, S) ==
  /\ \A x \in S : <<x, x>> \notin R
  /\ \A x, y \in S : x # y => <<x, y>> \in R \/ <<y, x>> \in R
  /\ \A x, y, z \in S : <<x, y>> \in R /\ <<y, z>> \in R => <<x, z>> \in R

Onto(s, n, S) == \A x \in S : \E i \in 1 .. n : s[i] = x

InOrder(R, s, n) == \A i, j \in 1 .. n : i < j => <<s[i], s[j]>> \in R

\* An ordered finite set that is not empty has a last member.
LEMMA OrderMax ==
  ASSUME NEW S, IsFiniteSet(S), NEW R, IsOrder(R, S), S # {}
  PROVE  \E m \in S : \A y \in S : y # m => <<y, m>> \in R
  <1> DEFINE T == {A \in SUBSET S : A # {} => \E m \in A : \A y \in A : y # m => <<y, m>> \in R}
  <1>1. {} \in T
    OBVIOUS
  <1>2. ASSUME NEW A \in SUBSET S, NEW x \in A, A \ {x} \in T PROVE A \in T
    <2>1. CASE A \ {x} = {}
      BY <2>1
    <2>2. CASE A \ {x} # {}
      <3>1. PICK m \in A \ {x} : \A y \in A \ {x} : y # m => <<y, m>> \in R
        BY <1>2, <2>2
      <3>2. CASE <<x, m>> \in R
        <4>1. m \in A /\ \A y \in A : y # m => <<y, m>> \in R
          BY <3>1, <3>2
        <4>. QED
          BY <4>1
      <3>3. CASE <<m, x>> \in R
        <4>1. ASSUME NEW y \in A, y # x PROVE <<y, x>> \in R
          <5>0. y \in S /\ m \in S /\ x \in S /\ y \in A \ {x}
            BY <4>1
          <5>1. y = m \/ <<y, m>> \in R
            BY <3>1, <5>0
          <5>. QED
            BY <3>3, <5>0, <5>1 DEF IsOrder
        <4>. QED
          BY <4>1
      <3>. QED
        BY <3>1, <3>2, <3>3 DEF IsOrder
    <2>. QED
      BY <2>1, <2>2
  <1> HIDE DEF T
  <1>3. S \in T
    BY <1>1, <1>2, SubsetInductive
  <1>. QED
    BY <1>3 DEF T

\* A finite set can be written in order.
LEMMA OrderExists ==
  ASSUME NEW S, IsFiniteSet(S), NEW R, IsOrder(R, S)
  PROVE  \E s \in [1 .. Cardinality(S) -> S] : InOrder(R, s, Cardinality(S))
  <1> DEFINE Has(A) == \E s \in [1 .. Cardinality(A) -> A] : InOrder(R, s, Cardinality(A))
             T == {n \in Nat : \A A \in SUBSET S : Cardinality(A) = n => Has(A)}
  <1>0. \A A \in SUBSET S : IsFiniteSet(A) /\ Cardinality(A) \in Nat
    BY FS_Subset, FS_CardinalityType
  <1>1. 0 \in T
    <2> SUFFICES ASSUME NEW A \in SUBSET S, Cardinality(A) = 0 PROVE Has(A)
      OBVIOUS
    <2> DEFINE s == [i \in 1 .. 0 |-> 0]
    <2>1. s \in [1 .. 0 -> A] /\ InOrder(R, s, 0)
      BY DEF InOrder
    <2>. QED
      BY <2>1
  <1>2. ASSUME NEW n \in Nat, n \in T PROVE n + 1 \in T
    <2> SUFFICES ASSUME NEW A \in SUBSET S, Cardinality(A) = n + 1 PROVE Has(A)
      OBVIOUS
    <2>1. A # {} /\ IsFiniteSet(A) /\ IsOrder(R, A)
      BY <1>0, FS_EmptySet DEF IsOrder
    <2>2. PICK m \in A : \A y \in A : y # m => <<y, m>> \in R
      BY <2>1, OrderMax
    <2> DEFINE B == A \ {m}
    <2>3. B \in SUBSET S /\ Cardinality(B) = n
      <3>1. Cardinality(A \ {m}) = Cardinality(A) - 1
        BY <2>1, FS_RemoveElement
      <3>2. (n + 1) - 1 = n
        OBVIOUS
      <3>. QED
        BY <3>1, <3>2
    <2>4. PICK r \in [1 .. n -> B] : InOrder(R, r, n)
      BY <1>2, <2>3
    <2> DEFINE s == [i \in 1 .. (n + 1) |-> IF i = n + 1 THEN m ELSE r[i]]
    <2>5. \A i \in 1 .. (n + 1) : i # n + 1 => i \in 1 .. n
      OBVIOUS
    <2>6. s \in [1 .. (n + 1) -> A]
      BY <2>5
    <2>7. InOrder(R, s, n + 1)
      <3> SUFFICES ASSUME NEW i \in 1 .. (n + 1), NEW j \in 1 .. (n + 1), i < j
                   PROVE  <<s[i], s[j]>> \in R
        BY DEF InOrder
      <3>1. i \in 1 .. n /\ s[i] = r[i] /\ r[i] \in B
        OBVIOUS
      <3>2. CASE j = n + 1
        BY <2>2, <3>1, <3>2
      <3>3. CASE j # n + 1
        <4>1. j \in 1 .. n /\ s[j] = r[j]
          BY <3>3
        <4>. QED
          BY <2>4, <3>1, <4>1 DEF InOrder
      <3>. QED
        BY <3>2, <3>3
    <2> HIDE DEF s
    <2>. QED
      BY <2>6, <2>7
  <1> HIDE DEF T
  <1>3. Cardinality(S) \in T
    BY <1>0, <1>1, <1>2, NatInductive
  <1>. QED
    BY <1>3 DEF T

\* Nothing occurs twice in order.
LEMMA OrderInjective ==
  ASSUME NEW S, NEW R, IsOrder(R, S), NEW n \in Nat, NEW s \in [1 .. n -> S], InOrder(R, s, n),
         NEW i \in 1 .. n, NEW j \in 1 .. n, s[i] = s[j]
  PROVE  i = j
  <1>1. \A k, l \in 1 .. n : k < l /\ s[k] = s[l] => FALSE
    BY DEF InOrder, IsOrder
  <1>. QED
    BY <1>1

\* An enumeration in order is a bijection.
LEMMA OrderBijection ==
  ASSUME NEW S, NEW R, IsOrder(R, S), NEW n \in Nat, NEW s \in [1 .. n -> S], InOrder(R, s, n)
  PROVE  /\ \A i, j \in 1 .. n : s[i] = s[j] => i = j
         /\ IsFiniteSet(S) /\ n = Cardinality(S) => S = {s[i] : i \in 1 .. n}
         /\ S = {s[i] : i \in 1 .. n} => IsFiniteSet(S) /\ n = Cardinality(S)
  <1>1. \A i, j \in 1 .. n : s[i] = s[j] => i = j
    BY OrderInjective
  <1>2. s \in Injection(1 .. n, S)
    BY <1>1 DEF Injection, IsInjective
  <1>3. IsFiniteSet(1 .. n) /\ Cardinality(1 .. n) = n
    BY FS_Interval
  <1>4. ASSUME IsFiniteSet(S), n = Cardinality(S) PROVE S = {s[i] : i \in 1 .. n}
    <2>1. s \in Surjection(1 .. n, S)
      BY <1>2, <1>3, <1>4, FS_Injection
    <2>. QED
      BY <2>1 DEF Surjection
  <1>5. ASSUME S = {s[i] : i \in 1 .. n} PROVE IsFiniteSet(S) /\ n = Cardinality(S)
    <2>1. s \in Surjection(1 .. n, S)
      BY <1>5 DEF Surjection
    <2>2. s \in Bijection(1 .. n, S)
      BY <1>2, <2>1 DEF Bijection, Injection, Surjection
    <2>3. ExistsBijection(1 .. n, S)
      BY <2>2 DEF ExistsBijection
    <2>. QED
      BY <1>3, <2>3, FS_Bijection
  <1>. QED
    BY <1>1, <1>4, <1>5

\* A set is written in order in one way only.
LEMMA OrderUnique ==
  ASSUME NEW S, NEW R, IsOrder(R, S), NEW n \in Nat,
         NEW s \in [1 .. n -> S], InOrder(R, s, n), Onto(s, n, S),
         NEW t \in [1 .. n -> S], InOrder(R, t, n), Onto(t, n, S)
  PROVE  s = t
  <1>0. /\ \A i, j \in 1 .. n : s[i] = s[j] => i = j
        /\ \A i, j \in 1 .. n : t[i] = t[j] => i = j
    <2>1. \A i, j \in 1 .. n : s[i] = s[j] => i = j
      BY OrderInjective
    <2>2. \A i, j \in 1 .. n : t[i] = t[j] => i = j
      BY OrderInjective
    <2>. QED
      BY <2>1, <2>2
  <1> DEFINE D == {i \in 1 .. n : s[i] # t[i]}
  <1>1. ASSUME D # {} PROVE FALSE
    <2>0. D \in SUBSET Nat
      OBVIOUS
    <2>1. PICK i \in D : \A k \in D : i <= k
      <3> HIDE DEF D
      <3>. QED
        BY <1>1, <2>0, NatLeast
    <2>2. i \in 1 .. n /\ s[i] # t[i] /\ \A k \in 1 .. n : k < i => s[k] = t[k]
      BY <2>1
    <2>3. PICK j \in 1 .. n : t[j] = s[i]
      <3>1. s[i] \in S
        BY <2>2
      <3>. QED
        BY <3>1 DEF Onto
    <2>4. PICK k \in 1 .. n : s[k] = t[i]
      <3>1. t[i] \in S
        BY <2>2
      <3>. QED
        BY <3>1 DEF Onto
    <2>5. i < j
      <3>1. j < i => s[j] = s[i]
        BY <2>2, <2>3
      <3>2. j # i
        BY <2>2, <2>3
      <3>. QED
        BY <1>0, <2>2, <3>1, <3>2
    <2>6. i < k
      <3>1. k < i => t[k] = t[i]
        BY <2>2, <2>4
      <3>2. k # i
        BY <2>2, <2>4
      <3>. QED
        BY <1>0, <2>2, <3>1, <3>2
    <2>7. <<t[i], t[j]>> \in R /\ <<s[i], s[k]>> \in R
      BY <2>2, <2>5, <2>6 DEF InOrder
    <2>8. s[i] \in S /\ t[i] \in S
      BY <2>2
    <2>. QED
      BY <2>3, <2>4, <2>7, <2>8 DEF IsOrder
  <1>2. \A i \in 1 .. n : s[i] = t[i]
    BY <1>1
  <1> HIDE DEF D
  <1>. QED
    BY <1>2

-----------------------------------------------------------------------------
(* Numbers in order. *)

Ascending(S) ==
  CHOOSE s \in [1 .. Cardinality(S) -> S] : \A i, j \in DOMAIN s : i < j => s[i] < s[j]

Below(S) == {p \in S \X S : p[1] < p[2]}

\* < orders the integers.
LEMMA BelowOrder ==
  ASSUME NEW S \in SUBSET Int
  PROVE  /\ IsOrder(Below(S), S)
         /\ \A n \in Nat : \A s \in [1 .. n -> S] :
              InOrder(Below(S), s, n) <=> \A i, j \in DOMAIN s : i < j => s[i] < s[j]
  <1>1. \A x, y \in S : <<x, y>> \in Below(S) <=> x < y
    BY DEF Below
  <1>2. IsOrder(Below(S), S)
    BY <1>1 DEF IsOrder
  <1>3. ASSUME NEW n \in Nat, NEW s \in [1 .. n -> S]
        PROVE  InOrder(Below(S), s, n) <=> \A i, j \in DOMAIN s : i < j => s[i] < s[j]
    <2>1. DOMAIN s = 1 .. n /\ \A i \in 1 .. n : s[i] \in S
      OBVIOUS
    <2>. QED
      BY <1>1, <2>1 DEF InOrder
  <1>. QED
    BY <1>2, <1>3

\* A finite set of integers, written in ascending order.
LEMMA AscendingIs ==
  ASSUME NEW S \in SUBSET Int, IsFiniteSet(S)
  PROVE  /\ Ascending(S) \in Seq(S) /\ Len(Ascending(S)) = Cardinality(S)
         /\ Increasing(Ascending(S)) /\ S = {Ascending(S)[i] : i \in 1 .. Cardinality(S)}
  <1> DEFINE n == Cardinality(S)
             a == Ascending(S)
  <1>1. n \in Nat
    BY FS_CardinalityType
  <1>2. \E s \in [1 .. n -> S] : \A i, j \in DOMAIN s : i < j => s[i] < s[j]
    BY <1>1, OrderExists, BelowOrder
  <1>3. a \in [1 .. n -> S] /\ \A i, j \in DOMAIN a : i < j => a[i] < a[j]
    BY <1>2 DEF Ascending
  <1>4. InOrder(Below(S), a, n)
    BY <1>1, <1>3, BelowOrder
  <1>5. S = {a[i] : i \in 1 .. n}
    BY <1>1, <1>3, <1>4, OrderBijection, BelowOrder
  <1>6. a \in Seq(S) /\ Len(a) = n
    <2> HIDE DEF a, n
    <2>1. a = [i \in 1 .. n |-> a[i]] /\ \A i \in 1 .. n : a[i] \in S
      BY <1>3
    <2>. QED
      BY <1>1, <2>1, SeqIs
  <1>. QED
    BY <1>3, <1>5, <1>6 DEF Increasing

\* What is ascending and lists a set is that order.
LEMMA AscendingUnique ==
  ASSUME NEW S \in SUBSET Int, NEW s \in Seq(S), Increasing(s), S = {s[i] : i \in 1 .. Len(s)}
  PROVE  Ascending(S) = s /\ IsFiniteSet(S) /\ Cardinality(S) = Len(s)
  <1> DEFINE n == Len(s)
  <1>1. n \in Nat /\ s \in [1 .. n -> S] /\ DOMAIN s = 1 .. n
    BY LenProperties
  <1>2. InOrder(Below(S), s, n)
    BY <1>1, BelowOrder DEF Increasing
  <1>3. IsFiniteSet(S) /\ Cardinality(S) = n
    BY <1>1, <1>2, OrderBijection, BelowOrder
  <1> DEFINE a == Ascending(S)
  <1>4. a \in Seq(S) /\ Len(a) = n /\ Increasing(a) /\ S = {a[i] : i \in 1 .. n}
    BY <1>3, AscendingIs
  <1>5. a \in [1 .. n -> S]
    BY <1>4, LenProperties
  <1>6. InOrder(Below(S), a, n)
    BY <1>1, <1>4, <1>5, BelowOrder DEF Increasing
  <1>7. a = s
    <2>1. Onto(s, n, S) /\ Onto(a, n, S)
      BY <1>4 DEF Onto
    <2>2. IsOrder(Below(S), S)
      BY BelowOrder
    <2> HIDE DEF a, n
    <2> DEFINE R == Below(S)
    <2>3. IsOrder(R, S) /\ InOrder(R, s, n) /\ InOrder(R, a, n)
      BY ONLY <1>2, <1>6, <2>2
    <2> HIDE DEF R
    <2>. QED
      BY ONLY <1>1, <1>5, <2>1, <2>3, OrderUnique
  <1>. QED
    BY <1>3, <1>7

-----------------------------------------------------------------------------
(* Less is the order of std::string. *)

\* What the comparison of two strings says, byte by byte.
LEMMA LessMeaning ==
  ASSUME NEW s \in Seq(Nat), NEW t \in Seq(Nat)
  PROVE  Less(s, t) <=> \E k \in Nat : /\ k <= Len(s) /\ k < Len(t)
                                       /\ \A j \in 1 .. k : s[j] = t[j]
                                       /\ k = Len(s) \/ s[k + 1] < t[k + 1]
  <1>1. Len(s) \in Nat /\ Len(t) \in Nat /\ (\A i \in 1 .. Len(s) : s[i] \in Nat)
        /\ \A i \in 1 .. Len(t) : t[i] \in Nat
    BY LenProperties, ElementOfSeq
  <1>2. ASSUME NEW k \in Nat, k <= Len(s), k < Len(t)
        PROVE  SubSeq(s, 1, k) = SubSeq(t, 1, k) <=> \A j \in 1 .. k : s[j] = t[j]
    <2>1. /\ \A i \in 1 .. k : s[i] \in Nat /\ t[i] \in Nat
          /\ k - 1 + 1 = k
      BY <1>1, <1>2
    <2>2. /\ SubSeq(s, 1, k) \in Seq(Nat) /\ SubSeq(t, 1, k) \in Seq(Nat)
          /\ Len(SubSeq(s, 1, k)) = k /\ Len(SubSeq(t, 1, k)) = k
          /\ \A i \in 1 .. k : SubSeq(s, 1, k)[i] = s[i] /\ SubSeq(t, 1, k)[i] = t[i]
      BY <2>1, SubSeqProperties
    <2>3. (\A j \in 1 .. k : s[j] = t[j]) => SubSeq(s, 1, k) = SubSeq(t, 1, k)
      BY <2>2, SeqEqual
    <2>4. SubSeq(s, 1, k) = SubSeq(t, 1, k) => \A j \in 1 .. k : s[j] = t[j]
      BY <2>2
    <2>. QED
      BY <2>3, <2>4
  <1>. QED
    BY <1>1, <1>2 DEF Less

Lower(S) == {p \in S \X S : Less(p[1], p[2])}

\* No string is less than itself.
LEMMA LessIrreflexive ==
  ASSUME NEW s \in Seq(Nat)
  PROVE  ~ Less(s, s)
  <1>1. Len(s) \in Nat /\ \A i \in 1 .. Len(s) : s[i] \in Nat
    BY LenProperties, ElementOfSeq
  <1>. QED
    BY <1>1, LessMeaning

\* Of two different strings one is less.
LEMMA LessTotal ==
  ASSUME NEW s \in Seq(Nat), NEW t \in Seq(Nat), s # t
  PROVE  Less(s, t) \/ Less(t, s)
  <1>1. Len(s) \in Nat /\ Len(t) \in Nat /\ (\A i \in 1 .. Len(s) : s[i] \in Nat)
        /\ \A i \in 1 .. Len(t) : t[i] \in Nat
    BY LenProperties, ElementOfSeq
  <1> DEFINE A == {k \in Nat : ~ (k + 1 <= Len(s) /\ k + 1 <= Len(t) /\ s[k + 1] = t[k + 1])}
  <1>2. Len(s) \in A
    BY <1>1
  <1>3. PICK m \in A : \A k \in A : m <= k
    BY <1>2, NatLeast
  <1>4. \A k \in Nat : k < m => k + 1 <= Len(s) /\ k + 1 <= Len(t) /\ s[k + 1] = t[k + 1]
    BY <1>3
  <1>0. m \in Nat /\ ~ (m + 1 <= Len(s) /\ m + 1 <= Len(t) /\ s[m + 1] = t[m + 1])
    BY <1>3
  <1> HIDE DEF A
  <1>5. m <= Len(s) /\ m <= Len(t) /\ \A j \in 1 .. m : s[j] = t[j]
    <2>1. m = 0 \/ (m - 1 \in Nat /\ m - 1 < m /\ (m - 1) + 1 = m)
      BY <1>0
    <2>2. m <= Len(s) /\ m <= Len(t)
      <3>1. CASE m = 0
        BY <1>1, <3>1
      <3>2. CASE m # 0
        BY <1>4, <2>1, <3>2
      <3>. QED
        BY <3>1, <3>2
    <2>3. ASSUME NEW j \in 1 .. m PROVE s[j] = t[j]
      <3>1. j - 1 \in Nat /\ j - 1 < m /\ (j - 1) + 1 = j
        BY <1>0
      <3>. QED
        BY <1>4, <3>1
    <2>. QED
      BY <2>2, <2>3
  <1>6. CASE m = Len(s) /\ m = Len(t)
    <2>1. Len(s) = Len(t) /\ \A j \in 1 .. Len(s) : s[j] = t[j]
      BY <1>5, <1>6
    <2>. QED
      BY <2>1, SeqEqual
  <1>7. CASE m = Len(s) /\ m < Len(t)
    BY <1>0, <1>1, <1>5, <1>7, LessMeaning
  <1>8. CASE m < Len(s) /\ m = Len(t)
    BY <1>0, <1>1, <1>5, <1>8, LessMeaning
  <1>9. CASE m < Len(s) /\ m < Len(t)
    <2>1. s[m + 1] \in Nat /\ t[m + 1] \in Nat /\ s[m + 1] # t[m + 1]
      BY <1>0, <1>1, <1>9
    <2>2. s[m + 1] < t[m + 1] \/ t[m + 1] < s[m + 1]
      BY <2>1
    <2>. QED
      BY <1>0, <1>5, <1>9, <2>2, LessMeaning
  <1>. QED
    BY <1>0, <1>1, <1>5, <1>6, <1>7, <1>8, <1>9

\* The comparison of strings is transitive.
LEMMA LessTransitive ==
  ASSUME NEW s \in Seq(Nat), NEW t \in Seq(Nat), NEW u \in Seq(Nat), Less(s, t), Less(t, u)
  PROVE  Less(s, u)
  <1>1. /\ Len(s) \in Nat /\ Len(t) \in Nat /\ Len(u) \in Nat
        /\ \A i \in 1 .. Len(s) : s[i] \in Nat
        /\ \A i \in 1 .. Len(t) : t[i] \in Nat
        /\ \A i \in 1 .. Len(u) : u[i] \in Nat
    BY LenProperties, ElementOfSeq
  <1>2. PICK k \in Nat : /\ k <= Len(s) /\ k < Len(t)
                         /\ \A j \in 1 .. k : s[j] = t[j]
                         /\ k = Len(s) \/ s[k + 1] < t[k + 1]
    BY LessMeaning
  <1>3. PICK l \in Nat : /\ l <= Len(t) /\ l < Len(u)
                         /\ \A j \in 1 .. l : t[j] = u[j]
                         /\ l = Len(t) \/ t[l + 1] < u[l + 1]
    BY LessMeaning
  <1>4. CASE k < l
    <2>1. k <= Len(s) /\ k < Len(u) /\ (\A j \in 1 .. k : s[j] = u[j]) /\ t[k + 1] = u[k + 1]
      BY <1>2, <1>3, <1>4
    <2>2. k = Len(s) \/ s[k + 1] < u[k + 1]
      BY <1>2, <2>1
    <2>. QED
      BY <2>1, <2>2, LessMeaning
  <1>5. CASE k = l
    <2>1. k <= Len(s) /\ k < Len(u) /\ \A j \in 1 .. k : s[j] = u[j]
      BY <1>2, <1>3, <1>5
    <2>2. k = Len(s) \/ s[k + 1] < u[k + 1]
      <3>1. CASE k = Len(s)
        BY <3>1
      <3>2. CASE k # Len(s)
        <4>1. s[k + 1] \in Nat /\ t[k + 1] \in Nat /\ u[k + 1] \in Nat
          BY <1>1, <1>2, <1>3, <1>5, <3>2
        <4>2. s[k + 1] < t[k + 1] /\ t[k + 1] < u[k + 1]
          BY <1>1, <1>2, <1>3, <1>5, <3>2
        <4>. QED
          BY <4>1, <4>2
      <3>. QED
        BY <3>1, <3>2
    <2>. QED
      BY <2>1, <2>2, LessMeaning
  <1>6. CASE l < k
    <2>1. l <= Len(s) /\ l < Len(u) /\ (\A j \in 1 .. l : s[j] = u[j]) /\ s[l + 1] = t[l + 1]
      BY <1>2, <1>3, <1>6
    <2>2. s[l + 1] < u[l + 1]
      BY <1>1, <1>2, <1>3, <1>6, <2>1
    <2>. QED
      BY <2>1, <2>2, LessMeaning
  <1>. QED
    BY <1>4, <1>5, <1>6

\* It orders the strings.
LEMMA LowerOrder ==
  ASSUME NEW S \in SUBSET Seq(Nat)
  PROVE  /\ IsOrder(Lower(S), S)
         /\ \A n \in Nat : \A s \in [1 .. n -> S] :
              InOrder(Lower(S), s, n) <=> \A i, j \in DOMAIN s : i < j => Less(s[i], s[j])
  <1>1. \A x, y \in S : <<x, y>> \in Lower(S) <=> Less(x, y)
    BY DEF Lower
  <1>2. IsOrder(Lower(S), S)
    <2>1. \A x \in S : x \in Seq(Nat)
      OBVIOUS
    <2>. QED
      BY <1>1, <2>1, LessIrreflexive, LessTotal, LessTransitive DEF IsOrder
  <1>3. ASSUME NEW n \in Nat, NEW s \in [1 .. n -> S]
        PROVE  InOrder(Lower(S), s, n) <=> \A i, j \in DOMAIN s : i < j => Less(s[i], s[j])
    <2>1. DOMAIN s = 1 .. n /\ \A i \in 1 .. n : s[i] \in S
      OBVIOUS
    <2>. QED
      BY <1>1, <2>1 DEF InOrder
  <1>. QED
    BY <1>2, <1>3

Alphabetic(S) ==
  CHOOSE s \in [1 .. Cardinality(S) -> S] : \A i, j \in DOMAIN s : i < j => Less(s[i], s[j])

Rising(s) == \A i, j \in DOMAIN s : i < j => Less(s[i], s[j])

\* A finite set of strings, written in order.
LEMMA AlphabeticIs ==
  ASSUME NEW S \in SUBSET Seq(Nat), IsFiniteSet(S)
  PROVE  /\ Alphabetic(S) \in Seq(S) /\ Len(Alphabetic(S)) = Cardinality(S)
         /\ Rising(Alphabetic(S)) /\ S = {Alphabetic(S)[i] : i \in 1 .. Cardinality(S)}
  <1> DEFINE n == Cardinality(S)
             a == Alphabetic(S)
  <1>1. n \in Nat
    BY FS_CardinalityType
  <1>2. \E s \in [1 .. n -> S] : \A i, j \in DOMAIN s : i < j => Less(s[i], s[j])
    BY <1>1, OrderExists, LowerOrder
  <1>3. a \in [1 .. n -> S] /\ \A i, j \in DOMAIN a : i < j => Less(a[i], a[j])
    BY <1>2 DEF Alphabetic
  <1>4. InOrder(Lower(S), a, n)
    BY <1>1, <1>3, LowerOrder
  <1>5. S = {a[i] : i \in 1 .. n}
    BY <1>1, <1>3, <1>4, OrderBijection, LowerOrder
  <1>6. a \in Seq(S) /\ Len(a) = n
    <2> HIDE DEF a, n
    <2>1. a = [i \in 1 .. n |-> a[i]] /\ \A i \in 1 .. n : a[i] \in S
      BY <1>3
    <2>. QED
      BY <1>1, <2>1, SeqIs
  <1>. QED
    BY <1>3, <1>5, <1>6 DEF Rising

\* A rising sequence has each string once, and the lesser first.
LEMMA RisingOnce ==
  ASSUME NEW s \in Seq(Seq(Nat)), Rising(s), NEW i \in 1 .. Len(s), NEW j \in 1 .. Len(s)
  PROVE  /\ s[i] = s[j] => i = j
         /\ Less(s[i], s[j]) => i < j
  <1>1. DOMAIN s = 1 .. Len(s) /\ Len(s) \in Nat /\ s[i] \in Seq(Nat) /\ s[j] \in Seq(Nat)
    BY LenProperties, ElementOfSeq
  <1>2. (i < j => Less(s[i], s[j])) /\ (j < i => Less(s[j], s[i]))
    BY <1>1 DEF Rising
  <1>3. ~ Less(s[i], s[i]) /\ ~ Less(s[j], s[j])
    BY <1>1, LessIrreflexive
  <1>4. ~ (Less(s[i], s[j]) /\ Less(s[j], s[i]))
    BY <1>1, <1>3, LessTransitive
  <1>5. i < j \/ i = j \/ j < i
    BY <1>1
  <1>. QED
    BY <1>2, <1>3, <1>4, <1>5

\* The length of a function on 1 .. n.
LEMMA FunLen ==
  ASSUME NEW s, NEW n \in Nat, s = [k \in 1 .. n |-> s[k]]
  PROVE  Len(s) = n /\ DOMAIN s = 1 .. n
  <1> DEFINE X == {s[k] : k \in 1 .. n}
  <1>1. \A k \in 1 .. n : s[k] \in X
    OBVIOUS
  <1> HIDE DEF X
  <1>. QED
    BY <1>1, SeqIs

\* A sequence with one member more.
LEMMA ConcatAtEnd ==
  ASSUME NEW X, NEW s \in Seq(X), NEW x \in X
  PROVE  /\ Append(s, x) \in Seq(X) /\ Len(Append(s, x)) = Len(s) + 1 /\ Len(s) \in Nat
         /\ DOMAIN s = 1 .. Len(s) /\ DOMAIN Append(s, x) = 1 .. (Len(s) + 1)
         /\ \A i \in 1 .. Len(s) : Append(s, x)[i] = s[i]
         /\ Append(s, x)[Len(s) + 1] = x
  <1>1. /\ Append(s, x) \in Seq(X) /\ Len(Append(s, x)) = Len(s) + 1
        /\ \A i \in 1 .. Len(s) : Append(s, x)[i] = s[i]
        /\ Append(s, x)[Len(s) + 1] = x
    BY AppendProperties
  <1>. QED
    BY <1>1, LenProperties

\* The parts with something in them make the whole.
Picked(x, G) == [k \in 1 .. Cardinality(G) |-> x[Ascending(G)[k]]]

\* Leaving out empty sequences changes nothing when flattened.
LEMMA FlattenPicked ==
  ASSUME NEW X, NEW x \in Seq(Seq(X)), NEW G \in SUBSET (1 .. Len(x)),
         \A i \in (1 .. Len(x)) \ G : x[i] = <<>>
  PROVE  FlattenSeq(Picked(x, G)) = FlattenSeq(x) /\ Picked(x, G) \in Seq(Seq(X))
  <1> DEFINE Right(y, H) == FlattenSeq(Picked(y, H)) = FlattenSeq(y) /\ Picked(y, H) \in Seq(Seq(X))
             U == {y \in Seq(Seq(X)) :
                     \A H \in SUBSET (1 .. Len(y)) :
                       (\A i \in (1 .. Len(y)) \ H : y[i] = <<>>) => Right(y, H)}
  <1>1. <<>> \in U
    <2>1. <<>> \in Seq(Seq(X)) /\ Len(<<>>) = 0
      BY EmptySeq
    <2>2. ASSUME NEW H \in SUBSET (1 .. 0) PROVE Right(<<>>, H)
      <3>1. H = {} /\ Cardinality(H) = 0
        <4>1. H = {}
          OBVIOUS
        <4>. QED
          BY ONLY <4>1, FS_EmptySet
      <3>2. Picked(<<>>, H) = [k \in 1 .. 0 |-> 0]
        BY <3>1 DEF Picked
      <3>3. [k \in 1 .. 0 |-> 0] \in Seq(Seq(X)) /\ Len([k \in 1 .. 0 |-> 0]) = 0
        <4> DEFINE e == [k \in 1 .. 0 |-> 0]
        <4>1. e = [k \in 1 .. 0 |-> e[k]] /\ \A k \in 1 .. 0 : e[k] \in Seq(X)
          OBVIOUS
        <4> HIDE DEF e
        <4>2. e \in Seq(Seq(X)) /\ Len(e) = 0
          BY <4>1, SeqIs
        <4>. QED
          BY <4>2 DEF e
      <3>4. Picked(<<>>, H) = <<>>
        BY <3>2, <3>3, EmptySeq
      <3>. QED
        BY <2>1, <3>4
    <2>. QED
      BY <2>1, <2>2
  <1>2. ASSUME NEW y \in Seq(Seq(X)), NEW e \in Seq(X), y \in U PROVE Append(y, e) \in U
    <2> DEFINE z == Append(y, e)
               n == Len(y)
    <2>1. /\ z \in Seq(Seq(X)) /\ Len(z) = n + 1 /\ n \in Nat
          /\ z[n + 1] = e /\ \A i \in 1 .. n : z[i] = y[i]
      BY ConcatAtEnd
    <2>2. FlattenSeq(z) = FlattenSeq(y) \o e /\ FlattenSeq(y) \in Seq(X)
      BY FlattenRec, FlattenType
    <2>3. \A H \in SUBSET (1 .. n) : (\A i \in (1 .. n) \ H : y[i] = <<>>) => Right(y, H)
      BY <1>2
    <2> HIDE DEF z, n
    <2> SUFFICES ASSUME NEW H \in SUBSET (1 .. (n + 1)),
                        \A i \in (1 .. (n + 1)) \ H : z[i] = <<>>
                 PROVE  Right(z, H)
      BY <2>1 DEF z
    <2>4. \A K \in SUBSET (1 .. n) : /\ K \in SUBSET Int /\ IsFiniteSet(K) /\ Cardinality(K) \in Nat
                                     /\ \A k \in 1 .. Cardinality(K) : Ascending(K)[k] \in K
      <3> TAKE K \in SUBSET (1 .. n)
      <3>1. IsFiniteSet(1 .. n)
        BY <2>1, FS_Interval
      <3>2. K \in SUBSET Int /\ IsFiniteSet(K) /\ Cardinality(K) \in Nat
        <4>1. K \in SUBSET Int
          BY <2>1
        <4>2. IsFiniteSet(K)
          BY ONLY <3>1, K \in SUBSET (1 .. n), FS_Subset
        <4>. QED
          BY <4>1, <4>2, FS_CardinalityType
      <3>3. Ascending(K) \in Seq(K) /\ Len(Ascending(K)) = Cardinality(K)
        BY <3>2, AscendingIs
      <3>. QED
        BY <3>2, <3>3, ElementOfSeq
    <2>5. CASE n + 1 \notin H
      <3>1. H \in SUBSET (1 .. n) /\ e = <<>> /\ \A i \in (1 .. n) \ H : y[i] = <<>>
        BY <2>1, <2>5, SMTT(60)
      <3>2. Right(y, H)
        BY <2>3, <3>1
      <3>3. Picked(z, H) = Picked(y, H)
        BY <2>1, <2>4, <3>1 DEF Picked
      <3>4. FlattenSeq(z) = FlattenSeq(y)
        BY <2>2, <3>1, ConcatEmptySeq
      <3>. QED
        BY <3>2, <3>3, <3>4
    <2>6. CASE n + 1 \in H
      <3> DEFINE K == H \ {n + 1}
                 a == Ascending(K)
                 c == Cardinality(K)
      <3>1. K \in SUBSET (1 .. n) /\ \A i \in (1 .. n) \ K : y[i] = <<>>
        <4>1. n \in Nat /\ \A i \in 1 .. n : z[i] = y[i]
          BY ONLY <2>1
        <4>2. \A i \in 1 .. (n + 1) : i # n + 1 => i \in 1 .. n
          BY ONLY <4>1
        <4>3. \A i \in 1 .. n : i \in 1 .. (n + 1) /\ i # n + 1
          BY ONLY <4>1
        <4>4. K \in SUBSET (1 .. n)
          BY <4>2
        <4>5. \A i \in (1 .. n) \ K : y[i] = <<>>
          BY <4>1, <4>3
        <4>. QED
          BY ONLY <4>4, <4>5
      <3>2. Right(y, K)
        BY <2>3, <3>1
      <3>3. /\ K \in SUBSET Int /\ c \in Nat /\ a \in Seq(K) /\ Len(a) = c /\ Increasing(a)
            /\ K = {a[i] : i \in 1 .. c}
        <4>1. K \in SUBSET Int /\ IsFiniteSet(K) /\ Cardinality(K) \in Nat
          BY <2>4, <3>1
        <4> HIDE DEF K
        <4>2. /\ Ascending(K) \in Seq(K) /\ Len(Ascending(K)) = Cardinality(K)
              /\ Increasing(Ascending(K)) /\ K = {Ascending(K)[i] : i \in 1 .. Cardinality(K)}
          BY ONLY <4>1, AscendingIs
        <4>. QED
          BY <4>1, <4>2
      <3> HIDE DEF a, c
      <3>4. /\ \A i \in 1 .. c : a[i] \in K /\ a[i] \in 1 .. n
            /\ DOMAIN a = 1 .. c
        BY <3>1, <3>3, ElementOfSeq, LenProperties
      <3> DEFINE b == Append(a, n + 1)
      <3>5. a \in Seq(H) /\ n + 1 \in H
        <4>1. K \subseteq H
          OBVIOUS
        <4>. QED
          BY <2>6, <3>3, <4>1, SeqMonotonic
      <3>6. /\ b \in Seq(H) /\ Len(b) = c + 1 /\ DOMAIN b = 1 .. (c + 1) /\ b[c + 1] = n + 1
            /\ \A i \in 1 .. c : b[i] = a[i]
        BY ONLY <3>3, <3>5, ConcatAtEnd
      <3> HIDE DEF K, b
      <3>7. Increasing(b)
        <4> SUFFICES ASSUME NEW i \in 1 .. (c + 1), NEW j \in 1 .. (c + 1), i < j PROVE b[i] < b[j]
          BY <3>6 DEF Increasing
        <4>0. c \in Nat
          BY ONLY <3>3
        <4>5. i \in 1 .. c
          BY <4>0
        <4>1. i \in 1 .. c /\ b[i] = a[i] /\ a[i] \in 1 .. n
          BY ONLY <3>4, <3>6, <4>5
        <4>2. CASE j = c + 1
          BY <2>1, <3>6, <4>1, <4>2
        <4>3. CASE j # c + 1
          <5>1. j \in 1 .. c /\ b[j] = a[j]
            BY <3>3, <3>6, <4>3
          <5>. QED
            BY <3>3, <3>4, <4>1, <5>1 DEF Increasing
        <4>. QED
          BY <4>2, <4>3
      <3>8. H = {b[i] : i \in 1 .. Len(b)}
        <4>1. \A i \in 1 .. Len(b) : b[i] \in H
          BY <3>6, ElementOfSeq
        <4>2. ASSUME NEW h \in H PROVE \E i \in 1 .. (c + 1) : b[i] = h
          <5>1. CASE h = n + 1
            BY <3>3, <3>6, <5>1
          <5>2. CASE h # n + 1
            <6>1. h \in K
              BY <5>2 DEF K
            <6>2. PICK i \in 1 .. c : a[i] = h
              BY <3>3, <6>1
            <6>3. i \in 1 .. (c + 1) /\ b[i] = h
              BY <3>3, <3>6, <6>2
            <6>. QED
              BY <6>3
          <5>. QED
            BY <5>1, <5>2
        <4>. QED
          BY <3>6, <4>1, <4>2
      <3>9. Ascending(H) = b /\ Cardinality(H) = c + 1
        <4>1. H \in SUBSET Int
          BY <2>1
        <4>. QED
          BY <3>6, <3>7, <3>8, <4>1, AscendingUnique
      <3> DEFINE p == Picked(y, K)
                 q == Append(p, e)
      <3>10. p \in Seq(Seq(X)) /\ p = [k \in 1 .. c |-> y[a[k]]]
        BY <3>2 DEF Picked, a, c
      <3>11. Len(p) = c /\ \A k \in 1 .. c : p[k] = y[a[k]]
        <4> HIDE DEF p
        <4>1. p = [k \in 1 .. c |-> p[k]]
          BY <3>10
        <4>. QED
          BY <3>3, <3>10, <4>1, FunLen
      <3>12. /\ q \in Seq(Seq(X)) /\ Len(q) = c + 1 /\ DOMAIN q = 1 .. (c + 1)
             /\ q[c + 1] = e /\ \A i \in 1 .. c : q[i] = p[i]
        <4> HIDE DEF p
        <4>1. p \in Seq(Seq(X)) /\ Len(p) = c
          BY ONLY <3>10, <3>11
        <4>. QED
          BY ONLY <4>1, e \in Seq(X), ConcatAtEnd
      <3> HIDE DEF p, q
      <3>13. Picked(z, H) = q
        <4>1. Picked(z, H) = [k \in 1 .. (c + 1) |-> z[b[k]]]
          BY <3>9 DEF Picked
        <4>2. \A k \in 1 .. (c + 1) : z[b[k]] = q[k]
          <5> TAKE k \in 1 .. (c + 1)
          <5>1. CASE k = c + 1
            BY <2>1, <3>6, <3>12, <5>1
          <5>2. CASE k # c + 1
            <6>1. k \in 1 .. c
              BY <3>3, <5>2
            <6>2. b[k] = a[k] /\ a[k] \in 1 .. n /\ q[k] = p[k] /\ p[k] = y[a[k]]
              BY <3>4, <3>6, <3>11, <3>12, <6>1
            <6>3. z[a[k]] = y[a[k]]
              BY <2>1, <6>2
            <6>. QED
              BY ONLY <6>2, <6>3
          <5>. QED
            BY <5>1, <5>2
        <4>3. q = [k \in 1 .. (c + 1) |-> q[k]]
          BY <3>12, LenProperties
        <4>. QED
          BY <4>1, <4>2, <4>3
      <3>14. FlattenSeq(q) = FlattenSeq(p) \o e
        BY <3>10, FlattenRec DEF q
      <3>. QED
        BY <2>2, <3>2, <3>12, <3>13, <3>14 DEF p
    <2>. QED
      BY <2>5, <2>6
  <1>3. x \in U
    <2> HIDE DEF U
    <2>. QED
      BY <1>1, <1>2, SeqInductive
  <1>. QED
    BY <1>3

-----------------------------------------------------------------------------
(* Segment files. *)

DocumentRow == [id : Nat, live : BOOLEAN, tokens : Nat, length : Nat, offset : Nat]
TermRow == [offset : Nat, length : Nat, df : Nat, start : Nat, bytes : Nat]
PostingRow == [doc : Nat, freq : Nat, offset : Nat]

SegmentFiles ==
  [flags : BOOLEAN, size : Nat, offsets : [1 .. 5 -> Nat], lengths : [1 .. 5 -> Nat],
   docs : Seq(DocumentRow), paths : Seq(Nat), terms : Seq(TermRow), names : Seq(Nat),
   posts : Seq(PostingRow), places : Seq(Nat)]

\* The fields of a segment file.
LEMMA FileTyped ==
  ASSUME NEW f \in SegmentFiles
  PROVE  /\ f.flags \in BOOLEAN /\ f.size \in Nat
         /\ f.offsets \in [1 .. 5 -> Nat] /\ f.lengths \in [1 .. 5 -> Nat]
         /\ f.docs \in Seq(DocumentRow) /\ f.paths \in Seq(Nat)
         /\ f.terms \in Seq(TermRow) /\ f.names \in Seq(Nat)
         /\ f.posts \in Seq(PostingRow) /\ f.places \in Seq(Nat)
         /\ Len(f.docs) \in Nat /\ DOMAIN f.docs = 1 .. Len(f.docs)
         /\ Len(f.terms) \in Nat /\ DOMAIN f.terms = 1 .. Len(f.terms)
         /\ Len(f.posts) \in Nat /\ DOMAIN f.posts = 1 .. Len(f.posts)
         /\ Len(f.paths) \in Nat /\ Len(f.names) \in Nat /\ Len(f.places) \in Nat
         /\ \A i \in 1 .. Len(f.docs) : f.docs[i] \in DocumentRow
         /\ \A i \in 1 .. Len(f.terms) : f.terms[i] \in TermRow
         /\ \A i \in 1 .. Len(f.posts) : f.posts[i] \in PostingRow
  <1>1. /\ f.flags \in BOOLEAN /\ f.size \in Nat
        /\ f.offsets \in [1 .. 5 -> Nat] /\ f.lengths \in [1 .. 5 -> Nat]
        /\ f.docs \in Seq(DocumentRow) /\ f.paths \in Seq(Nat)
        /\ f.terms \in Seq(TermRow) /\ f.names \in Seq(Nat)
        /\ f.posts \in Seq(PostingRow) /\ f.places \in Seq(Nat)
    BY DEF SegmentFiles
  <1>. QED
    BY <1>1, LenProperties, ElementOfSeq

\* The sections of a file are those of its header.
Cut(f) == f.lengths = Sections(f)

\* The five section lengths.
LEMMA SectionLengths ==
  ASSUME NEW f \in SegmentFiles
  PROVE  /\ Sections(f)[1] = CountSize + DocumentRecordSize * Len(f.docs)
         /\ Sections(f)[2] = Len(f.paths)
         /\ Sections(f)[3] = CountSize + TermRecordSize * Len(f.terms) + Len(f.names)
         /\ Sections(f)[4] = PostingRecordSize * Len(f.posts)
         /\ Sections(f)[5] = PositionSize * Len(f.places)
         /\ Sections(f) \in [1 .. 5 -> Nat] /\ Len(Sections(f)) = 5
  <1>1. /\ Len(f.docs) \in Nat /\ Len(f.terms) \in Nat /\ Len(f.posts) \in Nat
        /\ Len(f.paths) \in Nat /\ Len(f.names) \in Nat /\ Len(f.places) \in Nat
    BY FileTyped
  <1> DEFINE a == CountSize + DocumentRecordSize * Len(f.docs)
             b == Len(f.paths)
             c == CountSize + TermRecordSize * Len(f.terms) + Len(f.names)
             d == PostingRecordSize * Len(f.posts)
             e == PositionSize * Len(f.places)
  <1>2. a \in Nat /\ b \in Nat /\ c \in Nat /\ d \in Nat /\ e \in Nat
    <2>1. \A x, y \in Nat : 8 + 48 * x \in Nat /\ 8 + 32 * x + y \in Nat /\ 16 * x \in Nat /\ 4 * x \in Nat
      OBVIOUS
    <2>. QED
      BY ONLY <1>1, <2>1 DEF CountSize, DocumentRecordSize, TermRecordSize, PostingRecordSize, PositionSize
  <1>3. Sections(f) = <<a, b, c, d, e>>
    BY DEF Sections
  <1> HIDE DEF a, b, c, d, e
  <1>4. <<a, b, c, d, e>> \in [1 .. 5 -> Nat] /\ Len(<<a, b, c, d, e>>) = 5
    BY <1>2
  <1>5. /\ <<a, b, c, d, e>>[1] = a /\ <<a, b, c, d, e>>[2] = b /\ <<a, b, c, d, e>>[3] = c
        /\ <<a, b, c, d, e>>[4] = d /\ <<a, b, c, d, e>>[5] = e
    BY <1>2
  <1>. QED
    BY <1>3, <1>4, <1>5 DEF a, b, c, d, e

-----------------------------------------------------------------------------
(* One file for one index. *)

\* Sum is the total of the whole sequence.
LEMMA SumIs ==
  ASSUME NEW s, NEW n \in Nat, s = [k \in 1 .. n |-> s[k]]
  PROVE  Sum(s) = SumTo(s, n)
  BY FunLen DEF Sum

DocLengths(f) == [j \in DOMAIN f.docs |-> f.docs[j].length]
LoadedDocs(f) ==
  [i \in DOMAIN f.docs |->
     [path |-> PathAt(f, f.docs[i]), live |-> f.docs[i].live, tokens |-> f.docs[i].tokens]]

\* Valid document records are those of the documents loaded from them, and
\* the paths of these fill the section.
LEMMA CanonicalDocs ==
  ASSUME NEW f \in SegmentFiles, Cut(f), DocumentsValid(f)
  PROVE  /\ DocumentRecords(LoadedDocs(f)) = f.docs
         /\ FlattenSeq([i \in DOMAIN LoadedDocs(f) |-> LoadedDocs(f)[i].path]) = f.paths
  <1> DEFINE n == Len(f.docs)
             e == DocLengths(f)
             L == LoadedDocs(f)
  <1>1. n \in Nat /\ DOMAIN f.docs = 1 .. n /\ f.docs \in Seq(DocumentRow) /\ f.paths \in Seq(Nat)
        /\ \A i \in 1 .. n : f.docs[i] \in DocumentRow
    BY FileTyped
  <1>2. DOMAIN e = 1 .. n /\ e = [k \in 1 .. n |-> e[k]] /\ \A i \in 1 .. n : e[i] = f.docs[i].length /\ e[i] \in Nat
    BY <1>1 DEF DocLengths, DocumentRow
  <1>3. f.lengths[2] = Len(f.paths)
    BY SectionLengths DEF Cut
  <1>4. /\ \A i \in 1 .. n : /\ f.docs[i].id = i - 1
                             /\ f.docs[i].offset = SumTo(e, i - 1)
                             /\ f.docs[i].offset + f.docs[i].length <= f.lengths[2]
        /\ Sum(e) = f.lengths[2]
    BY <1>1 DEF DocumentsValid, DocLengths, DocumentsEnd, Inside
  <1>5. SumTo(e, n) = Len(f.paths)
    BY <1>1, <1>2, <1>3, <1>4, SumIs
  <1>6. DOMAIN L = 1 .. n /\ L = [i \in 1 .. n |-> L[i]]
    BY <1>1 DEF LoadedDocs
  <1>7. ASSUME NEW i \in 1 .. n
        PROVE  /\ L[i].path = SubSeq(f.paths, SumTo(e, i - 1) + 1, SumTo(e, i - 1) + e[i])
               /\ Len(L[i].path) = e[i] /\ L[i].live = f.docs[i].live
               /\ L[i].tokens = f.docs[i].tokens
    <2>1. L[i] = [path |-> PathAt(f, f.docs[i]), live |-> f.docs[i].live, tokens |-> f.docs[i].tokens]
      BY <1>1 DEF LoadedDocs
    <2>2. L[i].path = SubSeq(f.paths, SumTo(e, i - 1) + 1, SumTo(e, i - 1) + e[i])
      <3>1. L[i].path = PathAt(f, f.docs[i])
        BY ONLY <2>1
      <3>2. PathAt(f, f.docs[i]) = SubSeq(f.paths, f.docs[i].offset + 1, f.docs[i].offset + f.docs[i].length)
        BY DEF PathAt
      <3>3. f.docs[i].offset = SumTo(e, i - 1) /\ f.docs[i].length = e[i]
        BY <1>2, <1>4
      <3>. QED
        BY ONLY <3>1, <3>2, <3>3
    <2>3. SumTo(e, i - 1) \in Nat
      BY <1>1, <1>4 DEF DocumentRow
    <2>4. SumTo(e, i - 1) + e[i] <= Len(f.paths)
      BY <1>2, <1>3, <1>4
    <2>. QED
      <3>1. f.paths \in Seq(Nat) /\ e[i] \in Nat
        BY <1>1, <1>2
      <3>2. Len(L[i].path) = e[i]
        BY ONLY <2>2, <2>3, <2>4, <3>1, Piece
      <3>3. L[i].live = f.docs[i].live /\ L[i].tokens = f.docs[i].tokens
        BY ONLY <2>1
      <3>. QED
        BY ONLY <2>2, <3>2, <3>3
  <1> HIDE DEF n, e, L
  <1>8. FlattenSeq([i \in DOMAIN L |-> L[i].path]) = f.paths
    <2> DEFINE ss == [i \in DOMAIN L |-> L[i].path]
    <2>1. IsCut(ss, f.paths, e, n)
      BY <1>2, <1>5, <1>6, <1>7 DEF IsCut
    <2> HIDE DEF ss
    <2>2. FlattenSeq(ss) = f.paths
      BY <1>1, <2>1, FlattenCut
    <2>. QED
      BY <2>2 DEF ss
  <1>9. DocumentRecords(L) = f.docs
    <2> DEFINE g == [j \in DOMAIN L |-> Len(L[j].path)]
    <2>1. \A j \in 1 .. n : g[j] = e[j]
      BY <1>6, <1>7
    <2>2. DocumentRecords(L) = [i \in 1 .. n |->
             [id |-> i - 1, live |-> L[i].live, tokens |-> L[i].tokens,
              length |-> Len(L[i].path), offset |-> SumTo(g, i - 1)]]
      BY <1>6 DEF DocumentRecords
    <2> HIDE DEF g
    <2>3. ASSUME NEW i \in 1 .. n
          PROVE  [id |-> i - 1, live |-> L[i].live, tokens |-> L[i].tokens,
                  length |-> Len(L[i].path), offset |-> SumTo(g, i - 1)] = f.docs[i]
      <3>1. SumTo(g, i - 1) = SumTo(e, i - 1)
        <4>1. i - 1 \in Nat /\ \A j \in 1 .. (i - 1) : g[j] = e[j]
          BY <1>1, <2>1
        <4>. QED
          BY <4>1, SumToSame
      <3>2. f.docs[i] = [id |-> f.docs[i].id, live |-> f.docs[i].live, tokens |-> f.docs[i].tokens,
                         length |-> f.docs[i].length, offset |-> f.docs[i].offset]
        BY <1>1 DEF DocumentRow
      <3>. QED
        BY <1>2, <1>4, <1>7, <3>1, <3>2 DEF n, e
    <2>4. f.docs = [i \in 1 .. n |-> f.docs[i]]
      BY <1>1, LenProperties
    <2>. QED
      BY <2>2, <2>3, <2>4
  <1>. QED
    BY <1>8, <1>9 DEF L

TermLengths(f) == [j \in DOMAIN f.terms |-> f.terms[j].length]
TermCounts(f) == [j \in DOMAIN f.terms |-> f.terms[j].df]

\* What the second half says of the ends of the sections.
TermsEnd(f) ==
  /\ TermBytesBegin(f) + Sum(TermLengths(f)) = f.lengths[3]
  /\ Sum([i \in DOMAIN f.terms |-> f.terms[i].bytes]) = f.lengths[4]

\* What the reader has checked of a term record.
LEMMA TermRowFields ==
  ASSUME NEW f \in SegmentFiles, Cut(f), TermsValid(f), TermsEnd(f), NEW n, n = Len(f.terms)
  PROVE  /\ n \in Nat /\ DOMAIN f.terms = 1 .. n
         /\ TermLengths(f) = [j \in 1 .. n |-> TermLengths(f)[j]]
         /\ TermCounts(f) = [j \in 1 .. n |-> TermCounts(f)[j]]
         /\ \A i \in 1 .. n : /\ TermLengths(f)[i] = f.terms[i].length /\ TermCounts(f)[i] = f.terms[i].df
                              /\ f.terms[i].length \in Nat /\ f.terms[i].df \in Nat
                              /\ f.terms[i].df > 0 /\ f.terms[i].length > 0
                              /\ f.terms[i].offset = TermBytesBegin(f) + SumTo(TermLengths(f), i - 1)
                              /\ f.terms[i].bytes = PostingRecordSize * f.terms[i].df
                              /\ f.terms[i].start = PostingRecordSize * SumTo(TermCounts(f), i - 1)
                              /\ SumTo(TermLengths(f), i - 1) \in Nat
                              /\ SumTo(TermCounts(f), i - 1) \in Nat
                              /\ SumTo(TermLengths(f), i - 1) + f.terms[i].length <= Len(f.names)
                              /\ SumTo(TermCounts(f), i - 1) + f.terms[i].df <= Len(f.posts)
         /\ SumTo(TermLengths(f), n) = Len(f.names)
         /\ SumTo(TermCounts(f), n) = Len(f.posts)
  <1> DEFINE l == TermLengths(f)
             c == TermCounts(f)
             b == [i \in DOMAIN f.terms |-> f.terms[i].bytes]
  <1>1. n \in Nat /\ DOMAIN f.terms = 1 .. n /\ \A i \in 1 .. n : f.terms[i] \in TermRow
    BY FileTyped
  <1>2. \A i \in 1 .. n : /\ f.terms[i].length \in Nat /\ f.terms[i].df \in Nat
                          /\ f.terms[i].bytes \in Nat /\ f.terms[i].start \in Nat /\ f.terms[i].offset \in Nat
    BY <1>1 DEF TermRow
  <1>3. /\ DOMAIN l = 1 .. n /\ DOMAIN c = 1 .. n /\ DOMAIN b = 1 .. n
        /\ l = [j \in 1 .. n |-> l[j]] /\ c = [j \in 1 .. n |-> c[j]] /\ b = [j \in 1 .. n |-> b[j]]
        /\ \A i \in 1 .. n : l[i] = f.terms[i].length /\ c[i] = f.terms[i].df /\ b[i] = f.terms[i].bytes
    BY <1>1 DEF TermLengths, TermCounts
  <1>4. /\ f.lengths[3] = CountSize + TermRecordSize * Len(f.terms) + Len(f.names)
        /\ f.lengths[4] = PostingRecordSize * Len(f.posts)
    BY SectionLengths DEF Cut
  <1>5. ASSUME NEW i \in 1 .. n
        PROVE  /\ f.terms[i].length > 0
               /\ f.terms[i].offset = TermBytesBegin(f) + SumTo(l, i - 1)
               /\ f.terms[i].df > 0
               /\ f.terms[i].bytes = PostingRecordSize * f.terms[i].df
               /\ f.terms[i].start = SumTo(b, i - 1)
    BY <1>1 DEF TermsValid, TermLengths
  <1>6. TermBytesBegin(f) + Sum(l) = f.lengths[3] /\ Sum(b) = f.lengths[4]
    BY DEF TermsEnd
  <1>7. Sum(l) = SumTo(l, n) /\ Sum(b) = SumTo(b, n)
    BY <1>1, <1>3, SumIs
  <1>0. Len(f.names) \in Nat /\ Len(f.posts) \in Nat /\ Len(f.terms) = n
    BY FileTyped
  <1> HIDE DEF l, c, b
  <1>8. \A i \in 0 .. n : SumTo(l, i) \in Nat /\ SumTo(c, i) \in Nat /\ SumTo(b, i) = 16 * SumTo(c, i)
    <2> SUFFICES ASSUME NEW i \in 0 .. n
                 PROVE  SumTo(l, i) \in Nat /\ SumTo(c, i) \in Nat /\ SumTo(b, i) = 16 * SumTo(c, i)
      OBVIOUS
    <2>1. \A k \in 1 .. i : k \in 1 .. n
      OBVIOUS
    <2>2. \A k \in 1 .. i : l[k] \in Nat /\ c[k] \in Nat /\ b[k] = 16 * c[k]
      BY <1>2, <1>3, <1>5, <2>1, ZenonT(60) DEF PostingRecordSize
    <2>3. i \in Nat /\ 16 \in Nat
      OBVIOUS
    <2>. QED
      BY <2>2, <2>3, SumToNat, SumToScale
  <1>9. SumTo(l, n) = Len(f.names)
    <2>1. n \in 0 .. n
      BY <1>1
    <2>2. SumTo(l, n) \in Nat /\ Sum(l) = SumTo(l, n)
      BY <1>7, <1>8, <2>1
    <2>3. TermBytesBegin(f) = 8 + 32 * n /\ f.lengths[3] = 8 + 32 * n + Len(f.names)
      BY <1>0, <1>4 DEF TermBytesBegin, CountSize, TermRecordSize
    <2>4. (8 + 32 * n) + SumTo(l, n) = (8 + 32 * n) + Len(f.names)
      BY ONLY <1>6, <2>2, <2>3
    <2>. QED
      <3>1. \A x, y, z \in Nat : z + x = z + y => x = y
        OBVIOUS
      <3>2. 8 + 32 * n \in Nat
        BY ONLY <1>1
      <3>. QED
        BY ONLY <1>0, <2>2, <2>4, <3>1, <3>2
  <1>10. SumTo(c, n) = Len(f.posts)
    <2>1. n \in 0 .. n
      BY <1>1
    <2>2. 16 * SumTo(c, n) = 16 * Len(f.posts) /\ SumTo(c, n) \in Nat
      BY <1>4, <1>6, <1>7, <1>8, <2>1 DEF PostingRecordSize
    <2>. QED
      BY <1>0, <2>2
  <1>11. ASSUME NEW i \in 1 .. n
         PROVE  SumTo(l, i - 1) + l[i] <= SumTo(l, n) /\ SumTo(c, i - 1) + c[i] <= SumTo(c, n)
    <2>1. i - 1 \in Nat /\ (i - 1) + 1 = i /\ i \in Nat /\ i <= n
      OBVIOUS
    <2>2. SumTo(l, i) = SumTo(l, i - 1) + l[i] /\ SumTo(c, i) = SumTo(c, i - 1) + c[i]
      BY <2>1, SumToRec
    <2>3. \A k \in 1 .. n : l[k] \in Nat /\ c[k] \in Nat
      BY <1>2, <1>3
    <2>4. SumTo(l, i) <= SumTo(l, n) /\ SumTo(c, i) <= SumTo(c, n)
      BY <1>1, <2>1, <2>3, SumToMonotone
    <2>. QED
      BY <2>2, <2>4
  <1>12. ASSUME NEW i \in 1 .. n
         PROVE  /\ f.terms[i].start = PostingRecordSize * SumTo(c, i - 1)
                /\ SumTo(l, i - 1) \in Nat /\ SumTo(c, i - 1) \in Nat
    <2>1. i - 1 \in 0 .. n
      BY <1>1
    <2>. QED
      BY <1>5, <1>8, <2>1 DEF PostingRecordSize
  <1>. QED
    BY <1>1, <1>2, <1>3, <1>5, <1>9, <1>10, <1>11, <1>12 DEF l, c

\* Valid term records are those of the terms loaded from them, and these
\* fill their section.
LEMMA CanonicalTerms ==
  ASSUME NEW f \in SegmentFiles, Cut(f), TermsValid(f), TermsEnd(f), NEW counts, NEW terms,
         terms = [i \in 1 .. Len(f.terms) |-> Terms(f)[i]],
         counts = [i \in 1 .. Len(f.terms) |-> counts[i]],
         \A i \in 1 .. Len(f.terms) : counts[i] = TermCounts(f)[i]
  PROVE  /\ terms \in Seq(Seq(Nat)) /\ Len(terms) = Len(f.terms)
         /\ FlattenSeq(terms) = f.names
         /\ TermRecords(terms, counts) = f.terms
  <1> DEFINE n == Len(f.terms)
             l == TermLengths(f)
             c == TermCounts(f)
             g == [i \in DOMAIN terms |-> Len(terms[i])]
  <1>1. /\ n \in Nat /\ DOMAIN f.terms = 1 .. n
        /\ \A i \in 1 .. n : f.terms[i] \in TermRow
        /\ f.names \in Seq(Nat)
    BY FileTyped
  <1>2. n = Len(f.terms)
    OBVIOUS
  <1> HIDE DEF n
  <1>3. /\ \A i \in 1 .. n : /\ l[i] = f.terms[i].length /\ c[i] = f.terms[i].df
                             /\ f.terms[i].length \in Nat
                             /\ f.terms[i].offset = TermBytesBegin(f) + SumTo(l, i - 1)
                             /\ f.terms[i].bytes = PostingRecordSize * f.terms[i].df
                             /\ f.terms[i].start = PostingRecordSize * SumTo(c, i - 1)
                             /\ SumTo(l, i - 1) \in Nat
        /\ SumTo(l, n) = Len(f.names)
    BY <1>2, TermRowFields
  <1>4. ASSUME NEW i \in 1 .. n
        PROVE  terms[i] = SubSeq(f.names, SumTo(l, i - 1) + 1, SumTo(l, i - 1) + l[i])
    <2>1. terms[i] = TermAt(f, f.terms[i])
      BY <1>1, <1>2 DEF Terms
    <2>2. f.terms[i].offset - TermBytesBegin(f) = SumTo(l, i - 1)
      <3>1. TermBytesBegin(f) \in Nat
        BY <1>1, <1>2 DEF TermBytesBegin, CountSize, TermRecordSize
      <3>. QED
        BY <1>3, <3>1
    <2>3. TermAt(f, f.terms[i]) =
            SubSeq(f.names, (f.terms[i].offset - TermBytesBegin(f)) + 1,
                   (f.terms[i].offset - TermBytesBegin(f)) + f.terms[i].length)
      BY DEF TermAt
    <2>. QED
      BY ONLY <1>3, <2>1, <2>2, <2>3
  <1>5. terms = [i \in 1 .. n |-> terms[i]] /\ DOMAIN terms = 1 .. n
    BY <1>2
  <1>13. \A i \in 1 .. n : counts[i] = c[i]
    BY <1>2
  <1> HIDE DEF l, c
  <1>6. IsCut(terms, f.names, l, n)
    BY ONLY <1>3, <1>4, <1>5 DEF IsCut
  <1>7. /\ terms \in Seq(Seq(Nat)) /\ Len(terms) = n /\ FlattenSeq(terms) = f.names
        /\ \A i \in 1 .. n : Len(terms[i]) = l[i]
    BY ONLY <1>1, <1>6, FlattenCut
  <1>8. DOMAIN g = 1 .. n /\ \A i \in 1 .. n : g[i] = l[i]
    BY <1>5, <1>7
  <1>9. TermRecords(terms, counts) =
          [i \in 1 .. n |->
             [offset |-> CountSize + TermRecordSize * Len(terms) + SumTo(g, i - 1),
              length |-> g[i], df |-> counts[i],
              start |-> PostingRecordSize * SumTo(counts, i - 1),
              bytes |-> PostingRecordSize * counts[i]]]
    BY <1>5 DEF TermRecords
  <1> HIDE DEF g
  <1>10. ASSUME NEW i \in 1 .. n
         PROVE  [offset |-> CountSize + TermRecordSize * Len(terms) + SumTo(g, i - 1),
                 length |-> g[i], df |-> counts[i],
                 start |-> PostingRecordSize * SumTo(counts, i - 1),
                 bytes |-> PostingRecordSize * counts[i]] = f.terms[i]
    <2>0. counts[i] = c[i] /\ i - 1 \in Nat /\ \A k \in 1 .. (i - 1) : k \in 1 .. n
      BY ONLY <1>1, <1>13
    <2>1. \A k \in 1 .. (i - 1) : g[k] = l[k] /\ counts[k] = c[k]
      BY ONLY <1>8, <1>13, <2>0
    <2>2. SumTo(g, i - 1) = SumTo(l, i - 1) /\ SumTo(counts, i - 1) = SumTo(c, i - 1)
      BY <2>0, <2>1, SumToSame
    <2>3. f.terms[i] = [offset |-> f.terms[i].offset, length |-> f.terms[i].length, df |-> f.terms[i].df,
                        start |-> f.terms[i].start, bytes |-> f.terms[i].bytes]
      BY <1>1 DEF TermRow
    <2>4. counts[i] = f.terms[i].df /\ g[i] = f.terms[i].length
      BY <1>3, <1>8, <1>13
    <2>5. CountSize + TermRecordSize * Len(terms) = TermBytesBegin(f)
      BY <1>2, <1>7 DEF TermBytesBegin
    <2> DEFINE o == CountSize + TermRecordSize * Len(terms)
    <2>6. /\ o + SumTo(g, i - 1) = f.terms[i].offset
          /\ PostingRecordSize * SumTo(counts, i - 1) = f.terms[i].start
          /\ PostingRecordSize * counts[i] = f.terms[i].bytes
      BY ONLY <1>3, <2>2, <2>4, <2>5
    <2>. QED
      BY ONLY <2>3, <2>4, <2>6
  <1>11. f.terms = [i \in 1 .. n |-> f.terms[i]]
    <2>1. f.terms \in Seq(TermRow) /\ Len(f.terms) = n
      BY <1>2, FileTyped
    <2>. QED
      BY ONLY <1>1, <2>1, LenProperties
  <1>12. TermRecords(terms, counts) = f.terms
    BY ONLY <1>9, <1>10, <1>11
  <1>. QED
    BY <1>2, <1>7, <1>12

Posting == [doc : Nat, freq : Nat, positions : Seq(Nat)]

Frequencies(f) == [j \in DOMAIN f.posts |-> f.posts[j].freq]

\* A posting as it is loaded, wherever it stands.
LoadedPost(f, k) ==
  [doc |-> f.posts[k].doc, freq |-> f.posts[k].freq, positions |-> PlacesOf(f, k)]
LoadedPosts(f) == [k \in DOMAIN f.posts |-> LoadedPost(f, k)]

LoadedList(f, i) ==
  [k \in DOMAIN PostsOf(f, i) |->
     [doc |-> PostsOf(f, i)[k].doc, freq |-> PostsOf(f, i)[k].freq,
      positions |-> PlacesOf(f, PostsBefore(f, i) + k)]]

\* What the reader has checked of a posting record.
LEMMA PostFields ==
  ASSUME NEW f \in SegmentFiles, Cut(f), PostingsValid(f), NEW n, n = Len(f.posts)
  PROVE  /\ n \in Nat /\ DOMAIN f.posts = 1 .. n
         /\ \A k \in 1 .. n : /\ f.posts[k].doc \in Nat /\ f.posts[k].freq \in Nat /\ f.posts[k].freq > 0
                              /\ f.posts[k].doc < Len(f.docs)
                              /\ Frequencies(f)[k] = f.posts[k].freq
                              /\ PlacesBefore(f, k) = SumTo(Frequencies(f), k - 1)
                              /\ PlacesBefore(f, k) \in Nat
                              /\ f.posts[k].offset = IF f.flags THEN PositionSize * PlacesBefore(f, k) ELSE 0
                              /\ f.flags => PlacesBefore(f, k) + f.posts[k].freq <= Len(f.places)
         /\ f.flags => SumTo(Frequencies(f), n) = Len(f.places)
         /\ ~ f.flags => Len(f.places) = 0
  <1> DEFINE e == Frequencies(f)
  <1>1. /\ n \in Nat /\ DOMAIN f.posts = 1 .. n /\ \A k \in 1 .. n : f.posts[k] \in PostingRow
        /\ Len(f.places) \in Nat /\ f.flags \in BOOLEAN
    BY FileTyped
  <1>2. \A k \in 1 .. n : f.posts[k].doc \in Nat /\ f.posts[k].freq \in Nat
    BY <1>1 DEF PostingRow
  <1>3. \A k \in 1 .. n : e[k] = f.posts[k].freq
    BY <1>1 DEF Frequencies
  <1>4. \A k \in 1 .. n : /\ f.posts[k].doc < Len(f.docs) /\ f.posts[k].freq > 0
                          /\ PlaceValid(f, k)
                          /\ f.flags => PlacesBefore(f, k) + f.posts[k].freq <= Len(f.places)
    BY <1>1 DEF PostingsValid
  <1>5. PositionSize * (IF f.flags THEN PlacesBefore(f, n + 1) ELSE 0) = f.lengths[5]
    BY DEF PostingsValid
  <1>6. f.lengths[5] = 4 * Len(f.places)
    BY SectionLengths DEF Cut, PositionSize
  <1>7. \A k \in Nat : PlacesBefore(f, k) = SumTo(e, k - 1)
    BY DEF PlacesBefore, Frequencies
  <1> HIDE DEF e
  <1>8. \A m \in 0 .. n : SumTo(e, m) \in Nat
    <2> SUFFICES ASSUME NEW m \in 0 .. n PROVE SumTo(e, m) \in Nat
      OBVIOUS
    <2>1. m \in Nat /\ \A k \in 1 .. m : e[k] \in Nat
      BY <1>1, <1>2, <1>3
    <2>. QED
      BY <2>1, SumToNat
  <1>9. ASSUME NEW k \in 1 .. n
        PROVE  PlacesBefore(f, k) = SumTo(e, k - 1) /\ PlacesBefore(f, k) \in Nat
    <2>1. k \in Nat /\ k - 1 \in 0 .. n
      BY <1>1
    <2>. QED
      BY <1>7, <1>8, <2>1
  <1>10. f.flags => SumTo(e, n) = Len(f.places)
    <2> HAVE f.flags
    <2>1. n + 1 \in Nat /\ (n + 1) - 1 = n /\ n \in 0 .. n
      BY <1>1
    <2>2. PlacesBefore(f, n + 1) = SumTo(e, n) /\ SumTo(e, n) \in Nat
      BY <1>7, <1>8, <2>1
    <2>3. 4 * SumTo(e, n) = 4 * Len(f.places)
      BY <1>5, <1>6, <2>2 DEF PositionSize
    <2>. QED
      BY <1>1, <2>2, <2>3
  <1>11. ~ f.flags => Len(f.places) = 0
    BY <1>1, <1>5, <1>6 DEF PositionSize
  <1>. QED
    BY <1>1, <1>2, <1>3, <1>4, <1>9, <1>10, <1>11 DEF PlaceValid, e

\* A posting loaded has the positions it counts.
LEMMA LoadedPostIs ==
  ASSUME NEW f \in SegmentFiles, Cut(f), PostingsValid(f), NEW k \in 1 .. Len(f.posts)
  PROVE  /\ LoadedPost(f, k) \in Posting
         /\ LoadedPost(f, k).doc = f.posts[k].doc
         /\ LoadedPost(f, k).freq = f.posts[k].freq
         /\ LoadedPost(f, k).positions = PlacesOf(f, k)
         /\ Len(PlacesOf(f, k)) = IF f.flags THEN f.posts[k].freq ELSE 0
  <1>1. /\ f.posts[k].doc \in Nat /\ f.posts[k].freq \in Nat /\ PlacesBefore(f, k) \in Nat
        /\ f.flags => PlacesBefore(f, k) + f.posts[k].freq <= Len(f.places)
    BY PostFields
  <1>2. f.places \in Seq(Nat) /\ f.flags \in BOOLEAN
    BY FileTyped
  <1>3. PlacesOf(f, k) \in Seq(Nat) /\ Len(PlacesOf(f, k)) = IF f.flags THEN f.posts[k].freq ELSE 0
    <2>1. CASE f.flags
      <3>1. PlacesOf(f, k) = SubSeq(f.places, PlacesBefore(f, k) + 1, PlacesBefore(f, k) + f.posts[k].freq)
        BY <2>1 DEF PlacesOf
      <3>2. PlacesBefore(f, k) + f.posts[k].freq <= Len(f.places)
        BY <1>1, <2>1
      <3>3. PlacesOf(f, k) \in Seq(Nat) /\ Len(PlacesOf(f, k)) = f.posts[k].freq
        <4> DEFINE a == PlacesBefore(f, k)
                   d == f.posts[k].freq
                   s == f.places
        <4>1. a \in Nat /\ d \in Nat /\ a + d <= Len(s) /\ s \in Seq(Nat)
          BY ONLY <1>1, <1>2, <3>2
        <4>3. PlacesOf(f, k) = SubSeq(s, a + 1, a + d)
          BY ONLY <3>1
        <4> HIDE DEF a, d, s
        <4>4. SubSeq(s, a + 1, a + d) \in Seq(Nat) /\ Len(SubSeq(s, a + 1, a + d)) = d
          BY ONLY <4>1, Piece, ZenonT(60)
        <4>2. PlacesOf(f, k) \in Seq(Nat) /\ Len(PlacesOf(f, k)) = d
          BY ONLY <4>3, <4>4
        <4>. QED
          BY <4>2 DEF d
      <3>. QED
        BY <2>1, <3>3
    <2>2. CASE ~ f.flags
      <3>1. PlacesOf(f, k) = <<>>
        BY <2>2 DEF PlacesOf
      <3>. QED
        BY <2>2, <3>1, EmptySeq
    <2>. QED
      BY <2>1, <2>2
  <1>. QED
    BY <1>1, <1>3 DEF LoadedPost, Posting

\* The postings loaded, in a row.
LEMMA LoadedPostsAre ==
  ASSUME NEW f \in SegmentFiles, Cut(f), PostingsValid(f), NEW n, n = Len(f.posts)
  PROVE  /\ LoadedPosts(f) = [k \in 1 .. n |-> LoadedPosts(f)[k]]
         /\ \A k \in 1 .. n : LoadedPosts(f)[k] = LoadedPost(f, k)
         /\ LoadedPosts(f) \in Seq(Posting) /\ Len(LoadedPosts(f)) = n /\ DOMAIN LoadedPosts(f) = 1 .. n
  <1>1. n \in Nat /\ DOMAIN f.posts = 1 .. n
    BY FileTyped
  <1>2. /\ LoadedPosts(f) = [k \in 1 .. n |-> LoadedPosts(f)[k]]
        /\ \A k \in 1 .. n : LoadedPosts(f)[k] = LoadedPost(f, k)
    BY <1>1 DEF LoadedPosts
  <1>3. \A k \in 1 .. n : LoadedPosts(f)[k] \in Posting
    BY <1>2, LoadedPostIs
  <1>. QED
    BY ONLY <1>1, <1>2, <1>3, SeqIs

\* Valid posting records are those of the postings loaded from them, and the
\* positions of these fill the section.
LEMMA CanonicalPosts ==
  ASSUME NEW f \in SegmentFiles, Cut(f), PostingsValid(f)
  PROVE  /\ PostingRecords(LoadedPosts(f), f.flags) = f.posts
         /\ FlattenSeq([k \in DOMAIN LoadedPosts(f) |-> LoadedPosts(f)[k].positions]) = f.places
  <1> DEFINE n == Len(f.posts)
             e == Frequencies(f)
             P == LoadedPosts(f)
             g == [j \in DOMAIN P |-> P[j].freq]
  <1>1. /\ n \in Nat /\ DOMAIN f.posts = 1 .. n /\ \A k \in 1 .. n : f.posts[k] \in PostingRow
        /\ f.posts \in Seq(PostingRow)
        /\ f.places \in Seq(Nat) /\ f.flags \in BOOLEAN /\ n = Len(f.posts)
    BY FileTyped
  <1>2. /\ \A k \in 1 .. n : /\ f.posts[k].doc \in Nat /\ f.posts[k].freq \in Nat
                             /\ e[k] = f.posts[k].freq
                             /\ PlacesBefore(f, k) = SumTo(e, k - 1) /\ PlacesBefore(f, k) \in Nat
                             /\ f.posts[k].offset = IF f.flags THEN PositionSize * PlacesBefore(f, k) ELSE 0
        /\ f.flags => SumTo(e, n) = Len(f.places)
        /\ ~ f.flags => Len(f.places) = 0
    BY PostFields
  <1>3. DOMAIN P = 1 .. n /\ \A k \in 1 .. n : P[k] = LoadedPost(f, k)
    BY LoadedPostsAre
  <1>0. \A k \in 1 .. n : /\ LoadedPost(f, k).doc = f.posts[k].doc
                          /\ LoadedPost(f, k).freq = f.posts[k].freq
                          /\ LoadedPost(f, k).positions = PlacesOf(f, k)
    BY LoadedPostIs
  <1> HIDE DEF n, e, P
  <1>4. \A k \in 1 .. n : /\ P[k].doc = f.posts[k].doc /\ P[k].freq = f.posts[k].freq
                          /\ P[k].positions = PlacesOf(f, k)
    BY ONLY <1>0, <1>3
  <1>5. DOMAIN g = 1 .. n /\ \A k \in 1 .. n : g[k] = e[k]
    BY <1>2, <1>3, <1>4
  <1>6. PostingRecords(P, f.flags) =
          [k \in 1 .. n |-> [doc |-> P[k].doc, freq |-> P[k].freq,
                             offset |-> IF f.flags THEN PlaceOffset(P, k) ELSE 0]]
    BY <1>3 DEF PostingRecords
  <1>7. \A k \in 1 .. n : PlaceOffset(P, k) = PositionSize * SumTo(g, k - 1)
    BY DEF PlaceOffset
  <1> HIDE DEF g
  <1>8. ASSUME NEW k \in 1 .. n
        PROVE  [doc |-> P[k].doc, freq |-> P[k].freq,
                offset |-> IF f.flags THEN PlaceOffset(P, k) ELSE 0] = f.posts[k]
    <2>1. k - 1 \in Nat /\ \A j \in 1 .. (k - 1) : j \in 1 .. n
      BY ONLY <1>1
    <2>2. SumTo(g, k - 1) = SumTo(e, k - 1)
      BY ONLY <1>5, <2>1, SumToSame
    <2>3. (IF f.flags THEN PlaceOffset(P, k) ELSE 0) = f.posts[k].offset
      BY ONLY <1>2, <1>7, <2>2
    <2>4. f.posts[k] = [doc |-> f.posts[k].doc, freq |-> f.posts[k].freq, offset |-> f.posts[k].offset]
      BY <1>1 DEF PostingRow
    <2>. QED
      BY ONLY <1>4, <2>3, <2>4
  <1>9. f.posts = [k \in 1 .. n |-> f.posts[k]]
    BY ONLY <1>1, LenProperties
  <1>10. PostingRecords(P, f.flags) = f.posts
    BY ONLY <1>6, <1>8, <1>9
  <1> DEFINE ss == [k \in DOMAIN P |-> P[k].positions]
  <1>11. ss = [k \in 1 .. n |-> ss[k]] /\ \A k \in 1 .. n : ss[k] = PlacesOf(f, k)
    BY <1>3, <1>4
  <1> HIDE DEF ss
  <1>12. FlattenSeq(ss) = f.places
    <2>1. CASE f.flags
      <3>1. \A k \in 1 .. n : PlacesOf(f, k) = SubSeq(f.places, PlacesBefore(f, k) + 1, PlacesBefore(f, k) + f.posts[k].freq)
        BY <2>1 DEF PlacesOf
      <3>2. IsCut(ss, f.places, e, n)
        BY ONLY <1>2, <1>11, <2>1, <3>1 DEF IsCut
      <3>. QED
        BY ONLY <1>1, <3>2, FlattenCut
    <2>2. CASE ~ f.flags
      <3> DEFINE z == [k \in 1 .. n |-> 0]
      <3>1. \A k \in 1 .. n : ss[k] = <<>>
        BY <1>11, <2>2 DEF PlacesOf
      <3>2. \A k \in 1 .. n : z[k] = 0
        OBVIOUS
      <3> HIDE DEF z
      <3>3. \A k \in 0 .. n : SumTo(z, k) = 0
        <4> SUFFICES ASSUME NEW k \in 0 .. n PROVE SumTo(z, k) = 0
          OBVIOUS
        <4>1. k \in Nat /\ \A j \in 1 .. k : z[j] = 0
          BY <1>1, <3>2
        <4>. QED
          BY <4>1, SumToZero
      <3>4. Len(f.places) = 0
        BY <1>2, <2>2
      <3>5. ASSUME NEW k \in 1 .. n
            PROVE  ss[k] = SubSeq(f.places, SumTo(z, k - 1) + 1, SumTo(z, k - 1) + z[k])
        <4>1. SumTo(z, k - 1) = 0 /\ z[k] = 0
          <5>1. k - 1 \in 0 .. n
            BY <1>1
          <5>. QED
            BY <3>2, <3>3, <5>1
        <4>2. /\ SubSeq(f.places, 0 + 1, 0 + 0) \in Seq(Nat)
              /\ Len(SubSeq(f.places, 0 + 1, 0 + 0)) = 0
          BY ONLY <1>1, <3>4, Piece
        <4>3. SubSeq(f.places, 0 + 1, 0 + 0) = <<>>
          BY ONLY <4>2, EmptySeq
        <4>. QED
          BY ONLY <3>1, <4>1, <4>3
      <3>6. SumTo(z, n) = Len(f.places)
        BY <1>1, <3>3, <3>4
      <3>7. \A k \in 1 .. n : z[k] \in Nat
        BY <3>2
      <3>8. IsCut(ss, f.places, z, n)
        BY ONLY <1>11, <3>5, <3>6, <3>7 DEF IsCut
      <3>. QED
        BY ONLY <1>1, <3>8, FlattenCut
    <2>. QED
      BY <2>1, <2>2
  <1>. QED
    BY <1>10, <1>12 DEF P, ss

LoadedLists(f) == [i \in DOMAIN f.terms |-> LoadedList(f, i)]

\* The list of a term is the next df postings.
LEMMA LoadedListIs ==
  ASSUME NEW f \in SegmentFiles, Cut(f), TermsValid(f), TermsEnd(f), PostingsValid(f),
         NEW i \in 1 .. Len(f.terms)
  PROVE  /\ LoadedList(f, i) \in Seq(Posting)
         /\ Len(LoadedList(f, i)) = f.terms[i].df
         /\ DOMAIN LoadedList(f, i) = 1 .. f.terms[i].df
         /\ \A k \in 1 .. f.terms[i].df :
              /\ PostsBefore(f, i) + k \in 1 .. Len(f.posts)
              /\ LoadedList(f, i)[k] = LoadedPost(f, PostsBefore(f, i) + k)
              /\ PostsOf(f, i)[k] = f.posts[PostsBefore(f, i) + k]
         /\ PostsOf(f, i) \in Seq(PostingRow) /\ Len(PostsOf(f, i)) = f.terms[i].df
         /\ PostsBefore(f, i) = SumTo(TermCounts(f), i - 1)
  <1> DEFINE a == PostsBefore(f, i)
             d == f.terms[i].df
             s == f.posts
             L == LoadedList(f, i)
  <1>1. a = SumTo(TermCounts(f), i - 1)
    BY DEF PostsBefore, TermCounts
  <1>2. a \in Nat /\ d \in Nat /\ a + d <= Len(s) /\ d > 0 /\ Len(s) \in Nat /\ s \in Seq(PostingRow)
    <2>1. s \in Seq(PostingRow) /\ Len(s) \in Nat
      BY FileTyped, LenProperties
    <2>2. /\ f.terms[i].df \in Nat /\ f.terms[i].df > 0
          /\ SumTo(TermCounts(f), i - 1) \in Nat
          /\ SumTo(TermCounts(f), i - 1) + f.terms[i].df <= Len(f.posts)
      BY TermRowFields
    <2>. QED
      BY <1>1, <2>1, <2>2
  <1>3. PostsOf(f, i) = SubSeq(s, a + 1, a + d)
    BY DEF PostsOf
  <1>4. L = [k \in DOMAIN PostsOf(f, i) |->
               [doc |-> PostsOf(f, i)[k].doc, freq |-> PostsOf(f, i)[k].freq,
                positions |-> PlacesOf(f, a + k)]]
    BY DEF LoadedList
  <1>5. \A k \in Nat : LoadedPost(f, k) = [doc |-> s[k].doc, freq |-> s[k].freq, positions |-> PlacesOf(f, k)]
    BY DEF LoadedPost
  <1>6. ASSUME NEW k \in 1 .. Len(s) PROVE LoadedPost(f, k) \in Posting
    BY LoadedPostIs
  <1> HIDE DEF a, d, s, L
  <1> DEFINE Q == PostsOf(f, i)
  <1>7. /\ Q \in Seq(PostingRow) /\ Len(Q) = d /\ DOMAIN Q = 1 .. d
        /\ \A k \in 1 .. d : Q[k] = s[a + k]
    BY ONLY <1>2, <1>3, Piece, LenProperties
  <1>8. DOMAIN L = 1 .. d /\ L = [k \in 1 .. d |-> L[k]]
        /\ \A k \in 1 .. d : L[k] = [doc |-> Q[k].doc, freq |-> Q[k].freq, positions |-> PlacesOf(f, a + k)]
    BY ONLY <1>4, <1>7
  <1>9. ASSUME NEW k \in 1 .. d PROVE a + k \in 1 .. Len(s) /\ L[k] = LoadedPost(f, a + k)
    <2>1. a + k \in 1 .. Len(s) /\ a + k \in Nat
      BY ONLY <1>2
    <2>. QED
      BY ONLY <1>5, <1>7, <1>8, <2>1
  <1>10. \A k \in 1 .. d : L[k] \in Posting
    BY ONLY <1>6, <1>9
  <1>11. L \in Seq(Posting) /\ Len(L) = d
    BY ONLY <1>2, <1>8, <1>10, SeqIs
  <1>. QED
    BY <1>1, <1>7, <1>8, <1>9, <1>11 DEF a, d, s, L, Q

\* The lists of all terms use up the postings.
LEMMA LoadedListsFlat ==
  ASSUME NEW f \in SegmentFiles, Cut(f), TermsValid(f), TermsEnd(f), PostingsValid(f)
  PROVE  /\ FlattenSeq(LoadedLists(f)) = LoadedPosts(f)
         /\ LoadedLists(f) \in Seq(Seq(Posting))
         /\ DOMAIN LoadedLists(f) = 1 .. Len(f.terms)
         /\ \A i \in 1 .. Len(f.terms) : LoadedLists(f)[i] = LoadedList(f, i)
  <1> DEFINE n == Len(f.terms)
             e == TermCounts(f)
             P == LoadedPosts(f)
             S == LoadedLists(f)
             m == Len(f.posts)
  <1>1. n \in Nat /\ DOMAIN f.terms = 1 .. n /\ m \in Nat
    BY FileTyped
  <1>2. /\ \A i \in 1 .. n : /\ e[i] = f.terms[i].df /\ e[i] \in Nat /\ SumTo(e, i - 1) \in Nat
                             /\ SumTo(e, i - 1) + e[i] <= m
        /\ SumTo(e, n) = m
    BY TermRowFields
  <1>3. /\ P \in Seq(Posting) /\ Len(P) = m /\ DOMAIN P = 1 .. m
        /\ \A k \in 1 .. m : P[k] = LoadedPost(f, k)
    BY LoadedPostsAre
  <1>4. DOMAIN S = 1 .. n /\ S = [i \in 1 .. n |-> S[i]] /\ \A i \in 1 .. n : S[i] = LoadedList(f, i)
    BY <1>1 DEF LoadedLists
  <1>5. \A i \in 1 .. n :
          /\ LoadedList(f, i) \in Seq(Posting) /\ Len(LoadedList(f, i)) = f.terms[i].df
          /\ \A k \in 1 .. f.terms[i].df :
               /\ PostsBefore(f, i) + k \in 1 .. m
               /\ LoadedList(f, i)[k] = LoadedPost(f, PostsBefore(f, i) + k)
          /\ PostsBefore(f, i) = SumTo(e, i - 1)
    BY LoadedListIs
  <1> HIDE DEF n, e, P, S, m
  <1>6. ASSUME NEW i \in 1 .. n
        PROVE  S[i] = SubSeq(P, SumTo(e, i - 1) + 1, SumTo(e, i - 1) + e[i])
    <2> DEFINE a == SumTo(e, i - 1)
               d == e[i]
               t == S[i]
               u == SubSeq(P, a + 1, a + d)
    <2>1. a \in Nat /\ d \in Nat /\ a + d <= Len(P)
      BY ONLY <1>2, <1>3
    <2>2. /\ t \in Seq(Posting) /\ Len(t) = d
          /\ \A k \in 1 .. d : a + k \in 1 .. m /\ t[k] = P[a + k]
      BY ONLY <1>2, <1>3, <1>4, <1>5
    <2> HIDE DEF a, d, t
    <2>3. u \in Seq(Posting) /\ Len(u) = d /\ \A k \in 1 .. d : u[k] = P[a + k]
      BY ONLY <1>3, <2>1, Piece
    <2> HIDE DEF u
    <2>4. t = u
      BY ONLY <2>2, <2>3, SeqEqual
    <2>. QED
      BY <2>4 DEF a, d, t, u
  <1>7. IsCut(S, P, e, n)
    BY ONLY <1>2, <1>3, <1>4, <1>6 DEF IsCut
  <1>8. FlattenSeq(S) = P /\ S \in Seq(Seq(Posting))
    BY ONLY <1>1, <1>3, <1>7, FlattenCut
  <1>. QED
    BY <1>4, <1>8 DEF n, P, S

\* The parts of a loaded index.
LEMMA LoadedIs ==
  ASSUME NEW f
  PROVE  /\ Loaded(f).positions = f.flags /\ Loaded(f).docs = LoadedDocs(f)
         /\ DOMAIN Loaded(f).postings = DOMAIN f.terms
         /\ \A i \in DOMAIN f.terms : /\ Loaded(f).postings[i].term = Terms(f)[i]
                                      /\ Loaded(f).postings[i].list = LoadedList(f, i)
  BY DEF Loaded, LoadedDocs, LoadedList

TermsOf(ix) == [i \in DOMAIN ix.postings |-> ix.postings[i].term]
ListsOf(ix) == [i \in DOMAIN ix.postings |-> ix.postings[i].list]
CountsOf(ix) == [i \in DOMAIN TermsOf(ix) |-> Len(ix.postings[i].list)]
PathsOf(ix) == [i \in DOMAIN ix.docs |-> ix.docs[i].path]

\* The parts of a written index.
LEMMA WriteIs ==
  ASSUME NEW ix, NEW all, all = FlattenSeq(ListsOf(ix))
  PROVE  Write(ix) = WithHeader(
           [flags |-> ix.positions, docs |-> DocumentRecords(ix.docs),
            paths |-> FlattenSeq(PathsOf(ix)),
            terms |-> TermRecords(TermsOf(ix), CountsOf(ix)), names |-> FlattenSeq(TermsOf(ix)),
            posts |-> PostingRecords(all, ix.positions),
            places |-> FlattenSeq([k \in DOMAIN all |-> all[k].positions])])
  BY DEF Write, TermsOf, ListsOf, CountsOf, PathsOf

\* What acceptance says.
LEMMA AcceptedParts ==
  ASSUME NEW f, Accepted(f)
  PROVE  EnvelopeValid(f) /\ DocumentsValid(f) /\ TermsValid(f) /\ PostingsValid(f) /\ TermsEnd(f)
  BY DEF Accepted, PostingsValid, TermsEnd, TermLengths

\* A file that is cut as its header says and that validate_index_file accepts
\* is what write_index_file_bounded writes of the index loaded from it: there is
\* one encoding of an index, for every index.
THEOREM OneEncoding ==
  ASSUME NEW f \in SegmentFiles, Cut(f), Accepted(f)
  PROVE  Write(Loaded(f)) = f
  <1> DEFINE ix == Loaded(f)
             n == Len(f.terms)
  <1>1. EnvelopeValid(f) /\ DocumentsValid(f) /\ TermsValid(f) /\ PostingsValid(f) /\ TermsEnd(f)
    BY AcceptedParts
  <1>2. n \in Nat /\ DOMAIN f.terms = 1 .. n /\ n = Len(f.terms)
    BY FileTyped
  <1>3. /\ ix.positions = f.flags /\ ix.docs = LoadedDocs(f) /\ DOMAIN ix.postings = 1 .. n
        /\ \A i \in 1 .. n : /\ ix.postings[i].term = Terms(f)[i]
                             /\ ix.postings[i].list = LoadedList(f, i)
    BY <1>2, LoadedIs
  <1>4. /\ FlattenSeq(LoadedLists(f)) = LoadedPosts(f)
        /\ DOMAIN LoadedLists(f) = 1 .. n
        /\ \A i \in 1 .. n : LoadedLists(f)[i] = LoadedList(f, i) /\ Len(LoadedList(f, i)) = f.terms[i].df
    BY <1>1, LoadedListsFlat, LoadedListIs
  <1>5. LoadedLists(f) = [i \in 1 .. n |-> LoadedLists(f)[i]]
    BY <1>2 DEF LoadedLists
  <1>6. \A i \in 1 .. n : TermCounts(f)[i] = f.terms[i].df
    BY <1>2 DEF TermCounts
  <1> HIDE DEF ix, n
  <1>7. ListsOf(ix) = LoadedLists(f)
    BY ONLY <1>3, <1>4, <1>5 DEF ListsOf
  <1>8. /\ TermsOf(ix) = [i \in 1 .. n |-> Terms(f)[i]]
        /\ DOMAIN TermsOf(ix) = 1 .. n
    BY ONLY <1>3 DEF TermsOf
  <1>9. /\ CountsOf(ix) = [i \in 1 .. n |-> CountsOf(ix)[i]]
        /\ \A i \in 1 .. n : CountsOf(ix)[i] = TermCounts(f)[i]
    <2>1. /\ CountsOf(ix) = [i \in 1 .. n |-> CountsOf(ix)[i]]
          /\ \A i \in 1 .. n : CountsOf(ix)[i] = Len(ix.postings[i].list)
      BY ONLY <1>8 DEF CountsOf
    <2>. QED
      BY ONLY <1>3, <1>4, <1>6, <2>1
  <1> DEFINE terms == TermsOf(ix)
             counts == CountsOf(ix)
  <1>10. FlattenSeq(terms) = f.names /\ TermRecords(terms, counts) = f.terms
    <2> HIDE DEF terms, counts
    <2>1. /\ terms = [i \in 1 .. Len(f.terms) |-> Terms(f)[i]]
          /\ counts = [i \in 1 .. Len(f.terms) |-> counts[i]]
          /\ \A i \in 1 .. Len(f.terms) : counts[i] = TermCounts(f)[i]
      BY ONLY <1>2, <1>8, <1>9 DEF terms, counts
    <2>. QED
      BY ONLY <1>1, <2>1, f \in SegmentFiles, Cut(f), CanonicalTerms, ZenonT(60)
  <1>11. /\ DocumentRecords(ix.docs) = f.docs /\ FlattenSeq(PathsOf(ix)) = f.paths
    BY <1>1, <1>3, CanonicalDocs DEF PathsOf
  <1> DEFINE all == LoadedPosts(f)
  <1>12. /\ PostingRecords(all, ix.positions) = f.posts
         /\ FlattenSeq([k \in DOMAIN all |-> all[k].positions]) = f.places
    BY <1>1, <1>3, CanonicalPosts
  <1>13. all = FlattenSeq(ListsOf(ix))
    BY <1>4, <1>7
  <1> HIDE DEF all
  <1> DEFINE b == [flags |-> f.flags, docs |-> f.docs, paths |-> f.paths, terms |-> f.terms,
                   names |-> f.names, posts |-> f.posts, places |-> f.places]
  <1>14. Write(ix) = WithHeader(b)
    BY ONLY <1>3, <1>10, <1>11, <1>12, <1>13, WriteIs
  <1>15. /\ b.flags = f.flags /\ b.docs = f.docs /\ b.paths = f.paths /\ b.terms = f.terms
         /\ b.names = f.names /\ b.posts = f.posts /\ b.places = f.places
    OBVIOUS
  <1> HIDE DEF b
  <1>16. Sections(b) = Sections(f) /\ Sections(f) = f.lengths
    BY <1>15 DEF Sections, Cut
  <1>17. f.size = HeaderSize + Sum(f.lengths) /\ \A s \in 1 .. 5 : f.offsets[s] = HeaderSize + SumTo(f.lengths, s - 1)
    BY <1>1 DEF EnvelopeValid, HeaderValid
  <1>18. f.offsets = [s \in 1 .. 5 |-> HeaderSize + SumTo(f.lengths, s - 1)]
    <2>1. f.offsets \in [1 .. 5 -> Nat]
      BY FileTyped
    <2>. QED
      BY ONLY <1>17, <2>1
  <1>19. WithHeader(b) =
           [flags |-> f.flags, size |-> f.size, offsets |-> f.offsets, lengths |-> f.lengths,
            docs |-> f.docs, paths |-> f.paths, terms |-> f.terms, names |-> f.names,
            posts |-> f.posts, places |-> f.places]
    BY ONLY <1>15, <1>16, <1>17, <1>18 DEF WithHeader
  <1>20. f = [flags |-> f.flags, size |-> f.size, offsets |-> f.offsets, lengths |-> f.lengths,
              docs |-> f.docs, paths |-> f.paths, terms |-> f.terms, names |-> f.names,
              posts |-> f.posts, places |-> f.places]
    BY DEF SegmentFiles
  <1>. QED
    BY <1>14, <1>19, <1>20 DEF ix

\* The writer accepts an index loaded from an accepted file.
LEMMA LoadedWritable ==
  ASSUME NEW f \in SegmentFiles, Cut(f), Accepted(f)
  PROVE  Writable(Loaded(f))
  <1>1. EnvelopeValid(f) /\ DocumentsValid(f) /\ TermsValid(f) /\ PostingsValid(f) /\ TermsEnd(f)
    BY AcceptedParts
  <1> DEFINE ix == Loaded(f)
             n == Len(f.terms)
             m == Len(f.posts)
  <1>2. /\ n \in Nat /\ DOMAIN f.terms = 1 .. n /\ m \in Nat /\ DOMAIN f.posts = 1 .. m
        /\ Len(f.docs) \in Nat /\ DOMAIN f.docs = 1 .. Len(f.docs)
        /\ \A d \in 1 .. Len(f.docs) : f.docs[d] \in DocumentRow
    BY FileTyped
  <1>3. /\ ix.positions = f.flags /\ ix.docs = LoadedDocs(f) /\ DOMAIN ix.postings = 1 .. n
        /\ \A i \in 1 .. n : ix.postings[i].list = LoadedList(f, i)
    BY <1>2, LoadedIs
  <1>4. \A i \in 1 .. n :
          /\ DOMAIN LoadedList(f, i) = 1 .. f.terms[i].df
          /\ LoadedList(f, i) \in Seq(Posting) /\ Len(LoadedList(f, i)) = f.terms[i].df
          /\ f.terms[i].df \in Nat /\ f.terms[i].df > 0
          /\ \A k \in 1 .. f.terms[i].df :
              /\ PostsBefore(f, i) + k \in 1 .. m
              /\ LoadedList(f, i)[k] = LoadedPost(f, PostsBefore(f, i) + k)
    BY <1>1, LoadedListIs, TermRowFields, ZenonT(60)
  <1>5. \A k \in 1 .. m : /\ f.posts[k].doc \in Nat /\ f.posts[k].freq \in Nat /\ f.posts[k].freq > 0
                          /\ f.posts[k].doc < Len(f.docs)
    BY <1>1, PostFields
  <1>6. \A k \in 1 .. m :
         /\ LoadedPost(f, k).doc = f.posts[k].doc
         /\ LoadedPost(f, k).freq = f.posts[k].freq
         /\ LoadedPost(f, k).positions = PlacesOf(f, k)
         /\ Len(PlacesOf(f, k)) = IF f.flags THEN f.posts[k].freq ELSE 0
    BY <1>1, LoadedPostIs
  <1>7. ASSUME NEW k \in 1 .. m
        PROVE  LoadedDocs(f)[f.posts[k].doc + 1].live
    <2> DEFINE d == f.posts[k].doc + 1
               t == [j \in DOMAIN f.posts |-> IF f.posts[j].doc = d - 1 THEN f.posts[j].freq ELSE 0]
    <2>1. d \in 1 .. Len(f.docs) /\ d - 1 = f.posts[k].doc
      BY <1>2, <1>5
    <2>2. /\ t = [j \in 1 .. m |-> t[j]]
          /\ \A j \in 1 .. m : t[j] = IF f.posts[j].doc = d - 1 THEN f.posts[j].freq ELSE 0
      BY <1>2
    <2>3. TokensOf(f, d - 1) = Sum(t)
      BY DEF TokensOf
    <2>4. TokensOf(f, d - 1) = f.docs[d].tokens
      BY <1>1, <1>2, <2>1 DEF PostingsValid
    <2>5. LoadedDocs(f)[d].live = f.docs[d].live
      BY <1>2, <2>1 DEF LoadedDocs
    <2>6. f.docs[d].live \/ f.docs[d].tokens = 0
      BY <1>1, <1>2, <2>1 DEF DocumentsValid
    <2>0. d = f.posts[k].doc + 1
      OBVIOUS
    <2> HIDE DEF t, d, m
    <2>7. \A j \in 1 .. m : t[j] \in Nat
      BY ONLY <1>5, <2>2
    <2>8. Sum(t) = SumTo(t, m)
      BY ONLY <1>2, <2>2, SumIs
    <2>9. t[k] <= SumTo(t, m)
      BY ONLY <1>2, <2>7, SumToTerm, k \in 1 .. m
    <2>10. t[k] = f.posts[k].freq
      BY ONLY <2>1, <2>2, k \in 1 .. m
    <2>11. SumTo(t, m) \in Nat
      BY ONLY <1>2, <2>7, SumToNat
    <2>12. f.docs[d].tokens # 0
      BY ONLY <1>5, <2>3, <2>4, <2>8, <2>9, <2>10, <2>11, k \in 1 .. m
    <2>. QED
      BY ONLY <2>0, <2>5, <2>6, <2>12
  <1>8. Len(LoadedDocs(f)) = Len(f.docs)
    <2>1. LoadedDocs(f) = [i \in 1 .. Len(f.docs) |-> LoadedDocs(f)[i]]
      BY <1>2 DEF LoadedDocs
    <2>. QED
      BY ONLY <1>2, <2>1, FunLen
  <1> HIDE DEF ix, n, m
  <1>9. ASSUME NEW i \in 1 .. n
        PROVE  /\ ix.postings[i].list # <<>>
               /\ \A k \in DOMAIN ix.postings[i].list :
                    /\ ix.postings[i].list[k].doc < Len(ix.docs)
                    /\ ix.docs[ix.postings[i].list[k].doc + 1].live
                    /\ ix.postings[i].list[k].freq > 0
                    /\ Len(ix.postings[i].list[k].positions) =
                         IF ix.positions THEN ix.postings[i].list[k].freq ELSE 0
    <2> DEFINE L == LoadedList(f, i)
    <2>1. /\ ix.postings[i].list = L /\ DOMAIN L = 1 .. f.terms[i].df
          /\ Len(L) = f.terms[i].df /\ f.terms[i].df \in Nat /\ f.terms[i].df > 0
          /\ \A k \in 1 .. f.terms[i].df :
              PostsBefore(f, i) + k \in 1 .. m /\ L[k] = LoadedPost(f, PostsBefore(f, i) + k)
      BY ONLY <1>3, <1>4
    <2> HIDE DEF L
    <2>2. L # <<>>
      BY ONLY <2>1, EmptySeq
    <2>3. ASSUME NEW k \in 1 .. f.terms[i].df
          PROVE  /\ L[k].doc < Len(ix.docs)
                 /\ ix.docs[L[k].doc + 1].live
                 /\ L[k].freq > 0
                 /\ Len(L[k].positions) = IF ix.positions THEN L[k].freq ELSE 0
      <3>1. PICK j \in 1 .. m : L[k] = LoadedPost(f, j)
        BY ONLY <2>1, k \in 1 .. f.terms[i].df
      <3>. QED
        BY ONLY <1>3, <1>5, <1>6, <1>7, <1>8, <3>1
    <2>. QED
      BY ONLY <2>1, <2>2, <2>3
  <1>. QED
    BY ONLY <1>3, <1>9 DEF Writable, ix

Document == [path : Seq(Nat), live : BOOLEAN, tokens : Nat]
Entry == [term : Seq(Nat), list : Seq(Posting)]
Index == [positions : BOOLEAN, docs : Seq(Document), postings : Seq(Entry)]

-----------------------------------------------------------------------------
(* Every written file is typed, and its sections are those of its header. *)

Body(b) ==
  /\ b.flags \in BOOLEAN /\ b.docs \in Seq(DocumentRow) /\ b.paths \in Seq(Nat)
  /\ b.terms \in Seq(TermRow) /\ b.names \in Seq(Nat)
  /\ b.posts \in Seq(PostingRow) /\ b.places \in Seq(Nat)

\* A header filled in from typed sections cuts them as they are.
LEMMA HeaderTyped ==
  ASSUME NEW b, Body(b)
  PROVE  /\ WithHeader(b) \in SegmentFiles /\ Cut(WithHeader(b))
         /\ WithHeader(b).size = HeaderSize + Sum(Sections(WithHeader(b)))
  <1> DEFINE f == WithHeader(b)
             c == Sections(b)
             g == [b EXCEPT !.flags = b.flags]
  <1>1. /\ f.flags = b.flags /\ f.docs = b.docs /\ f.paths = b.paths /\ f.terms = b.terms
        /\ f.names = b.names /\ f.posts = b.posts /\ f.places = b.places
        /\ f.lengths = c /\ f.size = HeaderSize + Sum(c)
        /\ f.offsets = [s \in 1 .. 5 |-> HeaderSize + SumTo(c, s - 1)]
        /\ f = [flags |-> f.flags, size |-> f.size, offsets |-> f.offsets, lengths |-> f.lengths,
                docs |-> f.docs, paths |-> f.paths, terms |-> f.terms, names |-> f.names,
                posts |-> f.posts, places |-> f.places]
    BY DEF WithHeader
  <1>2. Sections(f) = c
    BY ONLY <1>1 DEF Sections
  <1>3. /\ c \in [1 .. 5 -> Nat] /\ Len(c) = 5
    <2> DEFINE z == [k \in 1 .. 5 |-> 0]
               h == [flags |-> b.flags, size |-> 0, offsets |-> z, lengths |-> z,
                     docs |-> b.docs, paths |-> b.paths, terms |-> b.terms, names |-> b.names,
                     posts |-> b.posts, places |-> b.places]
    <2>1. z \in [1 .. 5 -> Nat]
      OBVIOUS
    <2>2. h \in SegmentFiles
      <3> HIDE DEF z
      <3>. QED
        BY <2>1 DEF Body, SegmentFiles
    <2>3. Sections(h) = c
      BY DEF Sections
    <2> HIDE DEF h
    <2>. QED
      BY <2>2, <2>3, SectionLengths
  <1> HIDE DEF c, f
  <1>4. \A s \in 0 .. 5 : SumTo(c, s) \in Nat
    <2> SUFFICES ASSUME NEW s \in 0 .. 5 PROVE SumTo(c, s) \in Nat
      OBVIOUS
    <2>1. s \in Nat /\ \A k \in 1 .. s : c[k] \in Nat
      BY <1>3
    <2>. QED
      BY ONLY <2>1, SumToNat
  <1>5. Sum(c) \in Nat
    BY <1>3, <1>4 DEF Sum
  <1>6. f.size \in Nat
    BY <1>1, <1>5 DEF HeaderSize
  <1>7. f.offsets \in [1 .. 5 -> Nat]
    <2>1. \A s \in 1 .. 5 : HeaderSize + SumTo(c, s - 1) \in Nat
      <3> SUFFICES ASSUME NEW s \in 1 .. 5 PROVE HeaderSize + SumTo(c, s - 1) \in Nat
        OBVIOUS
      <3>1. s - 1 \in 0 .. 5
        OBVIOUS
      <3>2. SumTo(c, s - 1) \in Nat
        BY <1>4, <3>1
      <3>. QED
        BY <3>2 DEF HeaderSize
    <2>. QED
      BY ONLY <1>1, <2>1
  <1>8. f \in SegmentFiles
    BY <1>1, <1>3, <1>6, <1>7 DEF SegmentFiles, Body
  <1>. QED
    BY <1>1, <1>2, <1>8 DEF f, Cut

\* The records written are typed.
LEMMA RecordsTyped ==
  ASSUME NEW ix \in Index, NEW all \in Seq(Posting), NEW p \in BOOLEAN, NEW terms \in Seq(Seq(Nat)), NEW counts,
         \A i \in 1 .. Len(terms) : counts[i] \in Nat
  PROVE  /\ DocumentRecords(ix.docs) \in Seq(DocumentRow)
         /\ PostingRecords(all, p) \in Seq(PostingRow)
         /\ TermRecords(terms, counts) \in Seq(TermRow)
         /\ FlattenSeq([k \in DOMAIN all |-> all[k].positions]) \in Seq(Nat)
         /\ FlattenSeq([i \in DOMAIN ix.docs |-> ix.docs[i].path]) \in Seq(Nat)
  <1>1. DocumentRecords(ix.docs) \in Seq(DocumentRow) /\ FlattenSeq([i \in DOMAIN ix.docs |-> ix.docs[i].path]) \in Seq(Nat)
    <2> DEFINE d == ix.docs
               n == Len(d)
               g == [j \in DOMAIN d |-> Len(d[j].path)]
               R == DocumentRecords(d)
               ss == [i \in DOMAIN d |-> d[i].path]
    <2>1. d \in Seq(Document)
      BY DEF Index
    <2>2. R = [i \in DOMAIN d |->
                 [id |-> i - 1, live |-> d[i].live, tokens |-> d[i].tokens,
                  length |-> Len(d[i].path), offset |-> SumTo(g, i - 1)]]
      BY DEF DocumentRecords
    <2> HIDE DEF d, R
    <2>3. n \in Nat /\ DOMAIN d = 1 .. n /\ \A i \in 1 .. n : d[i] \in Document
      BY ONLY <2>1, LenProperties, ElementOfSeq DEF n
    <2>4. \A i \in 1 .. n : /\ d[i].live \in BOOLEAN /\ d[i].tokens \in Nat
                            /\ d[i].path \in Seq(Nat) /\ Len(d[i].path) \in Nat
      BY ONLY <2>3, LenProperties DEF Document
    <2>5. \A i \in 1 .. n : g[i] \in Nat
      BY ONLY <2>3, <2>4
    <2>6. ss = [i \in 1 .. n |-> ss[i]] /\ \A i \in 1 .. n : ss[i] \in Seq(Nat)
      BY ONLY <2>3, <2>4
    <2> HIDE DEF n, g, ss
    <2>7. ASSUME NEW i \in 1 .. n PROVE i - 1 \in Nat /\ SumTo(g, i - 1) \in Nat
      <3>1. i - 1 \in Nat /\ \A k \in 1 .. (i - 1) : g[k] \in Nat
        BY ONLY <2>3, <2>5
      <3>. QED
        BY ONLY <3>1, SumToNat
    <2>8. R = [i \in 1 .. n |-> R[i]] /\ \A i \in 1 .. n : R[i] \in DocumentRow
      BY ONLY <2>2, <2>3, <2>4, <2>7 DEF DocumentRow
    <2>9. R \in Seq(DocumentRow)
      BY ONLY <2>3, <2>8, SeqIs
    <2>10. ss \in Seq(Seq(Nat))
      BY ONLY <2>3, <2>6, SeqIs
    <2>11. FlattenSeq(ss) \in Seq(Nat)
      BY ONLY <2>10, FlattenType
    <2>. QED
      BY <2>9, <2>11 DEF R, ss, d
  <1>2. PostingRecords(all, p) \in Seq(PostingRow) /\ FlattenSeq([k \in DOMAIN all |-> all[k].positions]) \in Seq(Nat)
    <2> DEFINE n == Len(all)
               g == [j \in DOMAIN all |-> all[j].freq]
               R == PostingRecords(all, p)
               ss == [k \in DOMAIN all |-> all[k].positions]
    <2>2. R = [k \in DOMAIN all |-> [doc |-> all[k].doc, freq |-> all[k].freq,
                                     offset |-> IF p THEN PositionSize * SumTo(g, k - 1) ELSE 0]]
      BY DEF PostingRecords, PlaceOffset
    <2> HIDE DEF R
    <2>3. n \in Nat /\ DOMAIN all = 1 .. n /\ \A i \in 1 .. n : all[i] \in Posting
      BY LenProperties, ElementOfSeq DEF n
    <2>4. \A i \in 1 .. n : all[i].doc \in Nat /\ all[i].freq \in Nat /\ all[i].positions \in Seq(Nat)
      BY ONLY <2>3 DEF Posting
    <2>5. \A i \in 1 .. n : g[i] \in Nat
      BY ONLY <2>3, <2>4
    <2>6. ss = [i \in 1 .. n |-> ss[i]] /\ \A i \in 1 .. n : ss[i] \in Seq(Nat)
      BY ONLY <2>3, <2>4
    <2> HIDE DEF n, g, ss
    <2>7. ASSUME NEW i \in 1 .. n PROVE (IF p THEN PositionSize * SumTo(g, i - 1) ELSE 0) \in Nat
      <3>1. i - 1 \in Nat /\ \A k \in 1 .. (i - 1) : g[k] \in Nat
        BY ONLY <2>3, <2>5
      <3>2. SumTo(g, i - 1) \in Nat
        BY ONLY <3>1, SumToNat
      <3>. QED
        BY ONLY <3>2 DEF PositionSize
    <2>8. R = [i \in 1 .. n |-> R[i]] /\ \A i \in 1 .. n : R[i] \in PostingRow
      BY ONLY <2>2, <2>3, <2>4, <2>7 DEF PostingRow
    <2>9. R \in Seq(PostingRow)
      BY ONLY <2>3, <2>8, SeqIs
    <2>10. ss \in Seq(Seq(Nat))
      BY ONLY <2>3, <2>6, SeqIs
    <2>11. FlattenSeq(ss) \in Seq(Nat)
      BY ONLY <2>10, FlattenType
    <2>. QED
      BY <2>9, <2>11 DEF R, ss
  <1>3. TermRecords(terms, counts) \in Seq(TermRow)
    <2> DEFINE n == Len(terms)
               g == [i \in DOMAIN terms |-> Len(terms[i])]
               R == TermRecords(terms, counts)
    <2>2. R = [i \in DOMAIN terms |->
                 [offset |-> CountSize + TermRecordSize * Len(terms) + SumTo(g, i - 1),
                  length |-> g[i], df |-> counts[i],
                  start |-> PostingRecordSize * SumTo(counts, i - 1),
                  bytes |-> PostingRecordSize * counts[i]]]
      BY DEF TermRecords
    <2> HIDE DEF R
    <2>3. n \in Nat /\ DOMAIN terms = 1 .. n /\ (\A i \in 1 .. n : terms[i] \in Seq(Nat))
          /\ n = Len(terms)
      BY LenProperties, ElementOfSeq DEF n
    <2>5. \A i \in 1 .. n : g[i] \in Nat /\ counts[i] \in Nat
      BY <2>3, LenProperties
    <2> HIDE DEF n, g
    <2>7. ASSUME NEW i \in 1 .. n
          PROVE  /\ CountSize + TermRecordSize * Len(terms) + SumTo(g, i - 1) \in Nat
                 /\ PostingRecordSize * SumTo(counts, i - 1) \in Nat
                 /\ PostingRecordSize * counts[i] \in Nat
      <3>1. i - 1 \in Nat /\ \A k \in 1 .. (i - 1) : g[k] \in Nat /\ counts[k] \in Nat
        BY ONLY <2>3, <2>5
      <3>2. SumTo(g, i - 1) \in Nat /\ SumTo(counts, i - 1) \in Nat
        BY ONLY <3>1, SumToNat
      <3>3. CountSize + TermRecordSize * Len(terms) + SumTo(g, i - 1) \in Nat
        <4>1. n \in Nat /\ n = Len(terms)
          BY ONLY <2>3
        <4>. QED
          BY ONLY <3>2, <4>1 DEF CountSize, TermRecordSize
      <3>4. PostingRecordSize * SumTo(counts, i - 1) \in Nat
        BY ONLY <3>2 DEF PostingRecordSize
      <3>5. counts[i] \in Nat
        BY ONLY <2>5
      <3>6. PostingRecordSize * counts[i] \in Nat
        BY ONLY <3>5 DEF PostingRecordSize
      <3>. QED
        BY ONLY <3>3, <3>4, <3>6
    <2>8. R = [i \in 1 .. n |-> R[i]] /\ \A i \in 1 .. n : R[i] \in TermRow
      BY ONLY <2>2, <2>3, <2>5, <2>7 DEF TermRow
    <2>9. R \in Seq(TermRow)
      BY ONLY <2>3, <2>8, SeqIs
    <2>. QED
      BY <2>9 DEF R
  <1>. QED
    BY <1>1, <1>2, <1>3

\* The parts of an index.
LEMMA IndexParts ==
  ASSUME NEW ix \in Index, NEW m, m = Len(ix.postings)
  PROVE  /\ m \in Nat /\ DOMAIN ix.postings = 1 .. m /\ ix.positions \in BOOLEAN
         /\ \A i \in 1 .. m : /\ ix.postings[i] \in Entry
                              /\ ix.postings[i].term \in Seq(Nat) /\ ix.postings[i].list \in Seq(Posting)
         /\ TermsOf(ix) \in Seq(Seq(Nat)) /\ Len(TermsOf(ix)) = m /\ DOMAIN TermsOf(ix) = 1 .. m
         /\ ListsOf(ix) \in Seq(Seq(Posting)) /\ Len(ListsOf(ix)) = m /\ DOMAIN ListsOf(ix) = 1 .. m
         /\ DOMAIN CountsOf(ix) = 1 .. m
         /\ \A i \in 1 .. m : /\ TermsOf(ix)[i] = ix.postings[i].term /\ ListsOf(ix)[i] = ix.postings[i].list
                              /\ CountsOf(ix)[i] = Len(ix.postings[i].list) /\ CountsOf(ix)[i] \in Nat
  <1>1. ix.postings \in Seq(Entry) /\ ix.positions \in BOOLEAN
    BY DEF Index
  <1>2. m \in Nat /\ DOMAIN ix.postings = 1 .. m /\ \A i \in 1 .. m : ix.postings[i] \in Entry
    BY <1>1, LenProperties, ElementOfSeq
  <1>3. \A i \in 1 .. m : ix.postings[i].term \in Seq(Nat) /\ ix.postings[i].list \in Seq(Posting)
    BY <1>2 DEF Entry
  <1> DEFINE t == TermsOf(ix)
             l == ListsOf(ix)
             c == CountsOf(ix)
  <1>4. /\ t = [i \in 1 .. m |-> t[i]] /\ DOMAIN t = 1 .. m
        /\ l = [i \in 1 .. m |-> l[i]] /\ DOMAIN l = 1 .. m
        /\ \A i \in 1 .. m : t[i] = ix.postings[i].term /\ l[i] = ix.postings[i].list
    BY <1>2 DEF TermsOf, ListsOf
  <1>5. DOMAIN c = 1 .. m /\ \A i \in 1 .. m : c[i] = Len(ix.postings[i].list)
    BY ONLY <1>4 DEF CountsOf, c
  <1> HIDE DEF t, l, c
  <1>6. t \in Seq(Seq(Nat)) /\ Len(t) = m
    <2>1. \A i \in 1 .. m : t[i] \in Seq(Nat)
      BY ONLY <1>3, <1>4
    <2>. QED
      BY ONLY <1>2, <1>4, <2>1, SeqIs
  <1>7. l \in Seq(Seq(Posting)) /\ Len(l) = m
    <2>1. \A i \in 1 .. m : l[i] \in Seq(Posting)
      BY ONLY <1>3, <1>4
    <2>. QED
      BY ONLY <1>2, <1>4, <2>1, SeqIs
  <1>8. \A i \in 1 .. m : c[i] \in Nat
    BY ONLY <1>3, <1>5, LenProperties
  <1>. QED
    BY <1>1, <1>2, <1>3, <1>4, <1>5, <1>6, <1>7, <1>8 DEF t, l, c

\* A written file is typed and cut as its header says.
LEMMA WriteTyped ==
  ASSUME NEW ix \in Index
  PROVE  /\ Write(ix) \in SegmentFiles /\ Cut(Write(ix))
         /\ Write(ix).size = HeaderSize + Sum(Sections(Write(ix)))
  <1> DEFINE all == FlattenSeq(ListsOf(ix))
             b == [flags |-> ix.positions, docs |-> DocumentRecords(ix.docs),
                   paths |-> FlattenSeq(PathsOf(ix)),
                   terms |-> TermRecords(TermsOf(ix), CountsOf(ix)), names |-> FlattenSeq(TermsOf(ix)),
                   posts |-> PostingRecords(all, ix.positions),
                   places |-> FlattenSeq([k \in DOMAIN all |-> all[k].positions])]
  <1>1. /\ ix.positions \in BOOLEAN
        /\ TermsOf(ix) \in Seq(Seq(Nat)) /\ ListsOf(ix) \in Seq(Seq(Posting))
        /\ \A i \in 1 .. Len(TermsOf(ix)) : CountsOf(ix)[i] \in Nat
    BY IndexParts
  <1>2. Write(ix) = WithHeader(b)
    BY WriteIs
  <1>3. all \in Seq(Posting) /\ FlattenSeq(TermsOf(ix)) \in Seq(Nat)
    BY <1>1, FlattenType
  <1> HIDE DEF all
  <1>4. Body(b)
    <2>1. /\ DocumentRecords(ix.docs) \in Seq(DocumentRow)
          /\ PostingRecords(all, ix.positions) \in Seq(PostingRow)
          /\ TermRecords(TermsOf(ix), CountsOf(ix)) \in Seq(TermRow)
          /\ FlattenSeq([k \in DOMAIN all |-> all[k].positions]) \in Seq(Nat)
          /\ FlattenSeq(PathsOf(ix)) \in Seq(Nat)
      BY <1>1, <1>3, RecordsTyped DEF PathsOf
    <2>. QED
      BY ONLY <1>1, <1>3, <2>1 DEF Body
  <1> HIDE DEF b
  <1>. QED
    BY <1>2, <1>4, HeaderTyped

-----------------------------------------------------------------------------
(* Pieces of a flattened sequence. *)

\* A part of a total of naturals.
LEMMA SumToBound ==
  ASSUME NEW s, NEW n \in Nat, \A k \in 1 .. n : s[k] \in Nat, NEW i \in 1 .. n
  PROVE  /\ SumTo(s, i - 1) \in Nat /\ SumTo(s, i) = SumTo(s, i - 1) + s[i]
         /\ SumTo(s, i - 1) + s[i] <= SumTo(s, n) /\ SumTo(s, n) \in Nat
  <1>1. i - 1 \in Nat /\ (i - 1) + 1 = i /\ i \in Nat /\ i <= n
    OBVIOUS
  <1>2. SumTo(s, i) = SumTo(s, i - 1) + s[i]
    BY <1>1, SumToRec
  <1>3. \A k \in 1 .. (i - 1) : s[k] \in Nat
    OBVIOUS
  <1>4. SumTo(s, i) <= SumTo(s, n)
    BY <1>1, SumToMonotone
  <1>. QED
    BY <1>1, <1>2, <1>3, <1>4, SumToNat

\* Each sequence is a piece of the flattened one.
LEMMA FlattenPiece ==
  ASSUME NEW X, NEW ss \in Seq(Seq(X)), NEW i \in 1 .. Len(ss)
  PROVE  /\ SumTo(Lens(ss), i - 1) \in Nat
         /\ SumTo(Lens(ss), i - 1) + Len(ss[i]) <= Len(FlattenSeq(ss))
         /\ SubSeq(FlattenSeq(ss), SumTo(Lens(ss), i - 1) + 1, SumTo(Lens(ss), i - 1) + Len(ss[i])) = ss[i]
  <1> DEFINE f == FlattenSeq(ss)
             e == Lens(ss)
             n == Len(ss)
             a == SumTo(e, i - 1)
             d == Len(ss[i])
             t == ss[i]
  <1>1. /\ n \in Nat /\ \A k \in 1 .. n : e[k] = Len(ss[k]) /\ Len(ss[k]) \in Nat
        /\ t \in Seq(X)
    BY LensNat
  <1>2. /\ f \in Seq(X) /\ Len(f) = SumTo(e, n)
        /\ \A k \in Nat : k \in 1 .. d => f[a + k] = t[k]
    BY FlattenAt
  <1>3. e[i] = d /\ d \in Nat /\ \A k \in 1 .. n : e[k] \in Nat
    BY <1>1
  <1>0. i \in 1 .. n
    OBVIOUS
  <1> HIDE DEF f, e, n, t, d
  <1>4. a \in Nat /\ a + d <= Len(f)
    <2>1. SumTo(e, i - 1) \in Nat /\ SumTo(e, i - 1) + e[i] <= SumTo(e, n)
      BY ONLY <1>0, <1>1, <1>3, SumToBound
    <2>. QED
      BY ONLY <1>2, <1>3, <2>1
  <1> HIDE DEF a
  <1> DEFINE u == SubSeq(f, a + 1, a + d)
  <1>5. u \in Seq(X) /\ Len(u) = d /\ \A k \in 1 .. d : u[k] = f[a + k]
    BY ONLY <1>2, <1>3, <1>4, Piece
  <1> HIDE DEF u
  <1>6. u = t
    <2>1. Len(t) = d
      BY DEF t, d
    <2>2. \A k \in 1 .. d : u[k] = t[k]
      BY ONLY <1>2, <1>5
    <2>. QED
      BY ONLY <1>1, <1>5, <2>1, <2>2, SeqEqual
  <1>. QED
    BY <1>4, <1>6 DEF u, a, d, t, e, f

\* Each member of the flattened sequence is in some piece.
LEMMA FlattenMember ==
  ASSUME NEW X, NEW ss \in Seq(Seq(X)), NEW k \in 1 .. Len(FlattenSeq(ss))
  PROVE  \E i \in 1 .. Len(ss) : \E j \in 1 .. Len(ss[i]) :
           k = SumTo(Lens(ss), i - 1) + j /\ FlattenSeq(ss)[k] = ss[i][j]
  <1> DEFINE f == FlattenSeq(ss)
             e == Lens(ss)
             n == Len(ss)
  <1>1. n \in Nat /\ \A i \in 1 .. n : e[i] = Len(ss[i]) /\ e[i] \in Nat
    BY LensNat
  <1>2. /\ f \in Seq(X) /\ Len(f) = SumTo(e, n)
        /\ \A i \in 1 .. n, j \in Nat : j \in 1 .. Len(ss[i]) => f[SumTo(e, i - 1) + j] = ss[i][j]
    BY FlattenAt
  <1>0. k \in 1 .. Len(f)
    OBVIOUS
  <1> HIDE DEF f, e, n
  <1>3. PICK i \in 1 .. n : k - SumTo(e, i - 1) \in 1 .. e[i]
    BY ONLY <1>0, <1>1, <1>2, SumToFind
  <1>4. SumTo(e, i - 1) \in Nat
    BY ONLY <1>1, SumToBound
  <1> DEFINE a == SumTo(e, i - 1)
             j == k - a
  <1>5. j \in 1 .. Len(ss[i]) /\ j \in Nat /\ k = a + j
    <2>1. k \in Nat /\ a \in Nat
      BY ONLY <1>0, <1>2, <1>4, LenProperties
    <2>. QED
      BY ONLY <1>1, <1>3, <2>1
  <1> HIDE DEF j, a
  <1>6. f[a + j] = ss[i][j]
    BY <1>2, <1>5 DEF a
  <1>. QED
    BY <1>5, <1>6 DEF f, e, n, a

-----------------------------------------------------------------------------
(* An index that the writer writes and the reader reads back. *)

\* All its postings, term by term.
AllOf(ix) == FlattenSeq(ListsOf(ix))

Good(ix) ==
  /\ ix \in Index
  /\ \A i \in 1 .. Len(ix.docs) : ix.docs[i].path # <<>> /\ (ix.docs[i].live \/ ix.docs[i].tokens = 0)
  /\ Rising(TermsOf(ix)) /\ \A i \in 1 .. Len(ix.postings) : ix.postings[i].term # <<>>
  /\ \A i \in 1 .. Len(ix.postings) :
       /\ ix.postings[i].list # <<>>
       /\ \A j, k \in 1 .. Len(ix.postings[i].list) :
            j < k => ix.postings[i].list[j].doc < ix.postings[i].list[k].doc
       /\ \A k \in 1 .. Len(ix.postings[i].list) :
            LET x == ix.postings[i].list[k] IN
              /\ x.doc < Len(ix.docs) /\ x.freq > 0 /\ Increasing(x.positions)
              /\ Len(x.positions) = IF ix.positions THEN x.freq ELSE 0
  /\ \A d \in 1 .. Len(ix.docs) :
       SumTo([k \in DOMAIN AllOf(ix) |-> IF AllOf(ix)[k].doc = d - 1 THEN AllOf(ix)[k].freq ELSE 0],
             Len(AllOf(ix))) = ix.docs[d].tokens

\* The file and what it was written from.
LEMMA WrittenFile ==
  ASSUME NEW ix \in Index, NEW f, f = Write(ix), NEW all, all = AllOf(ix)
  PROVE  /\ f.flags = ix.positions /\ f.docs = DocumentRecords(ix.docs)
         /\ f.paths = FlattenSeq(PathsOf(ix))
         /\ f.terms = TermRecords(TermsOf(ix), CountsOf(ix)) /\ f.names = FlattenSeq(TermsOf(ix))
         /\ f.posts = PostingRecords(all, ix.positions)
         /\ f.places = FlattenSeq([k \in DOMAIN all |-> all[k].positions])
         /\ f \in SegmentFiles /\ Cut(f)
         /\ f.lengths = Sections(f) /\ f.size = HeaderSize + Sum(f.lengths)
         /\ \A s \in 1 .. 5 : f.offsets[s] = HeaderSize + SumTo(f.lengths, s - 1)
         /\ all \in Seq(Posting) /\ Len(all) \in Nat /\ DOMAIN all = 1 .. Len(all)
         /\ \A k \in 1 .. Len(all) : all[k] \in Posting
  <1> DEFINE b == [flags |-> ix.positions, docs |-> DocumentRecords(ix.docs),
                   paths |-> FlattenSeq(PathsOf(ix)),
                   terms |-> TermRecords(TermsOf(ix), CountsOf(ix)), names |-> FlattenSeq(TermsOf(ix)),
                   posts |-> PostingRecords(all, ix.positions),
                   places |-> FlattenSeq([k \in DOMAIN all |-> all[k].positions])]
  <1>1. f = WithHeader(b)
    BY WriteIs DEF AllOf
  <1>2. /\ b.flags = ix.positions /\ b.docs = DocumentRecords(ix.docs)
        /\ b.paths = FlattenSeq(PathsOf(ix))
        /\ b.terms = TermRecords(TermsOf(ix), CountsOf(ix)) /\ b.names = FlattenSeq(TermsOf(ix))
        /\ b.posts = PostingRecords(all, ix.positions)
        /\ b.places = FlattenSeq([k \in DOMAIN all |-> all[k].positions])
    OBVIOUS
  <1> HIDE DEF b
  <1>3. /\ f.flags = b.flags /\ f.docs = b.docs /\ f.paths = b.paths /\ f.terms = b.terms
        /\ f.names = b.names /\ f.posts = b.posts /\ f.places = b.places
        /\ f.lengths = Sections(b) /\ f.size = HeaderSize + Sum(Sections(b))
        /\ \A s \in 1 .. 5 : f.offsets[s] = HeaderSize + SumTo(Sections(b), s - 1)
    BY ONLY <1>1 DEF WithHeader
  <1>4. f \in SegmentFiles /\ Cut(f)
    BY WriteTyped
  <1>5. all \in Seq(Posting)
    <2>1. ListsOf(ix) \in Seq(Seq(Posting))
      BY IndexParts
    <2>. QED
      BY <2>1, FlattenType DEF AllOf
  <1>6. Len(all) \in Nat /\ DOMAIN all = 1 .. Len(all) /\ \A k \in 1 .. Len(all) : all[k] \in Posting
    BY ONLY <1>5, LenProperties, ElementOfSeq
  <1>7. f.lengths = Sections(f)
    BY <1>4 DEF Cut
  <1>8. f.lengths = Sections(b) /\ f.size = HeaderSize + Sum(f.lengths)
        /\ \A s \in 1 .. 5 : f.offsets[s] = HeaderSize + SumTo(f.lengths, s - 1)
    BY ONLY <1>3
  <1>. QED
    BY ONLY <1>2, <1>3, <1>4, <1>5, <1>6, <1>7, <1>8

\* The documents written are valid and are read back.
LEMMA DocsReadBack ==
  ASSUME NEW ix \in Index, Good(ix), NEW f, f = Write(ix)
  PROVE  DocumentsValid(f) /\ LoadedDocs(f) = ix.docs
  <1> DEFINE d == ix.docs
             n == Len(d)
             ss == PathsOf(ix)
             e == Lens(ss)
             g == [j \in DOMAIN d |-> Len(d[j].path)]
             h == DocLengths(f)
  <1>1. /\ f.docs = DocumentRecords(d) /\ f.paths = FlattenSeq(ss)
        /\ f \in SegmentFiles /\ f.lengths = Sections(f)
    BY WrittenFile
  <1>2. d \in Seq(Document)
    BY DEF Index
  <1>3. n \in Nat /\ DOMAIN d = 1 .. n /\ (\A i \in 1 .. n : d[i] \in Document) /\ d = [i \in 1 .. n |-> d[i]]
    <2> HIDE DEF d
    <2>. QED
      BY <1>2, LenProperties, ElementOfSeq
  <1>4. \A i \in 1 .. n : /\ d[i].live \in BOOLEAN /\ d[i].tokens \in Nat
                          /\ d[i].path \in Seq(Nat)
                          /\ d[i] = [path |-> d[i].path, live |-> d[i].live, tokens |-> d[i].tokens]
    BY ONLY <1>3 DEF Document
  <1>5. \A i \in 1 .. n : d[i].path # <<>> /\ (d[i].live \/ d[i].tokens = 0)
    BY DEF Good
  <1>6. ss = [i \in 1 .. n |-> ss[i]] /\ \A i \in 1 .. n : ss[i] = d[i].path
    BY <1>3 DEF PathsOf
  <1>7. f.docs = [i \in DOMAIN d |->
                    [id |-> i - 1, live |-> d[i].live, tokens |-> d[i].tokens,
                     length |-> Len(d[i].path), offset |-> SumTo(g, i - 1)]]
    BY ONLY <1>1 DEF DocumentRecords
  <1>8. \A i \in 1 .. n : g[i] = Len(d[i].path)
    BY <1>3
  <1> HIDE DEF d, n, ss, g
  <1>9. ss \in Seq(Seq(Nat)) /\ Len(ss) = n
    <2>1. \A i \in 1 .. n : ss[i] \in Seq(Nat)
      BY ONLY <1>4, <1>6
    <2>. QED
      BY ONLY <1>3, <1>6, <2>1, SeqIs
  <1>10. \A i \in 1 .. n : e[i] = Len(d[i].path) /\ Len(d[i].path) \in Nat
    <2>1. \A i \in 1 .. Len(ss) : Lens(ss)[i] = Len(ss[i]) /\ Len(ss[i]) \in Nat
      BY ONLY <1>9, LensNat
    <2>. QED
      BY ONLY <1>6, <1>9, <2>1
  <1>11. /\ f.paths \in Seq(Nat) /\ Len(f.paths) = SumTo(e, n)
         /\ \A i \in 1 .. n : /\ SumTo(e, i - 1) \in Nat
                              /\ SumTo(e, i - 1) + Len(d[i].path) <= Len(f.paths)
                              /\ SubSeq(f.paths, SumTo(e, i - 1) + 1, SumTo(e, i - 1) + Len(d[i].path)) = d[i].path
    <2>1. /\ FlattenSeq(ss) \in Seq(Nat) /\ Len(FlattenSeq(ss)) = SumTo(Lens(ss), Len(ss))
      BY ONLY <1>9, FlattenAt
    <2>2. \A i \in 1 .. Len(ss) :
            /\ SumTo(Lens(ss), i - 1) \in Nat
            /\ SumTo(Lens(ss), i - 1) + Len(ss[i]) <= Len(FlattenSeq(ss))
            /\ SubSeq(FlattenSeq(ss), SumTo(Lens(ss), i - 1) + 1, SumTo(Lens(ss), i - 1) + Len(ss[i])) = ss[i]
      BY ONLY <1>9, FlattenPiece
    <2>. QED
      BY ONLY <1>1, <1>6, <1>9, <2>1, <2>2
  <1>12. /\ DOMAIN f.docs = 1 .. n /\ f.docs = [i \in 1 .. n |-> f.docs[i]]
         /\ \A i \in 1 .. n : /\ f.docs[i].id = i - 1 /\ f.docs[i].live = d[i].live
                              /\ f.docs[i].tokens = d[i].tokens /\ f.docs[i].length = Len(d[i].path)
                              /\ f.docs[i].offset = SumTo(g, i - 1)
    BY ONLY <1>3, <1>7
  <1>13. Len(f.docs) = n
    BY ONLY <1>3, <1>12, FunLen
  <1>14. h = [i \in 1 .. n |-> h[i]] /\ \A i \in 1 .. n : h[i] = Len(d[i].path)
    BY ONLY <1>12 DEF h, DocLengths
  <1> HIDE DEF h, e
  <1>15. \A i \in 0 .. n : SumTo(g, i) = SumTo(e, i) /\ SumTo(h, i) = SumTo(e, i)
    <2> SUFFICES ASSUME NEW i \in 0 .. n PROVE SumTo(g, i) = SumTo(e, i) /\ SumTo(h, i) = SumTo(e, i)
      OBVIOUS
    <2>1. i \in Nat /\ \A k \in 1 .. i : g[k] = e[k] /\ h[k] = e[k]
      BY ONLY <1>3, <1>8, <1>10, <1>14, i \in 0 .. n
    <2>. QED
      BY ONLY <2>1, SumToSame
  <1>16. f.lengths[1] = CountSize + DocumentRecordSize * n /\ f.lengths[2] = Len(f.paths)
    BY <1>1, <1>13, SectionLengths
  <1>17. \A i \in 1 .. n : i - 1 \in 0 .. n /\ Len(d[i].path) > 0
    <2> SUFFICES ASSUME NEW i \in 1 .. n PROVE i - 1 \in 0 .. n /\ Len(d[i].path) > 0
      OBVIOUS
    <2>1. i - 1 \in 0 .. n
      BY ONLY <1>3, i \in 1 .. n
    <2>2. d[i].path # <<>> /\ d[i].path \in Seq(Nat) /\ Len(d[i].path) \in Nat
      BY ONLY <1>4, <1>5, <1>10, i \in 1 .. n
    <2>3. Len(d[i].path) # 0
      BY ONLY <2>2, EmptySeq
    <2>. QED
      BY ONLY <2>1, <2>2, <2>3
  <1>18. DocumentsEnd(f)
    <2>1. Sum(h) = SumTo(h, n)
      BY ONLY <1>3, <1>14, SumIs
    <2>2. n \in 0 .. n
      BY ONLY <1>3
    <2>3. Sum(h) = f.lengths[2]
      BY ONLY <1>11, <1>15, <1>16, <2>1, <2>2
    <2>. QED
      BY <2>3 DEF DocumentsEnd, h, DocLengths
  <1>19. ASSUME NEW i \in 1 .. n
         PROVE  /\ f.docs[i].id = i - 1 /\ (f.docs[i].live \/ f.docs[i].tokens = 0) /\ f.docs[i].length > 0
                /\ f.docs[i].offset = SumTo(h, i - 1)
                /\ Inside(f.docs[i].offset, f.docs[i].length, f.lengths[2])
    <2>1. i - 1 \in 0 .. n /\ Len(d[i].path) > 0
      BY ONLY <1>17, i \in 1 .. n, Zenon
    <2>2. SumTo(g, i - 1) = SumTo(e, i - 1) /\ SumTo(h, i - 1) = SumTo(e, i - 1)
      BY ONLY <1>15, <2>1, Zenon
    <2>3. /\ f.docs[i].id = i - 1 /\ f.docs[i].live = d[i].live /\ f.docs[i].tokens = d[i].tokens
          /\ f.docs[i].length = Len(d[i].path) /\ f.docs[i].offset = SumTo(g, i - 1)
      BY ONLY <1>12, i \in 1 .. n, Zenon
    <2>4. d[i].live \/ d[i].tokens = 0
      BY ONLY <1>5, i \in 1 .. n, Zenon
    <2>5. SumTo(e, i - 1) + Len(d[i].path) <= f.lengths[2]
      BY ONLY <1>11, <1>16, i \in 1 .. n, Zenon
    <2>. QED
      BY ONLY <2>1, <2>2, <2>3, <2>4, <2>5, Zenon DEF Inside
  <1>20. DocumentsValid(f)
    <2>1. \A i \in DOMAIN f.docs : f.docs[i].offset = SumTo([j \in DOMAIN f.docs |-> f.docs[j].length], i - 1)
      BY <1>12, <1>19 DEF h, DocLengths
    <2>. QED
      BY ONLY <1>12, <1>13, <1>16, <1>18, <1>19, <2>1 DEF DocumentsValid
  <1>21. LoadedDocs(f) = d
    <2>1. LoadedDocs(f) = [i \in 1 .. n |-> [path |-> PathAt(f, f.docs[i]), live |-> f.docs[i].live, tokens |-> f.docs[i].tokens]]
      BY ONLY <1>12 DEF LoadedDocs
    <2>2. ASSUME NEW i \in 1 .. n
          PROVE  [path |-> PathAt(f, f.docs[i]), live |-> f.docs[i].live, tokens |-> f.docs[i].tokens] = d[i]
      <3>1. PathAt(f, f.docs[i]) = SubSeq(f.paths, f.docs[i].offset + 1, f.docs[i].offset + f.docs[i].length)
        BY DEF PathAt
      <3>2. f.docs[i].offset = SumTo(e, i - 1) /\ f.docs[i].length = Len(d[i].path)
        BY ONLY <1>12, <1>15, <1>17, i \in 1 .. n
      <3>3. PathAt(f, f.docs[i]) = d[i].path
        BY ONLY <1>11, <3>1, <3>2, i \in 1 .. n
      <3>. QED
        BY ONLY <1>4, <1>12, <3>3, i \in 1 .. n
    <2>. QED
      BY ONLY <1>3, <2>1, <2>2
  <1>. QED
    BY <1>20, <1>21 DEF d

\* The terms written are valid and are read back.
LEMMA TermsReadBack ==
  ASSUME NEW ix \in Index, Good(ix), NEW f, f = Write(ix), NEW m, m = Len(ix.postings)
  PROVE  /\ m \in Nat /\ Len(f.terms) = m /\ DOMAIN f.terms = 1 .. m
         /\ TermsValid(f) /\ TermsEnd(f)
         /\ \A i \in 1 .. m : /\ Terms(f)[i] = ix.postings[i].term
                              /\ f.terms[i].df = Len(ix.postings[i].list)
                              /\ f.terms[i].df > 0
                              /\ PostsBefore(f, i) = SumTo(Lens(ListsOf(ix)), i - 1)
                              /\ f.terms[i].start = PostingRecordSize * PostsBefore(f, i)
                              /\ PostsBefore(f, i) \in Nat /\ f.terms[i].df \in Nat
  <1> DEFINE t == TermsOf(ix)
             l == ListsOf(ix)
             c == CountsOf(ix)
             e == Lens(t)
             w == Lens(l)
             g == [i \in DOMAIN t |-> Len(t[i])]
             tl == TermLengths(f)
             tb == [i \in DOMAIN f.terms |-> f.terms[i].bytes]
             td == TermCounts(f)
             all == AllOf(ix)
  <1>1. /\ f.terms = TermRecords(t, c) /\ f.names = FlattenSeq(t)
        /\ f.posts = PostingRecords(all, ix.positions)
        /\ f \in SegmentFiles /\ f.lengths = Sections(f)
        /\ all \in Seq(Posting) /\ DOMAIN all = 1 .. Len(all) /\ Len(all) \in Nat
    BY WrittenFile
  <1>2. /\ m \in Nat
        /\ \A i \in 1 .. m : ix.postings[i].term \in Seq(Nat) /\ ix.postings[i].list \in Seq(Posting)
        /\ t \in Seq(Seq(Nat)) /\ Len(t) = m /\ DOMAIN t = 1 .. m
        /\ l \in Seq(Seq(Posting)) /\ Len(l) = m
        /\ \A i \in 1 .. m : /\ t[i] = ix.postings[i].term /\ l[i] = ix.postings[i].list
                             /\ c[i] = Len(ix.postings[i].list) /\ c[i] \in Nat
    BY IndexParts
  <1>3. /\ \A i \in 1 .. m : ix.postings[i].term # <<>> /\ ix.postings[i].list # <<>>
        /\ \A i, j \in DOMAIN t : i < j => Less(t[i], t[j])
    BY DEF Good, Rising
  <1>4. all = FlattenSeq(l)
    BY DEF AllOf
  <1>5. f.terms = [i \in DOMAIN t |->
                     [offset |-> CountSize + TermRecordSize * Len(t) + SumTo(g, i - 1),
                      length |-> g[i], df |-> c[i],
                      start |-> PostingRecordSize * SumTo(c, i - 1),
                      bytes |-> PostingRecordSize * c[i]]]
    BY ONLY <1>1 DEF TermRecords
  <1>6. \A i \in 1 .. m : g[i] = Len(t[i])
    BY ONLY <1>2
  <1> HIDE DEF t, l, c, g, all
  <1>7. \A i \in 1 .. m : e[i] = Len(t[i]) /\ Len(t[i]) \in Nat /\ w[i] = Len(l[i]) /\ Len(l[i]) \in Nat
    <2>0. t \in Seq(Seq(Nat)) /\ l \in Seq(Seq(Posting)) /\ Len(t) = m /\ Len(l) = m
      BY ONLY <1>2
    <2>1. \A i \in 1 .. Len(t) : Lens(t)[i] = Len(t[i]) /\ Len(t[i]) \in Nat
      BY ONLY <2>0, LensNat
    <2>2. \A i \in 1 .. Len(l) : Lens(l)[i] = Len(l[i]) /\ Len(l[i]) \in Nat
      BY ONLY <2>0, LensNat
    <2>. QED
      BY ONLY <2>0, <2>1, <2>2 DEF e, w
  <1>8. /\ DOMAIN f.terms = 1 .. m /\ f.terms = [i \in 1 .. m |-> f.terms[i]]
        /\ \A i \in 1 .. m : /\ f.terms[i].offset = CountSize + TermRecordSize * Len(t) + SumTo(g, i - 1)
                             /\ f.terms[i].length = g[i] /\ f.terms[i].df = c[i]
                             /\ f.terms[i].start = PostingRecordSize * SumTo(c, i - 1)
                             /\ f.terms[i].bytes = PostingRecordSize * c[i]
    BY ONLY <1>2, <1>5
  <1>9. Len(f.terms) = m
    BY ONLY <1>2, <1>8, FunLen
  <1>10. /\ \A i \in 1 .. m : tl[i] = Len(t[i]) /\ tb[i] = 16 * c[i] /\ td[i] = c[i]
         /\ tl = [i \in 1 .. m |-> tl[i]] /\ tb = [i \in 1 .. m |-> tb[i]]
    BY ONLY <1>6, <1>8 DEF tl, tb, td, TermLengths, TermCounts, PostingRecordSize
  <1> HIDE DEF e, w, tl, tb, td
  <1>11. ASSUME NEW i \in 0 .. m
         PROVE  /\ SumTo(g, i) = SumTo(e, i) /\ SumTo(tl, i) = SumTo(e, i)
                /\ SumTo(td, i) = SumTo(c, i) /\ SumTo(w, i) = SumTo(c, i)
                /\ SumTo(tb, i) = 16 * SumTo(c, i) /\ SumTo(e, i) \in Nat /\ SumTo(c, i) \in Nat
    <2>1. /\ i \in Nat
          /\ \A k \in 1 .. i : /\ g[k] = e[k] /\ tl[k] = e[k] /\ td[k] = c[k] /\ w[k] = c[k]
                               /\ c[k] \in Nat /\ e[k] \in Nat /\ tb[k] = 16 * c[k]
      <3>1. i \in Nat /\ m \in Nat
        BY ONLY <1>2, i \in 0 .. m
      <3>2. ASSUME NEW k \in 1 .. i
            PROVE  /\ g[k] = e[k] /\ tl[k] = e[k] /\ td[k] = c[k] /\ w[k] = c[k]
                   /\ c[k] \in Nat /\ e[k] \in Nat /\ tb[k] = 16 * c[k]
        <4>1. k \in 1 .. m
          BY ONLY <3>1, i \in 0 .. m, k \in 1 .. i
        <4>2. g[k] = Len(t[k]) /\ e[k] = Len(t[k]) /\ Len(t[k]) \in Nat /\ w[k] = Len(l[k])
          BY ONLY <1>6, <1>7, <4>1
        <4>3. tl[k] = Len(t[k]) /\ tb[k] = 16 * c[k] /\ td[k] = c[k]
          BY ONLY <1>10, <4>1
        <4>4. c[k] = Len(l[k]) /\ c[k] \in Nat
          BY ONLY <1>2, <4>1
        <4>. QED
          BY ONLY <4>2, <4>3, <4>4
      <3>. QED
        BY ONLY <3>1, <3>2
    <2>2. SumTo(g, i) = SumTo(e, i) /\ SumTo(tl, i) = SumTo(e, i)
      BY ONLY <2>1, SumToSame
    <2>3. SumTo(td, i) = SumTo(c, i) /\ SumTo(w, i) = SumTo(c, i)
      BY ONLY <2>1, SumToSame
    <2>4. SumTo(e, i) \in Nat /\ SumTo(c, i) \in Nat
      BY ONLY <2>1, SumToNat
    <2>5. SumTo(tb, i) = 16 * SumTo(c, i)
      <3>1. 16 \in Nat
        OBVIOUS
      <3>. QED
        BY ONLY <2>1, <3>1, SumToScale
    <2>. QED
      BY ONLY <2>2, <2>3, <2>4, <2>5
  <1>12. /\ Len(f.names) = SumTo(e, m) /\ f.names \in Seq(Nat)
         /\ \A i \in 1 .. m : /\ SumTo(e, i - 1) + Len(t[i]) <= Len(f.names)
                              /\ SubSeq(f.names, SumTo(e, i - 1) + 1, SumTo(e, i - 1) + Len(t[i])) = t[i]
    <2>1. FlattenSeq(t) \in Seq(Nat) /\ Len(FlattenSeq(t)) = SumTo(Lens(t), Len(t))
      BY ONLY <1>2, FlattenAt
    <2>2. \A i \in 1 .. Len(t) :
            /\ SumTo(Lens(t), i - 1) \in Nat
            /\ SumTo(Lens(t), i - 1) + Len(t[i]) <= Len(FlattenSeq(t))
            /\ SubSeq(FlattenSeq(t), SumTo(Lens(t), i - 1) + 1, SumTo(Lens(t), i - 1) + Len(t[i])) = t[i]
      BY ONLY <1>2, FlattenPiece
    <2>. QED
      BY ONLY <1>1, <1>2, <2>1, <2>2 DEF e
  <1>13. /\ Len(all) = SumTo(w, m)
         /\ \A i \in 1 .. m : SumTo(w, i - 1) + Len(l[i]) <= Len(all)
    <2>1. Len(FlattenSeq(l)) = SumTo(Lens(l), Len(l))
      BY ONLY <1>2, FlattenAt
    <2>2. \A i \in 1 .. Len(l) : SumTo(Lens(l), i - 1) + Len(l[i]) <= Len(FlattenSeq(l))
      BY ONLY <1>2, FlattenPiece
    <2>. QED
      BY ONLY <1>2, <1>4, <2>1, <2>2 DEF w
  <1>14. Len(f.posts) = Len(all)
    <2>1. DOMAIN f.posts = 1 .. Len(all) /\ f.posts = [k \in 1 .. Len(all) |-> f.posts[k]]
      BY ONLY <1>1 DEF PostingRecords
    <2>. QED
      BY ONLY <1>1, <2>1, FunLen
  <1>15. /\ f.lengths[3] = 8 + 32 * m + Len(f.names) /\ f.lengths[4] = 16 * Len(all)
         /\ TermBytesBegin(f) = 8 + 32 * m /\ TermBytesBegin(f) \in Nat
         /\ Len(f.names) \in Nat /\ Len(all) \in Nat
    <2>1. /\ f.lengths[3] = 8 + 32 * m + Len(f.names) /\ f.lengths[4] = 16 * Len(all)
      BY <1>1, <1>9, <1>14, SectionLengths DEF CountSize, TermRecordSize, PostingRecordSize
    <2>2. TermBytesBegin(f) = 8 + 32 * m
      BY ONLY <1>9 DEF TermBytesBegin, CountSize, TermRecordSize
    <2>. QED
      BY ONLY <1>1, <1>2, <1>12, <2>1, <2>2, LenProperties
  <1>16. ASSUME NEW i \in 1 .. m
         PROVE  /\ i - 1 \in 0 .. m /\ Len(t[i]) > 0 /\ c[i] > 0 /\ c[i] = Len(l[i])
    <2>1. i - 1 \in 0 .. m
      BY ONLY <1>2, i \in 1 .. m
    <2>2. t[i] # <<>> /\ l[i] # <<>> /\ t[i] \in Seq(Nat) /\ l[i] \in Seq(Posting) /\ c[i] = Len(l[i])
      BY ONLY <1>2, <1>3, i \in 1 .. m
    <2>3. Len(t[i]) # 0 /\ Len(l[i]) # 0
      BY ONLY <2>2, EmptySeq
    <2>. QED
      BY ONLY <1>7, <2>1, <2>2, <2>3, i \in 1 .. m
  <1>17. ASSUME NEW i \in 1 .. m
         PROVE  /\ f.terms[i].length > 0 /\ f.terms[i].length = Len(t[i])
                /\ f.terms[i].offset = TermBytesBegin(f) + SumTo(tl, i - 1)
                /\ f.terms[i].offset = TermBytesBegin(f) + SumTo(e, i - 1)
                /\ Inside(f.terms[i].offset, f.terms[i].length, f.lengths[3])
                /\ f.terms[i].df > 0
                /\ f.terms[i].bytes = PostingRecordSize * f.terms[i].df
                /\ f.terms[i].start = SumTo(tb, i - 1)
                /\ Inside(f.terms[i].start, f.terms[i].bytes, f.lengths[4])
    <2>1. i - 1 \in 0 .. m /\ Len(t[i]) > 0 /\ c[i] > 0 /\ c[i] = Len(l[i]) /\ c[i] \in Nat /\ Len(t[i]) \in Nat
      BY ONLY <1>2, <1>7, <1>16, i \in 1 .. m
    <2>2. /\ SumTo(g, i - 1) = SumTo(e, i - 1) /\ SumTo(tl, i - 1) = SumTo(e, i - 1)
          /\ SumTo(w, i - 1) = SumTo(c, i - 1) /\ SumTo(tb, i - 1) = 16 * SumTo(c, i - 1)
          /\ SumTo(e, i - 1) \in Nat /\ SumTo(c, i - 1) \in Nat
      BY ONLY <1>11, <2>1
    <2>3. /\ f.terms[i].offset = 8 + 32 * m + SumTo(g, i - 1)
          /\ f.terms[i].length = Len(t[i]) /\ f.terms[i].df = c[i]
          /\ f.terms[i].start = 16 * SumTo(c, i - 1)
          /\ f.terms[i].bytes = 16 * c[i]
      BY ONLY <1>2, <1>6, <1>8, i \in 1 .. m DEF CountSize, TermRecordSize, PostingRecordSize
    <2>4. f.terms[i].offset = TermBytesBegin(f) + SumTo(e, i - 1)
      BY ONLY <1>15, <2>2, <2>3
    <2>5. Inside(f.terms[i].offset, f.terms[i].length, f.lengths[3])
      <3>1. SumTo(e, i - 1) + Len(t[i]) <= Len(f.names)
        BY ONLY <1>12, i \in 1 .. m
      <3>2. \A x, y, z, u \in Nat : x + y <= z => (u + x) + y <= u + z
        OBVIOUS
      <3>3. (TermBytesBegin(f) + SumTo(e, i - 1)) + Len(t[i]) <= TermBytesBegin(f) + Len(f.names)
        BY ONLY <1>15, <2>1, <2>2, <3>1, <3>2
      <3>. QED
        BY ONLY <1>15, <2>3, <2>4, <3>3 DEF Inside
    <2>6. Inside(f.terms[i].start, f.terms[i].bytes, f.lengths[4])
      <3>1. SumTo(c, i - 1) + c[i] <= Len(all)
        BY ONLY <1>13, <2>1, <2>2, i \in 1 .. m
      <3>2. \A x, y, z \in Nat : x + y <= z => 16 * x + 16 * y <= 16 * z
        OBVIOUS
      <3>3. 16 * SumTo(c, i - 1) + 16 * c[i] <= 16 * Len(all)
        BY ONLY <1>15, <2>1, <2>2, <3>1, <3>2
      <3>. QED
        BY ONLY <1>15, <2>3, <3>3 DEF Inside
    <2>. QED
      BY ONLY <2>1, <2>2, <2>3, <2>4, <2>5, <2>6 DEF PostingRecordSize
  <1>18. ASSUME NEW i \in 1 .. m PROVE Terms(f)[i] = t[i]
    <2>1. Terms(f)[i] = TermAt(f, f.terms[i])
      BY ONLY <1>8, i \in 1 .. m DEF Terms
    <2>2. TermAt(f, f.terms[i]) = SubSeq(f.names, (f.terms[i].offset - TermBytesBegin(f)) + 1,
                                         (f.terms[i].offset - TermBytesBegin(f)) + f.terms[i].length)
      BY DEF TermAt
    <2>3. f.terms[i].offset - TermBytesBegin(f) = SumTo(e, i - 1)
      <3>1. SumTo(e, i - 1) \in Nat
        BY ONLY <1>11, <1>16, i \in 1 .. m
      <3>2. f.terms[i].offset = TermBytesBegin(f) + SumTo(e, i - 1)
        BY ONLY <1>17, i \in 1 .. m
      <3>. QED
        BY ONLY <1>15, <3>1, <3>2
    <2>4. f.terms[i].length = Len(t[i])
      BY ONLY <1>17, i \in 1 .. m
    <2>. QED
      BY ONLY <1>12, <2>1, <2>2, <2>3, <2>4, i \in 1 .. m
  <1>19. ASSUME NEW i \in 1 .. m, i > 1 PROVE Less(Terms(f)[i - 1], Terms(f)[i])
    <2>1. i - 1 \in 1 .. m /\ i - 1 < i
      BY ONLY <1>2, <1>19
    <2>2. Less(t[i - 1], t[i])
      BY ONLY <1>2, <1>3, <2>1, i \in 1 .. m
    <2>. QED
      BY ONLY <1>18, <2>1, <2>2, i \in 1 .. m
  <1>20. TermsValid(f)
    <2>1. \A i \in 1 .. m : /\ SumTo([j \in DOMAIN f.terms |-> f.terms[j].length], i - 1) = SumTo(tl, i - 1)
                            /\ SumTo([j \in DOMAIN f.terms |-> f.terms[j].bytes], i - 1) = SumTo(tb, i - 1)
      BY DEF tl, tb, TermLengths
    <2>2. TermBytesBegin(f) <= f.lengths[3]
      <3>1. \A x, y \in Nat : x <= x + y
        OBVIOUS
      <3>2. f.lengths[3] = TermBytesBegin(f) + Len(f.names)
        BY ONLY <1>15
      <3>. QED
        BY ONLY <1>15, <3>1, <3>2
    <2>. QED
      BY ONLY <1>8, <1>17, <1>19, <2>1, <2>2 DEF TermsValid
  <1>21. TermsEnd(f)
    <2>1. Sum(tl) = SumTo(tl, m) /\ Sum(tb) = SumTo(tb, m)
      BY ONLY <1>2, <1>10, SumIs
    <2>2. m \in 0 .. m
      BY ONLY <1>2
    <2>3. /\ SumTo(tl, m) = SumTo(e, m) /\ SumTo(tb, m) = 16 * SumTo(c, m) /\ SumTo(w, m) = SumTo(c, m)
      BY ONLY <1>11, <2>2
    <2>4. TermBytesBegin(f) + Sum(tl) = f.lengths[3] /\ Sum(tb) = f.lengths[4]
      BY ONLY <1>12, <1>13, <1>15, <2>1, <2>3
    <2>. QED
      BY <2>4 DEF TermsEnd, tl, tb
  <1>22. ASSUME NEW i \in 1 .. m
         PROVE  /\ PostsBefore(f, i) = SumTo(w, i - 1) /\ PostsBefore(f, i) \in Nat
                /\ f.terms[i].start = PostingRecordSize * PostsBefore(f, i)
                /\ f.terms[i].df = Len(ix.postings[i].list) /\ f.terms[i].df \in Nat
    <2>1. PostsBefore(f, i) = SumTo(td, i - 1)
      BY DEF PostsBefore, td, TermCounts
    <2>2. SumTo(td, i - 1) = SumTo(c, i - 1) /\ SumTo(w, i - 1) = SumTo(c, i - 1) /\ SumTo(c, i - 1) \in Nat
      BY ONLY <1>11, <1>16, i \in 1 .. m
    <2>. QED
      BY ONLY <1>2, <1>8, <2>1, <2>2, i \in 1 .. m
  <1>. QED
    BY <1>2, <1>8, <1>9, <1>17, <1>18, <1>20, <1>21, <1>22 DEF w, l, t

\* The postings written are valid and their positions are read back.
LEMMA PlacesReadBack ==
  ASSUME NEW ix \in Index, Good(ix), NEW f, f = Write(ix), NEW all, all = AllOf(ix), NEW n, n = Len(all)
  PROVE  /\ n \in Nat /\ Len(f.posts) = n /\ DOMAIN f.posts = 1 .. n
         /\ \A k \in 1 .. n : /\ f.posts[k].doc = all[k].doc /\ f.posts[k].freq = all[k].freq
                              /\ f.posts[k].doc < Len(ix.docs) /\ f.posts[k].freq > 0
                              /\ PlacesOf(f, k) = all[k].positions
                              /\ PlaceValid(f, k) /\ Increasing(PlacesOf(f, k))
                              /\ f.flags => PlacesBefore(f, k) + f.posts[k].freq <= Len(f.places)
                              /\ PlacesBefore(f, k) \in Nat
         /\ PositionSize * (IF f.flags THEN PlacesBefore(f, n + 1) ELSE 0) = f.lengths[5]
         /\ ~ f.flags => f.lengths[5] = 0
  <1> DEFINE g == [j \in DOMAIN all |-> all[j].freq]
             fr == Frequencies(f)
             ss == [k \in DOMAIN all |-> all[k].positions]
             e == Lens(ss)
  <1>1. /\ f.posts = PostingRecords(all, ix.positions) /\ f.flags = ix.positions
        /\ f.places = FlattenSeq(ss)
        /\ f \in SegmentFiles /\ f.lengths = Sections(f)
        /\ all \in Seq(Posting) /\ DOMAIN all = 1 .. n /\ n \in Nat
        /\ \A k \in 1 .. n : all[k] \in Posting
    BY WrittenFile
  <1>2. \A k \in 1 .. n : all[k].doc \in Nat /\ all[k].freq \in Nat /\ all[k].positions \in Seq(Nat)
    BY ONLY <1>1 DEF Posting
  <1>3. \A k \in 1 .. n : /\ all[k].doc < Len(ix.docs) /\ all[k].freq > 0 /\ Increasing(all[k].positions)
                          /\ Len(all[k].positions) = IF ix.positions THEN all[k].freq ELSE 0
    <2> SUFFICES ASSUME NEW k \in 1 .. n
                 PROVE  /\ all[k].doc < Len(ix.docs) /\ all[k].freq > 0 /\ Increasing(all[k].positions)
                        /\ Len(all[k].positions) = IF ix.positions THEN all[k].freq ELSE 0
      OBVIOUS
    <2>1. /\ ListsOf(ix) \in Seq(Seq(Posting)) /\ Len(ListsOf(ix)) = Len(ix.postings)
          /\ \A i \in 1 .. Len(ix.postings) : ListsOf(ix)[i] = ix.postings[i].list
      BY IndexParts
    <2>2. PICK i \in 1 .. Len(ListsOf(ix)) : \E j \in 1 .. Len(ListsOf(ix)[i]) : FlattenSeq(ListsOf(ix))[k] = ListsOf(ix)[i][j]
      <3>1. k \in 1 .. Len(FlattenSeq(ListsOf(ix)))
        BY DEF AllOf
      <3>. QED
        BY ONLY <2>1, <3>1, FlattenMember
    <2>3. PICK j \in 1 .. Len(ix.postings[i].list) : all[k] = ix.postings[i].list[j]
      BY <2>1, <2>2 DEF AllOf
    <2>4. i \in 1 .. Len(ix.postings)
      BY <2>1
    <2>. QED
      BY <2>3, <2>4 DEF Good
  <1>4. f.posts = [k \in DOMAIN all |->
                     [doc |-> all[k].doc, freq |-> all[k].freq,
                      offset |-> IF ix.positions THEN PositionSize * SumTo(g, k - 1) ELSE 0]]
    BY <1>1 DEF PostingRecords, PlaceOffset
  <1>5. \A k \in 1 .. n : g[k] = all[k].freq /\ ss[k] = all[k].positions
    BY ONLY <1>1
  <1>6. ss = [k \in 1 .. n |-> ss[k]]
    BY ONLY <1>1
  <1> HIDE DEF g, ss
  <1>7. /\ DOMAIN f.posts = 1 .. n /\ f.posts = [k \in 1 .. n |-> f.posts[k]]
        /\ \A k \in 1 .. n : /\ f.posts[k].doc = all[k].doc /\ f.posts[k].freq = all[k].freq
                             /\ f.posts[k].offset = IF ix.positions THEN PositionSize * SumTo(g, k - 1) ELSE 0
    BY ONLY <1>1, <1>4
  <1>8. Len(f.posts) = n
    BY ONLY <1>1, <1>7, FunLen
  <1>9. ss \in Seq(Seq(Nat)) /\ Len(ss) = n
    <2>1. \A k \in 1 .. n : ss[k] \in Seq(Nat)
      BY ONLY <1>2, <1>5
    <2>. QED
      BY ONLY <1>1, <1>6, <2>1, SeqIs
  <1>10. \A k \in 1 .. n : e[k] = Len(ss[k]) /\ Len(ss[k]) \in Nat
    <2>1. \A k \in 1 .. Len(ss) : Lens(ss)[k] = Len(ss[k]) /\ Len(ss[k]) \in Nat
      BY ONLY <1>9, LensNat
    <2>. QED
      BY ONLY <1>9, <2>1
  <1>11. /\ f.places \in Seq(Nat) /\ Len(f.places) = SumTo(e, n)
         /\ \A k \in 1 .. n : /\ SumTo(e, k - 1) \in Nat
                              /\ SumTo(e, k - 1) + Len(ss[k]) <= Len(f.places)
                              /\ SubSeq(f.places, SumTo(e, k - 1) + 1, SumTo(e, k - 1) + Len(ss[k])) = ss[k]
    <2>1. FlattenSeq(ss) \in Seq(Nat) /\ Len(FlattenSeq(ss)) = SumTo(Lens(ss), Len(ss))
      BY ONLY <1>9, FlattenAt
    <2>2. \A k \in 1 .. Len(ss) :
            /\ SumTo(Lens(ss), k - 1) \in Nat
            /\ SumTo(Lens(ss), k - 1) + Len(ss[k]) <= Len(FlattenSeq(ss))
            /\ SubSeq(FlattenSeq(ss), SumTo(Lens(ss), k - 1) + 1, SumTo(Lens(ss), k - 1) + Len(ss[k])) = ss[k]
      BY ONLY <1>9, FlattenPiece
    <2>. QED
      BY ONLY <1>1, <1>9, <2>1, <2>2
  <1>12. \A k \in 1 .. n : fr[k] = all[k].freq
    BY ONLY <1>7 DEF Frequencies
  <1>13. \A k \in Nat : PlacesBefore(f, k) = SumTo(fr, k - 1)
    BY DEF PlacesBefore, Frequencies
  <1>14. f.lengths[5] = 4 * Len(f.places) /\ Len(f.places) \in Nat
    BY <1>1, <1>11, SectionLengths, LenProperties DEF PositionSize
  <1> HIDE DEF e, fr
  <1>15. ASSUME NEW k \in 0 .. n
         PROVE  /\ SumTo(fr, k) = SumTo(g, k) /\ SumTo(fr, k) \in Nat
                /\ ix.positions => SumTo(e, k) = SumTo(fr, k)
                /\ ~ ix.positions => SumTo(e, k) = 0
    <2>1. k \in Nat /\ \A j \in 1 .. k : j \in 1 .. n
      BY ONLY <1>1, k \in 0 .. n
    <2>2. /\ \A j \in 1 .. k : fr[j] = g[j] /\ fr[j] \in Nat
          /\ ix.positions => \A j \in 1 .. k : e[j] = fr[j]
          /\ ~ ix.positions => \A j \in 1 .. k : e[j] = 0
      BY ONLY <1>2, <1>3, <1>5, <1>10, <1>12, <2>1
    <2>3. SumTo(fr, k) = SumTo(g, k) /\ SumTo(fr, k) \in Nat
      BY ONLY <2>1, <2>2, SumToSame, SumToNat
    <2>4. ix.positions => SumTo(e, k) = SumTo(fr, k)
      BY ONLY <2>1, <2>2, SumToSame
    <2>5. ~ ix.positions => SumTo(e, k) = 0
      BY ONLY <2>1, <2>2, SumToZero
    <2>. QED
      BY ONLY <2>3, <2>4, <2>5
  <1>16. ASSUME NEW k \in 1 .. n
         PROVE  /\ PlacesBefore(f, k) = SumTo(fr, k - 1) /\ PlacesBefore(f, k) \in Nat
                /\ PlaceValid(f, k)
                /\ PlacesOf(f, k) = all[k].positions
                /\ f.flags => PlacesBefore(f, k) + f.posts[k].freq <= Len(f.places)
    <2>1. k - 1 \in 0 .. n /\ k \in Nat
      BY ONLY <1>1, k \in 1 .. n
    <2>2. PlacesBefore(f, k) = SumTo(fr, k - 1) /\ PlacesBefore(f, k) \in Nat
      BY ONLY <1>13, <1>15, <2>1
    <2>3. f.posts[k].offset = IF f.flags THEN PositionSize * PlacesBefore(f, k) ELSE 0
      BY ONLY <1>1, <1>7, <1>15, <2>1, <2>2, k \in 1 .. n
    <2>4. PlacesOf(f, k) = all[k].positions /\ (f.flags => PlacesBefore(f, k) + f.posts[k].freq <= Len(f.places))
      <3>1. CASE f.flags
        <4>1. SumTo(e, k - 1) = PlacesBefore(f, k) /\ Len(ss[k]) = f.posts[k].freq
          BY ONLY <1>1, <1>3, <1>5, <1>7, <1>15, <2>1, <2>2, <3>1, k \in 1 .. n
        <4>2. PlacesOf(f, k) = SubSeq(f.places, PlacesBefore(f, k) + 1, PlacesBefore(f, k) + f.posts[k].freq)
          BY ONLY <3>1 DEF PlacesOf
        <4>. QED
          BY ONLY <1>5, <1>11, <4>1, <4>2, k \in 1 .. n
      <3>2. CASE ~ f.flags
        <4>1. PlacesOf(f, k) = <<>>
          BY ONLY <3>2 DEF PlacesOf
        <4>2. Len(all[k].positions) = 0
          BY ONLY <1>1, <1>3, <3>2, k \in 1 .. n
        <4>3. all[k].positions = <<>>
          BY ONLY <1>2, <4>2, EmptySeq, k \in 1 .. n
        <4>. QED
          BY ONLY <3>2, <4>1, <4>3
      <3>. QED
        BY ONLY <3>1, <3>2
    <2>. QED
      BY ONLY <2>2, <2>3, <2>4 DEF PlaceValid
  <1>17. PositionSize * (IF f.flags THEN PlacesBefore(f, n + 1) ELSE 0) = f.lengths[5]
    <2>1. n + 1 \in Nat /\ (n + 1) - 1 = n /\ n \in 0 .. n
      BY ONLY <1>1
    <2>2. PlacesBefore(f, n + 1) = SumTo(fr, n)
      BY ONLY <1>13, <2>1
    <2>3. f.flags => Len(f.places) = SumTo(fr, n)
      BY ONLY <1>1, <1>11, <1>15, <2>1
    <2>4. ~ f.flags => Len(f.places) = 0
      BY ONLY <1>1, <1>11, <1>15, <2>1
    <2>. QED
      BY ONLY <1>14, <2>2, <2>3, <2>4 DEF PositionSize
  <1>18. ~ f.flags => f.lengths[5] = 0
    BY ONLY <1>17 DEF PositionSize
  <1>. QED
    BY ONLY <1>1, <1>3, <1>7, <1>8, <1>16, <1>17, <1>18

\* validate_index_file accepts what write_index_file_bounded writes of an index
\* with ordered terms and postings, and load_segment reads the same index back.
THEOREM GoodReadsBack ==
  ASSUME NEW ix \in Index, Good(ix)
  PROVE  Accepted(Write(ix)) /\ Loaded(Write(ix)) = ix
  <1> DEFINE f == Write(ix)
             m == Len(ix.postings)
             all == AllOf(ix)
             n == Len(all)
             l == ListsOf(ix)
             w == Lens(l)
  <1>1. /\ f.flags = ix.positions /\ f.docs = DocumentRecords(ix.docs)
        /\ f \in SegmentFiles /\ Cut(f) /\ f.lengths = Sections(f) /\ f.size = HeaderSize + Sum(f.lengths)
        /\ \A s \in 1 .. 5 : f.offsets[s] = HeaderSize + SumTo(f.lengths, s - 1)
        /\ all \in Seq(Posting) /\ n \in Nat /\ DOMAIN all = 1 .. n
        /\ \A k \in 1 .. n : all[k] \in Posting
    BY WrittenFile
  <1>2. DocumentsValid(f) /\ LoadedDocs(f) = ix.docs
    BY DocsReadBack
  <1>3. /\ m \in Nat /\ Len(f.terms) = m /\ DOMAIN f.terms = 1 .. m
        /\ TermsValid(f) /\ TermsEnd(f)
        /\ \A i \in 1 .. m : /\ Terms(f)[i] = ix.postings[i].term
                             /\ f.terms[i].df = Len(ix.postings[i].list)
                             /\ f.terms[i].df > 0
                             /\ PostsBefore(f, i) = SumTo(w, i - 1)
                             /\ PostsBefore(f, i) \in Nat /\ f.terms[i].df \in Nat
    <2>1. f = Write(ix) /\ m = Len(ix.postings) /\ w = Lens(ListsOf(ix))
      OBVIOUS
    <2> HIDE DEF f, m, w
    <2>. QED
      BY ONLY Good(ix), ix \in Index, <2>1, TermsReadBack
  <1>4. /\ Len(f.posts) = n /\ DOMAIN f.posts = 1 .. n
        /\ \A k \in 1 .. n : /\ f.posts[k].doc = all[k].doc /\ f.posts[k].freq = all[k].freq
                             /\ f.posts[k].doc < Len(ix.docs) /\ f.posts[k].freq > 0
                             /\ PlacesOf(f, k) = all[k].positions
                             /\ PlaceValid(f, k) /\ Increasing(PlacesOf(f, k))
                             /\ f.flags => PlacesBefore(f, k) + f.posts[k].freq <= Len(f.places)
        /\ PositionSize * (IF f.flags THEN PlacesBefore(f, n + 1) ELSE 0) = f.lengths[5]
        /\ ~ f.flags => f.lengths[5] = 0
    BY PlacesReadBack
  <1>5. /\ l \in Seq(Seq(Posting)) /\ Len(l) = m
        /\ \A i \in 1 .. m : /\ l[i] = ix.postings[i].list /\ l[i] \in Seq(Posting)
                             /\ ix.postings[i] \in Entry
        /\ DOMAIN ix.postings = 1 .. m /\ ix.positions \in BOOLEAN
    BY IndexParts
  <1>6. /\ \A i \in 1 .. m : \A j, k \in 1 .. Len(ix.postings[i].list) :
             j < k => ix.postings[i].list[j].doc < ix.postings[i].list[k].doc
        /\ \A d \in 1 .. Len(ix.docs) :
             SumTo([k \in DOMAIN all |-> IF all[k].doc = d - 1 THEN all[k].freq ELSE 0], n) = ix.docs[d].tokens
    BY DEF Good
  <1>7. all = FlattenSeq(l)
    BY DEF AllOf
  <1>8. /\ Len(f.docs) = Len(ix.docs) /\ DOMAIN f.docs = 1 .. Len(ix.docs) /\ DOMAIN ix.docs = 1 .. Len(ix.docs)
        /\ \A d \in 1 .. Len(ix.docs) : f.docs[d].tokens = ix.docs[d].tokens
    <2>1. ix.docs \in Seq(Document)
      BY DEF Index
    <2>2. Len(ix.docs) \in Nat /\ DOMAIN ix.docs = 1 .. Len(ix.docs)
      BY ONLY <2>1, LenProperties
    <2>3. /\ DOMAIN f.docs = DOMAIN ix.docs
          /\ \A d \in DOMAIN ix.docs : f.docs[d].tokens = ix.docs[d].tokens
      BY ONLY <1>1 DEF DocumentRecords
    <2>4. Len(f.docs) \in Nat /\ DOMAIN f.docs = 1 .. Len(f.docs)
      BY ONLY <1>1, FileTyped
    <2>. QED
      BY ONLY <2>2, <2>3, <2>4
  <1> HIDE DEF f, m, all, n, l, w
  \* Where the postings of a term stand.
  <1>9. ASSUME NEW i \in 1 .. m, NEW k \in 1 .. f.terms[i].df
        PROVE  /\ PostsBefore(f, i) + k \in 1 .. n
               /\ all[PostsBefore(f, i) + k] = ix.postings[i].list[k]
               /\ k \in 1 .. Len(ix.postings[i].list)
    <2>1. k \in 1 .. Len(l[i]) /\ k \in Nat /\ i \in 1 .. Len(l)
      <3>1. f.terms[i].df = Len(ix.postings[i].list) /\ l[i] = ix.postings[i].list /\ Len(l) = m
        BY ONLY <1>3, <1>5, i \in 1 .. m
      <3>2. f.terms[i].df \in Nat
        BY ONLY <1>3, i \in 1 .. m
      <3>. QED
        BY ONLY <3>1, <3>2, i \in 1 .. m, k \in 1 .. f.terms[i].df
    <2>2. l \in Seq(Seq(Posting))
      BY ONLY <1>5
    <2>3. /\ SumTo(Lens(l), i - 1) + k \in 1 .. Len(FlattenSeq(l))
          /\ FlattenSeq(l)[SumTo(Lens(l), i - 1) + k] = l[i][k]
      BY ONLY <2>1, <2>2, FlattenAt
    <2>4. PostsBefore(f, i) = SumTo(Lens(l), i - 1)
      BY <1>3 DEF w
    <2>5. Len(FlattenSeq(l)) = n
      BY <1>7 DEF n
    <2>. QED
      BY ONLY <1>5, <1>7, <2>1, <2>3, <2>4, <2>5, i \in 1 .. m
  <1>10. ASSUME NEW i \in 1 .. m
         PROVE  /\ Len(PostsOf(f, i)) = f.terms[i].df /\ DOMAIN PostsOf(f, i) = 1 .. f.terms[i].df
                /\ \A k \in 1 .. f.terms[i].df : PostsOf(f, i)[k] = f.posts[PostsBefore(f, i) + k]
    <2>1. PostsBefore(f, i) \in Nat /\ f.terms[i].df \in Nat /\ f.terms[i].df > 0
      BY <1>3
    <2>2. PostsBefore(f, i) + f.terms[i].df <= Len(f.posts)
      <3>1. f.terms[i].df \in 1 .. f.terms[i].df
        BY ONLY <2>1
      <3>2. PostsBefore(f, i) + f.terms[i].df \in 1 .. n
        BY ONLY <1>9, <3>1, i \in 1 .. m
      <3>. QED
        BY ONLY <1>1, <1>4, <2>1, <3>2
    <2>3. f.posts \in Seq(PostingRow)
      BY <1>1, FileTyped
    <2>4. PostsOf(f, i) = SubSeq(f.posts, PostsBefore(f, i) + 1, PostsBefore(f, i) + f.terms[i].df)
      BY DEF PostsOf
    <2> DEFINE a == PostsBefore(f, i)
               d == f.terms[i].df
               s == f.posts
               Q == PostsOf(f, i)
    <2>5. a \in Nat /\ d \in Nat /\ a + d <= Len(s) /\ s \in Seq(PostingRow) /\ Q = SubSeq(s, a + 1, a + d)
      BY ONLY <2>1, <2>2, <2>3, <2>4
    <2> HIDE DEF a, d, s, Q
    <2>6. Q \in Seq(PostingRow) /\ Len(Q) = d /\ \A k \in 1 .. d : Q[k] = s[a + k]
      BY ONLY <2>5, Piece
    <2>7. DOMAIN Q = 1 .. d
      BY ONLY <2>6, LenProperties
    <2>. QED
      BY <2>6, <2>7 DEF a, d, s, Q
  <1>11. ASSUME NEW i \in 1 .. m
         PROVE  Increasing([k \in DOMAIN PostsOf(f, i) |-> PostsOf(f, i)[k].doc])
    <2>1. \A k \in 1 .. f.terms[i].df : PostsOf(f, i)[k].doc = ix.postings[i].list[k].doc
      BY ONLY <1>4, <1>9, <1>10, i \in 1 .. m, ZenonT(60)
    <2>2. f.terms[i].df = Len(ix.postings[i].list)
      BY <1>3
    <2>3. DOMAIN PostsOf(f, i) = 1 .. f.terms[i].df
      BY <1>10
    <2>4. \A j, k \in 1 .. f.terms[i].df : j < k => ix.postings[i].list[j].doc < ix.postings[i].list[k].doc
      BY ONLY <1>6, <2>2, i \in 1 .. m
    <2>. QED
      BY ONLY <2>1, <2>3, <2>4 DEF Increasing
  <1>12. \A d \in DOMAIN f.docs : TokensOf(f, d - 1) = f.docs[d].tokens
    <2> SUFFICES ASSUME NEW d \in DOMAIN f.docs PROVE TokensOf(f, d - 1) = f.docs[d].tokens
      OBVIOUS
    <2> DEFINE u == [k \in DOMAIN f.posts |-> IF f.posts[k].doc = d - 1 THEN f.posts[k].freq ELSE 0]
               v == [k \in DOMAIN all |-> IF all[k].doc = d - 1 THEN all[k].freq ELSE 0]
    <2>1. TokensOf(f, d - 1) = Sum(u)
      BY DEF TokensOf
    <2>2. u = [k \in 1 .. n |-> u[k]] /\ \A k \in 1 .. n : u[k] = v[k]
      BY ONLY <1>1, <1>4
    <2>3. SumTo(v, n) = ix.docs[d].tokens /\ ix.docs[d].tokens = f.docs[d].tokens
      BY <1>6, <1>8
    <2> HIDE DEF u, v
    <2>4. Sum(u) = SumTo(u, n)
      BY ONLY <1>1, <2>2, SumIs
    <2>5. SumTo(u, n) = SumTo(v, n)
      BY ONLY <1>1, <2>2, SumToSame
    <2>. QED
      BY ONLY <2>1, <2>3, <2>4, <2>5
  <1>13. PostingsValid(f)
    <2>1. /\ TermBytesBegin(f) + Sum([i \in DOMAIN f.terms |-> f.terms[i].length]) = f.lengths[3]
          /\ Sum([i \in DOMAIN f.terms |-> f.terms[i].bytes]) = f.lengths[4]
      <3>1. TermsEnd(f)
        BY ONLY <1>3
      <3>. QED
        BY ONLY <3>1 DEF TermsEnd, TermLengths
    <2>2. \A k \in DOMAIN f.posts : /\ f.posts[k].doc < Len(f.docs) /\ f.posts[k].freq > 0 /\ PlaceValid(f, k)
                                    /\ f.flags => PlacesBefore(f, k) + f.posts[k].freq <= Len(f.places)
                                    /\ Increasing(PlacesOf(f, k))
      BY ONLY <1>4, <1>8
    <2>3. PositionSize * (IF f.flags THEN PlacesBefore(f, Len(f.posts) + 1) ELSE 0) = f.lengths[5]
      BY ONLY <1>4
    <2>. QED
      BY ONLY <1>3, <1>11, <1>12, <2>1, <2>2, <2>3 DEF PostingsValid
  <1>14. EnvelopeValid(f)
    BY ONLY <1>1, <1>4 DEF EnvelopeValid, HeaderValid
  <1>15. Accepted(f)
    BY <1>2, <1>3, <1>13, <1>14 DEF Accepted
  <1>16. ASSUME NEW i \in 1 .. m PROVE LoadedList(f, i) = ix.postings[i].list
    <2>1. /\ LoadedList(f, i) \in Seq(Posting) /\ Len(LoadedList(f, i)) = f.terms[i].df
          /\ \A k \in 1 .. f.terms[i].df : LoadedList(f, i)[k] = LoadedPost(f, PostsBefore(f, i) + k)
      BY <1>1, <1>3, <1>13, LoadedListIs
    <2>2. ASSUME NEW k \in 1 .. f.terms[i].df PROVE LoadedList(f, i)[k] = ix.postings[i].list[k]
      <3> DEFINE p == PostsBefore(f, i) + k
      <3>1. p \in 1 .. n /\ all[p] = ix.postings[i].list[k]
        BY <1>9
      <3> HIDE DEF p
      <3>2. LoadedPost(f, p) = [doc |-> all[p].doc, freq |-> all[p].freq, positions |-> all[p].positions]
        BY ONLY <1>4, <3>1 DEF LoadedPost
      <3>3. all[p] = [doc |-> all[p].doc, freq |-> all[p].freq, positions |-> all[p].positions]
        BY ONLY <1>1, <3>1 DEF Posting
      <3>. QED
        BY <2>1, <3>1, <3>2, <3>3 DEF p
    <2>3. ix.postings[i].list \in Seq(Posting) /\ Len(ix.postings[i].list) = f.terms[i].df
      BY ONLY <1>3, <1>5, i \in 1 .. m
    <2>. QED
      BY ONLY <2>1, <2>2, <2>3, SeqEqual
  <1>17. Loaded(f) = ix
    <2>1. Loaded(f) = [positions |-> f.flags, docs |-> LoadedDocs(f),
                       postings |-> [i \in DOMAIN f.terms |-> [term |-> Terms(f)[i], list |-> LoadedList(f, i)]]]
      BY DEF Loaded, LoadedDocs, LoadedList
    <2>2. \A i \in 1 .. m : [term |-> Terms(f)[i], list |-> LoadedList(f, i)] = ix.postings[i]
      <3>1. \A i \in 1 .. m : ix.postings[i] = [term |-> ix.postings[i].term, list |-> ix.postings[i].list]
        BY ONLY <1>5 DEF Entry
      <3>. QED
        BY ONLY <1>3, <1>16, <3>1
    <2>3. ix.postings = [i \in 1 .. m |-> ix.postings[i]]
      <3>1. ix.postings \in Seq(Entry)
        BY DEF Index
      <3> DEFINE z == ix.postings
      <3>2. z \in Seq(Entry) /\ DOMAIN z = 1 .. m
        BY ONLY <1>5, <3>1
      <3> HIDE DEF z
      <3>3. z = [i \in DOMAIN z |-> z[i]]
        BY ONLY <3>2, LenProperties, ElementOfSeq
      <3>. QED
        BY <3>2, <3>3 DEF z
    <2>4. [i \in DOMAIN f.terms |-> [term |-> Terms(f)[i], list |-> LoadedList(f, i)]] = ix.postings
      BY ONLY <1>3, <2>2, <2>3
    <2>5. ix = [positions |-> ix.positions, docs |-> ix.docs, postings |-> ix.postings]
      BY DEF Index
    <2>. QED
      BY ONLY <1>1, <1>2, <2>1, <2>4, <2>5
  <1>. QED
    BY <1>15, <1>17 DEF f
=============================================================================
