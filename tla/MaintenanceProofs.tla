------------------------- MODULE MaintenanceProofs -------------------------
(***************************************************************************)
(* Theorems about Maintenance, for any paths, contents, times, segments    *)
(* and workers: what a publication makes visible, that an update leaves    *)
(* what the files held, and that its counts are true.                      *)
(***************************************************************************)
EXTENDS Maintenance, SumLemmas

(* What Kept computes. *)

Extended(g, s, K, n) ==
  IF n = 0 THEN <<>> ELSE IF n \in K THEN Append(g[n - 1], s[n]) ELSE g[n - 1]

IsUpto(g, s, K) == g = [n \in 0 .. Len(s) |-> Extended(g, s, K, n)]

Upto(s, K) == CHOOSE g : IsUpto(g, s, K)

LEMMA KeptUnfold ==
  ASSUME NEW s, NEW K
  PROVE  Kept(s, K) = Upto(s, K)[Len(s)]
  BY DEF Kept, Upto, IsUpto, Extended

LEMMA UptoExists ==
  ASSUME NEW X, NEW s \in Seq(X), NEW K
  PROVE  \E g : IsUpto(g, s, K)
  <1> DEFINE Good(g, n) == \A i \in 0 .. n : g[i] = Extended(g, s, K, i)
             T == {n \in Nat : \E g : g = [i \in 0 .. n |-> g[i]] /\ Good(g, n)}
  <1>1. 0 \in T
    <2> DEFINE g == [i \in 0 .. 0 |-> <<>>]
    <2>1. g = [i \in 0 .. 0 |-> g[i]] /\ Good(g, 0)
      BY DEF Extended
    <2> HIDE DEF g
    <2>. QED
      BY <2>1
  <1>2. ASSUME NEW n \in Nat, n \in T PROVE n + 1 \in T
    <2>1. PICK g : g = [i \in 0 .. n |-> g[i]] /\ Good(g, n)
      BY <1>2
    <2> DEFINE h == [i \in 0 .. (n + 1) |->
                       IF i <= n THEN g[i] ELSE Extended(g, s, K, i)]
    <2>2. h = [i \in 0 .. (n + 1) |-> h[i]] /\ \A i \in 0 .. n : h[i] = g[i]
      OBVIOUS
    <2>3. \A i \in 0 .. (n + 1) : h[i] = Extended(g, s, K, i)
      BY <2>1
    <2>4. \A i \in 0 .. (n + 1) : i # 0 => i - 1 \in 0 .. n
      OBVIOUS
    <2> HIDE DEF h
    <2>5. \A i \in 0 .. (n + 1) : Extended(g, s, K, i) = Extended(h, s, K, i)
      BY <2>2, <2>4 DEF Extended
    <2>6. Good(h, n + 1)
      BY <2>3, <2>5
    <2>. QED
      BY <2>2, <2>6
  <1> HIDE DEF T
  <1>3. Len(s) \in T
    BY <1>1, <1>2, NatInductive, LenProperties
  <1>4. PICK g : g = [i \in 0 .. Len(s) |-> g[i]] /\ Good(g, Len(s))
    BY <1>3 DEF T
  <1>5. g = [i \in 0 .. Len(s) |-> Extended(g, s, K, i)]
    BY <1>4
  <1>. QED
    BY <1>5 DEF IsUpto

\* h lists the positions up to n that are in K, in order, and t what s holds
\* at them.
Lists(h, t, s, K, n) ==
  /\ \A k \in DOMAIN t : h[k] \in K /\ h[k] \in 1 .. n /\ t[k] = s[h[k]]
  /\ \A k, l \in DOMAIN t : k < l => h[k] < h[l]
  /\ \A i \in 1 .. n : i \in K => \E k \in DOMAIN t : h[k] = i

LEMMA ListsMore ==
  ASSUME NEW X, NEW s \in Seq(X), NEW K, NEW n \in Nat, n + 1 \in DOMAIN s,
         NEW t \in Seq(X), NEW h, Lists(h, t, s, K, n)
  PROVE  /\ n + 1 \in K => \E e : Lists(e, Append(t, s[n + 1]), s, K, n + 1)
         /\ n + 1 \notin K => Lists(h, t, s, K, n + 1)
  <1> DEFINE m == Len(t)
             w == Append(t, s[n + 1])
             e == [k \in 1 .. (m + 1) |-> IF k = m + 1 THEN n + 1 ELSE h[k]]
  <1>1. /\ m \in Nat /\ DOMAIN t = 1 .. m /\ DOMAIN w = 1 .. (m + 1)
        /\ w[m + 1] = s[n + 1] /\ \A k \in 1 .. m : w[k] = t[k]
    BY AppendProperties, LenProperties
  <1>2. /\ \A k \in 1 .. (m + 1) : k \in 1 .. m \/ k = m + 1
        /\ \A k \in 1 .. m : k \in 1 .. (m + 1) /\ k # m + 1 /\ ~ (m + 1 < k)
        /\ m + 1 \in 1 .. (m + 1)
        /\ \A i \in 1 .. (n + 1) : i \in 1 .. n \/ i = n + 1
        /\ \A i \in 1 .. n : i \in 1 .. (n + 1) /\ i < n + 1
        /\ n + 1 \in 1 .. (n + 1)
    BY <1>1
  <1>3. e[m + 1] = n + 1 /\ \A k \in 1 .. m : e[k] = h[k]
    BY <1>1, <1>2
  <1> HIDE DEF m, w, e
  <1>4. ASSUME n + 1 \notin K PROVE Lists(h, t, s, K, n + 1)
    BY <1>2, <1>4 DEF Lists
  <1>5. ASSUME n + 1 \in K PROVE Lists(e, w, s, K, n + 1)
    <2>1. \A k \in DOMAIN w : e[k] \in K /\ e[k] \in 1 .. (n + 1) /\ w[k] = s[e[k]]
      BY <1>1, <1>2, <1>3, <1>5 DEF Lists
    <2>2. \A k, l \in DOMAIN w : k < l => e[k] < e[l]
      <3> SUFFICES ASSUME NEW k \in 1 .. (m + 1), NEW l \in 1 .. (m + 1), k < l
                   PROVE  e[k] < e[l]
        BY <1>1
      <3>1. k \in 1 .. m
        BY <1>1
      <3>2. CASE l = m + 1
        BY <1>1, <1>2, <1>3, <3>1, <3>2 DEF Lists
      <3>3. CASE l \in 1 .. m
        <4>1. h[k] < h[l]
          BY <1>1, <3>1, <3>3 DEF Lists
        <4>. QED
          BY <1>3, <3>1, <3>3, <4>1
      <3>. QED
        BY <1>2, <3>2, <3>3
    <2>3. \A i \in 1 .. (n + 1) : i \in K => \E k \in DOMAIN w : e[k] = i
      <3> SUFFICES ASSUME NEW i \in 1 .. (n + 1), i \in K
                   PROVE  \E k \in DOMAIN w : e[k] = i
        OBVIOUS
      <3>1. CASE i = n + 1
        BY <1>1, <1>2, <1>3, <3>1
      <3>2. CASE i \in 1 .. n
        BY <1>1, <1>2, <1>3, <3>2 DEF Lists
      <3>. QED
        BY <1>2, <3>1, <3>2
    <2>. QED
      BY <2>1, <2>2, <2>3 DEF Lists
  <1>. QED
    BY <1>4, <1>5 DEF w

LEMMA KeptLists ==
  ASSUME NEW X, NEW s \in Seq(X), NEW K
  PROVE  /\ Kept(s, K) \in Seq(X)
         /\ \E h : Lists(h, Kept(s, K), s, K, Len(s))
  <1> DEFINE g == Upto(s, K)
             m == Len(s)
             T == {n \in Nat : n <= m =>
                     g[n] \in Seq(X) /\ \E h : Lists(h, g[n], s, K, n)}
  <1>1. m \in Nat /\ DOMAIN s = 1 .. m /\ \A i \in 1 .. m : s[i] \in X
    BY LenProperties
  <1>2. IsUpto(g, s, K)
    BY UptoExists DEF Upto
  <1>3. \A n \in 0 .. m : g[n] = Extended(g, s, K, n)
    BY <1>2 DEF IsUpto
  <1> HIDE DEF g, m
  <1>4. 0 \in T
    <2>1. g[0] = <<>>
      BY <1>1, <1>3 DEF Extended
    <2>2. \A h : Lists(h, <<>>, s, K, 0)
      BY DEF Lists
    <2>3. <<>> \in Seq(X)
      OBVIOUS
    <2>. QED
      BY <2>1, <2>2, <2>3
  <1>5. ASSUME NEW n \in Nat, n \in T PROVE n + 1 \in T
    <2> SUFFICES ASSUME n + 1 <= m
                 PROVE  g[n + 1] \in Seq(X) /\ \E h : Lists(h, g[n + 1], s, K, n + 1)
      OBVIOUS
    <2>1. /\ n <= m /\ n + 1 \in 0 .. m /\ n + 1 \in 1 .. m /\ n + 1 # 0
          /\ (n + 1) - 1 = n
      BY <1>1
    <2>2. g[n] \in Seq(X)
      BY <1>5, <2>1
    <2>3. PICK h : Lists(h, g[n], s, K, n)
      BY <1>5, <2>1
    <2>4. /\ n + 1 \in K => \E e : Lists(e, Append(g[n], s[n + 1]), s, K, n + 1)
          /\ n + 1 \notin K => Lists(h, g[n], s, K, n + 1)
      BY <1>1, <2>1, <2>2, <2>3, ListsMore
    <2>5. g[n + 1] = IF n + 1 \in K THEN Append(g[n], s[n + 1]) ELSE g[n]
      BY <1>3, <2>1 DEF Extended
    <2>6. Append(g[n], s[n + 1]) \in Seq(X)
      BY <1>1, <2>1, <2>2, AppendProperties
    <2>. QED
      BY <2>2, <2>4, <2>5, <2>6
  <1> HIDE DEF T
  <1>6. m \in T
    BY <1>1, <1>4, <1>5, NatInductive
  <1>7. Kept(s, K) = g[m]
    BY KeptUnfold DEF g, m
  <1>8. g[m] \in Seq(X) /\ \E h : Lists(h, g[m], s, K, m)
    BY <1>1, <1>6 DEF T
  <1>. QED
    BY <1>7, <1>8 DEF m

-----------------------------------------------------------------------------
(* Segments one after another, and the newest record of a path. *)

LEMMA FlattenTyped ==
  ASSUME NEW X, NEW ss \in Seq(Seq(X))
  PROVE  FlattenSeq(ss) \in Seq(X)
  <1>1. [x \in X |-> 0] \in [X -> Nat]
    OBVIOUS
  <1>. QED
    BY <1>1, FlattenWeight

LEMMA FlattenOne ==
  ASSUME NEW X, NEW s \in Seq(X)
  PROVE  FlattenSeq(<<s>>) = s
  <1> DEFINE ss == <<s>>
  <1>1. ss \in Seq(Seq(X)) /\ Len(ss) = 1 /\ ss[1] = s
    OBVIOUS
  <1>2. IsFlat(Flat(ss), ss)
    BY <1>1, FlatExists DEF Flat
  <1> HIDE DEF ss
  <1>3. Flat(ss)[1] = Flattened(Flat(ss), ss, 1)
    BY <1>1, <1>2 DEF IsFlat
  <1>4. FlattenSeq(ss) = Flat(ss)[1]
    <2>1. FlattenSeq(ss) = IF Len(ss) = 0 THEN ss ELSE Flat(ss)[Len(ss)]
      BY ONLY FlattenUnfold
    <2>. QED
      BY <1>1, <2>1
  <1>5. Flattened(Flat(ss), ss, 1) = s
    BY <1>1 DEF Flattened
  <1>. QED
    BY <1>3, <1>4, <1>5 DEF ss

LEMMA FlattenAppend ==
  ASSUME NEW X, NEW ss \in Seq(Seq(X)), NEW s \in Seq(X)
  PROVE  FlattenSeq(Append(ss, s)) = FlattenSeq(ss) \o s
  <1> DEFINE m == Len(ss)
             w == Append(ss, s)
             g == Flat(ss)
             h == Flat(w)
             T == {n \in Nat : n + 1 <= m => h[n + 1] = g[n + 1]}
  <1>1. /\ m \in Nat /\ w \in Seq(Seq(X)) /\ Len(w) = m + 1 /\ w[m + 1] = s
        /\ \A k \in 1 .. m : w[k] = ss[k]
    BY AppendProperties, LenProperties
  <1>2. IsFlat(g, ss) /\ IsFlat(h, w)
    BY <1>1, FlatExists DEF Flat
  <1>3. /\ \A n \in 1 .. m : g[n] = Flattened(g, ss, n)
        /\ \A n \in 1 .. (m + 1) : h[n] = Flattened(h, w, n)
    BY <1>1, <1>2 DEF IsFlat
  <1>4. FlattenSeq(w) = h[m + 1]
    <2>1. FlattenSeq(w) = IF Len(w) = 0 THEN w ELSE h[Len(w)]
      BY ONLY FlattenUnfold
    <2>. QED
      BY <1>1, <2>1
  <1>5. FlattenSeq(ss) = IF m = 0 THEN ss ELSE g[m]
    BY FlattenUnfold
  <1> HIDE DEF m, w, g, h
  <1>6. 0 \in T
    <2> SUFFICES ASSUME 1 <= m PROVE h[1] = g[1]
      OBVIOUS
    <2>1. 1 \in 1 .. m /\ 1 \in 1 .. (m + 1)
      BY <1>1
    <2>. QED
      BY <1>1, <1>3, <2>1 DEF Flattened
  <1>7. ASSUME NEW n \in Nat, n \in T PROVE n + 1 \in T
    <2> DEFINE p == n + 1
    <2> SUFFICES ASSUME p + 1 <= m PROVE h[p + 1] = g[p + 1]
      OBVIOUS
    <2>1. /\ p + 1 \in 1 .. m /\ p + 1 \in 1 .. (m + 1) /\ (p + 1) - 1 = p /\ p + 1 # 1
          /\ p <= m
      BY <1>1
    <2>2. h[p] = g[p]
      BY <1>7, <2>1
    <2> HIDE DEF p, T
    <2>3. /\ h[p + 1] = h[p] \o w[p + 1] /\ g[p + 1] = g[p] \o ss[p + 1]
          /\ w[p + 1] = ss[p + 1]
      BY <1>1, <1>3, <2>1 DEF Flattened
    <2>. QED
      BY <2>2, <2>3
  <1> HIDE DEF T
  <1>8. Nat \subseteq T
    BY <1>6, <1>7, NatInductive
  <1>9. m + 1 \in 1 .. (m + 1) /\ h[m + 1] = IF m + 1 = 1 THEN s ELSE h[m] \o s
    <2>1. m + 1 \in 1 .. (m + 1) /\ (m + 1) - 1 = m
      BY <1>1
    <2>. QED
      BY <1>1, <1>3, <2>1 DEF Flattened
  <1>10. CASE m = 0
    <2>1. ss = <<>>
      BY <1>10, EmptySeq DEF m
    <2>2. <<>> \o s = s
      OBVIOUS
    <2>. QED
      BY <1>4, <1>5, <1>9, <1>10, <2>1, <2>2 DEF w
  <1>11. CASE m # 0
    <2>1. m - 1 \in Nat /\ (m - 1) + 1 = m
      BY <1>1, <1>11
    <2>2. m - 1 \in T
      BY <1>8, <2>1
    <2>3. h[m] = g[m]
      BY <1>1, <2>1, <2>2 DEF T
    <2>. QED
      BY <1>1, <1>4, <1>5, <1>9, <1>11, <2>3 DEF w
  <1>. QED
    BY <1>10, <1>11

LEMMA MaxExists ==
  ASSUME NEW n \in Nat, NEW S \in SUBSET (1 .. n), S # {}
  PROVE  Max(S) \in S /\ \A i \in S : i <= Max(S)
  <1> DEFINE T == {m \in Nat : \A A \in SUBSET (1 .. m) :
                                 A # {} => \E x \in A : \A y \in A : x >= y}
  <1>1. 0 \in T
    <2>1. 1 .. 0 = {}
      OBVIOUS
    <2>2. \A A \in SUBSET (1 .. 0) : A = {}
      BY <2>1
    <2>. QED
      BY <2>2
  <1>2. ASSUME NEW m \in Nat, m \in T PROVE m + 1 \in T
    <2> SUFFICES ASSUME NEW A \in SUBSET (1 .. (m + 1)), A # {}
                 PROVE  \E x \in A : \A y \in A : x >= y
      OBVIOUS
    <2>1. CASE m + 1 \in A
      BY <2>1
    <2>2. CASE m + 1 \notin A
      <3>1. A \in SUBSET (1 .. m)
        BY <2>2
      <3>. QED
        BY <1>2, <3>1
    <2>. QED
      BY <2>1, <2>2
  <1> HIDE DEF T
  <1>3. n \in T
    BY <1>1, <1>2, NatInductive
  <1>4. \E x \in S : \A y \in S : x >= y
    BY <1>3 DEF T
  <1> DEFINE IsMax(x) == x \in S /\ \A y \in S : x >= y
  <1>5. \E x : IsMax(x)
    BY <1>4
  <1>6. Max(S) = CHOOSE x : IsMax(x)
    BY DEF Max
  <1> HIDE DEF IsMax
  <1>7. IsMax(Max(S))
    BY <1>5, <1>6
  <1>8. Max(S) \in S /\ \A y \in S : Max(S) >= y
    BY <1>7 DEF IsMax
  <1>9. \A i \in S : i \in Int
    OBVIOUS
  <1>10. \A i \in S : i <= Max(S)
    BY <1>8, <1>9
  <1>. QED
    BY <1>8, <1>10

\* Record i of all is the newest of path p, and live.
Top(all, p, i) ==
  /\ i \in DOMAIN all /\ all[i].path = p /\ all[i].live
  /\ \A j \in i + 1 .. Len(all) : all[j].path # p

Has(all, p) == \E k \in DOMAIN all : all[k].path = p

\* What a search finds of path p in the records of all.
Found(all, p) ==
  IF \E i : Top(all, p, i) THEN all[CHOOSE i : Top(all, p, i)] ELSE Tombstone(p)

LEMMA TopUnique ==
  ASSUME NEW X, NEW all \in Seq(X), NEW p, NEW i, NEW j, Top(all, p, i), Top(all, p, j)
  PROVE  i = j
  <1>1. /\ i \in 1 .. Len(all) /\ j \in 1 .. Len(all) /\ Len(all) \in Nat
        /\ all[i].path = p /\ all[j].path = p
    BY LenProperties DEF Top
  <1>2. i < j => j \in i + 1 .. Len(all)
    BY <1>1
  <1>3. j < i => i \in j + 1 .. Len(all)
    BY <1>1
  <1>. QED
    BY <1>1, <1>2, <1>3 DEF Top

LEMMA FoundTop ==
  ASSUME NEW X, NEW all \in Seq(X), NEW p
  PROVE  /\ \A i : Top(all, p, i) => Found(all, p) = all[i]
         /\ (\A i : ~ Top(all, p, i)) => Found(all, p) = Tombstone(p)
  <1>1. ASSUME NEW i, Top(all, p, i) PROVE Found(all, p) = all[i]
    <2> DEFINE c == CHOOSE k : Top(all, p, k)
    <2>1. Top(all, p, c)
      BY <1>1
    <2> HIDE DEF c
    <2>2. c = i
      BY <1>1, <2>1, TopUnique
    <2>3. Found(all, p) = all[c]
      BY <1>1 DEF Found, c
    <2>. QED
      BY <2>2, <2>3
  <1>2. (\A i : ~ Top(all, p, i)) => Found(all, p) = Tombstone(p)
    BY DEF Found
  <1>. QED
    BY <1>1, <1>2

LEMMA LookupFound ==
  ASSUME NEW X, NEW S, FlattenSeq(S) \in Seq(X), NEW p
  PROVE  Lookup(S, p) = Found(FlattenSeq(S), p)
  <1> DEFINE all == FlattenSeq(S)
             n == Len(all)
             at == {i \in DOMAIN all : all[i].path = p}
             m == Max(at)
  <1>1. all \in Seq(X) /\ n \in Nat /\ DOMAIN all = 1 .. n
    BY LenProperties
  <1>2. Lookup(S, p) = IF at = {} \/ ~ all[m].live THEN Tombstone(p) ELSE all[m]
    BY DEF Lookup
  <1>3. \A i : Top(all, p, i) =>
          i \in at /\ all[i].live /\ \A j \in i + 1 .. n : j \notin at
    BY DEF Top
  <1>4. at \in SUBSET (1 .. n)
    BY <1>1
  <1> HIDE DEF all, n
  <1>5. CASE at = {}
    <2>1. \A i : ~ Top(all, p, i)
      BY <1>3, <1>5
    <2>. QED
      BY <1>1, <1>2, <1>5, <2>1, FoundTop DEF all
  <1>6. CASE at # {}
    <2> HIDE DEF at, m
    <2>1. m \in at /\ \A i \in at : i <= m
      BY <1>1, <1>4, <1>6, MaxExists DEF m
    <2>2. m \in 1 .. n /\ m \in DOMAIN all /\ all[m].path = p
      BY <1>1, <2>1 DEF at
    <2>3. \A j \in m + 1 .. n : j \in 1 .. n /\ ~ (j <= m)
      BY <1>1, <2>2
    <2>4. \A j \in m + 1 .. n : all[j].path # p
      BY <1>1, <2>1, <2>3 DEF at
    <2>5. CASE all[m].live
      <3>1. Top(all, p, m)
        BY <2>2, <2>4, <2>5 DEF Top, n
      <3>2. Found(all, p) = all[m]
        BY <1>1, <3>1, FoundTop
      <3>. QED
        BY <1>2, <1>6, <2>5, <3>2 DEF all
    <2>6. CASE ~ all[m].live
      <3>1. \A i : ~ Top(all, p, i)
        <4> SUFFICES ASSUME NEW i, Top(all, p, i) PROVE FALSE
          OBVIOUS
        <4>1. i \in at /\ all[i].live /\ \A j \in i + 1 .. n : j \notin at
          BY <1>3
        <4>2. i \in 1 .. n /\ i <= m /\ m \notin i + 1 .. n
          BY <1>4, <2>1, <4>1
        <4>3. i = m
          BY <1>1, <2>2, <4>2
        <4>. QED
          BY <2>6, <4>1, <4>3
      <3>2. Found(all, p) = Tombstone(p)
        BY <1>1, <3>1, FoundTop
      <3>. QED
        BY <1>2, <2>6, <3>2 DEF all
    <2>. QED
      BY <2>5, <2>6
  <1>. QED
    BY <1>5, <1>6

\* What comes later overrides what comes before.
LEMMA FoundConcat ==
  ASSUME NEW X, NEW s \in Seq(X), NEW t \in Seq(X), NEW p
  PROVE  Found(s \o t, p) = IF Has(t, p) THEN Found(t, p) ELSE Found(s, p)
  <1> DEFINE m == Len(s)
             n == Len(t)
             c == s \o t
  <1>1. /\ m \in Nat /\ n \in Nat /\ DOMAIN s = 1 .. m /\ DOMAIN t = 1 .. n
        /\ c \in Seq(X) /\ Len(c) = m + n /\ DOMAIN c = 1 .. (m + n)
        /\ \A k \in 1 .. (m + n) : c[k] = IF k <= m THEN s[k] ELSE t[k - m]
    BY ConcatProperties, LenProperties
  <1> HIDE DEF m, n, c
  <1>2. /\ \A k \in 1 .. m : k \in 1 .. (m + n) /\ c[k] = s[k]
        /\ \A k \in 1 .. n : m + k \in 1 .. (m + n) /\ c[m + k] = t[k]
    <2>1. \A k \in 1 .. m : k \in 1 .. (m + n) /\ k <= m
      BY <1>1
    <2>2. \A k \in 1 .. n : m + k \in 1 .. (m + n) /\ ~ (m + k <= m) /\ (m + k) - m = k
      BY <1>1
    <2>. QED
      BY <1>1, <2>1, <2>2
  <1>3. \A k \in 1 .. (m + n) : k \in 1 .. m \/ (k - m \in 1 .. n /\ m + (k - m) = k)
    BY <1>1
  <1>4. CASE Has(t, p)
    <2>1. PICK e \in 1 .. n : t[e].path = p
      BY <1>1, <1>4 DEF Has
    <2>2. ASSUME NEW i, Top(t, p, i) PROVE Found(c, p) = Found(t, p)
      <3>1. i \in 1 .. n /\ t[i].path = p /\ t[i].live
            /\ \A j \in i + 1 .. n : t[j].path # p
        BY <1>1, <2>2 DEF Top, n
      <3>2. \A j \in (m + i) + 1 .. m + n : j - m \in i + 1 .. n /\ j - m \in 1 .. n
                                            /\ m + (j - m) = j
        BY <1>1, <3>1
      <3>3. ASSUME NEW j \in (m + i) + 1 .. m + n PROVE c[j].path # p
        <4>1. j - m \in i + 1 .. n /\ j - m \in 1 .. n /\ m + (j - m) = j
          BY <3>2
        <4>2. c[m + (j - m)] = t[j - m]
          BY <1>2, <4>1
        <4>3. t[j - m].path # p
          BY <3>1, <4>1
        <4>. QED
          BY <4>1, <4>2, <4>3
      <3>4. Top(c, p, m + i) /\ c[m + i] = t[i]
        BY <1>1, <1>2, <3>1, <3>3 DEF Top
      <3>5. Found(c, p) = c[m + i]
        BY <1>1, <3>4, FoundTop
      <3>6. Found(t, p) = t[i]
        BY <2>2, FoundTop
      <3>. QED
        BY <3>4, <3>5, <3>6
    <2>3. ASSUME \A i : ~ Top(t, p, i) PROVE Found(c, p) = Found(t, p)
      <3>1. ASSUME NEW i, Top(c, p, i) PROVE FALSE
        <4>1. i \in 1 .. (m + n) /\ c[i].path = p /\ c[i].live
              /\ \A j \in i + 1 .. m + n : c[j].path # p
          BY <1>1, <3>1 DEF Top
        <4>2. CASE i \in 1 .. m
          <5>1. m + e \in i + 1 .. m + n
            BY <1>1, <2>1, <4>2
          <5>. QED
            BY <1>2, <2>1, <4>1, <5>1
        <4>3. CASE i - m \in 1 .. n /\ m + (i - m) = i
          <5>1. \A j \in (i - m) + 1 .. n : m + j \in i + 1 .. m + n /\ j \in 1 .. n
            BY <1>1, <4>1, <4>3
          <5>2. \A j \in (i - m) + 1 .. n : t[j].path # p
            BY <1>2, <4>1, <5>1
          <5>3. t[i - m] = c[i]
            BY <1>2, <4>3
          <5>4. Top(t, p, i - m)
            BY <1>1, <4>1, <4>3, <5>2, <5>3 DEF Top, n
          <5>. QED
            BY <2>3, <5>4
        <4>. QED
          BY <1>3, <4>1, <4>2, <4>3
      <3>2. Found(c, p) = Tombstone(p)
        BY <1>1, <3>1, FoundTop
      <3>3. Found(t, p) = Tombstone(p)
        BY <2>3, FoundTop
      <3>. QED
        BY <3>2, <3>3
    <2>. QED
      BY <1>4, <2>2, <2>3 DEF c
  <1>5. CASE ~ Has(t, p)
    <2>1. \A j \in 1 .. n : t[j].path # p
      BY <1>1, <1>5 DEF Has
    <2>2. ASSUME NEW i, Top(s, p, i) PROVE Found(c, p) = Found(s, p)
      <3>1. i \in 1 .. m /\ s[i].path = p /\ s[i].live
            /\ \A j \in i + 1 .. m : s[j].path # p
        BY <1>1, <2>2 DEF Top, m
      <3>2. ASSUME NEW j \in i + 1 .. m + n PROVE c[j].path # p
        <4>1. j \in 1 .. (m + n) /\ (j \in 1 .. m => j \in i + 1 .. m)
          BY <1>1, <3>1
        <4>2. CASE j \in 1 .. m
          BY <1>2, <3>1, <4>1, <4>2
        <4>3. CASE j - m \in 1 .. n /\ m + (j - m) = j
          BY <1>2, <2>1, <4>3
        <4>. QED
          BY <1>3, <4>1, <4>2, <4>3
      <3>3. Top(c, p, i) /\ c[i] = s[i]
        BY <1>1, <1>2, <3>1, <3>2 DEF Top
      <3>4. Found(c, p) = c[i]
        BY <1>1, <3>3, FoundTop
      <3>5. Found(s, p) = s[i]
        BY <2>2, FoundTop
      <3>. QED
        BY <3>3, <3>4, <3>5
    <2>3. ASSUME \A i : ~ Top(s, p, i) PROVE Found(c, p) = Found(s, p)
      <3>1. ASSUME NEW i, Top(c, p, i) PROVE FALSE
        <4>1. i \in 1 .. (m + n) /\ c[i].path = p /\ c[i].live
              /\ \A j \in i + 1 .. m + n : c[j].path # p
          BY <1>1, <3>1 DEF Top
        <4>2. i \in 1 .. m
          BY <1>2, <1>3, <2>1, <4>1
        <4>3. \A j \in i + 1 .. m : j \in i + 1 .. m + n /\ j \in 1 .. m
          BY <1>1, <4>2
        <4>4. \A j \in i + 1 .. m : s[j].path # p
          BY <1>2, <4>1, <4>3
        <4>5. Top(s, p, i)
          BY <1>1, <1>2, <4>1, <4>2, <4>4 DEF Top, m
        <4>. QED
          BY <2>3, <4>5
      <3>2. Found(c, p) = Tombstone(p)
        BY <1>1, <3>1, FoundTop
      <3>3. Found(s, p) = Tombstone(p)
        BY <2>3, FoundTop
      <3>. QED
        BY <3>2, <3>3
    <2>. QED
      BY <1>5, <2>2, <2>3 DEF c
  <1>. QED
    BY <1>4, <1>5

\* One live record for each path.
Clean(t) ==
  /\ \A k \in DOMAIN t : t[k].live
  /\ \A k, l \in DOMAIN t : t[k].path = t[l].path => k = l

LEMMA FoundClean ==
  ASSUME NEW X, NEW t \in Seq(X), Clean(t), NEW k \in DOMAIN t
  PROVE  Found(t, t[k].path) = t[k]
  <1>1. k \in 1 .. Len(t) /\ DOMAIN t = 1 .. Len(t) /\ Len(t) \in Nat
    BY LenProperties
  <1>2. \A j \in k + 1 .. Len(t) : j \in 1 .. Len(t) /\ j # k
    BY <1>1
  <1>3. Top(t, t[k].path, k)
    BY <1>1, <1>2 DEF Top, Clean
  <1>. QED
    BY <1>3, FoundTop

\* Resolving records loses nothing that a search finds, and leaves only that.
LEMMA KeptSurviving ==
  ASSUME NEW X, NEW all \in Seq(X)
  PROVE  LET t == Kept(all, Surviving(all)) IN
         /\ t \in Seq(X) /\ Clean(t)
         /\ \A p : Found(t, p) = Found(all, p)
         /\ Range(t) = {all[i] : i \in Surviving(all)}
  <1> DEFINE K == Surviving(all)
             t == Kept(all, K)
             n == Len(all)
  <1>1. n \in Nat /\ DOMAIN all = 1 .. n
    BY LenProperties
  <1>2. t \in Seq(X)
    BY KeptLists
  <1>3. PICK h : Lists(h, t, all, K, n)
    BY KeptLists
  <1>4. \A i : i \in K <=> i \in DOMAIN all /\ Top(all, all[i].path, i)
    BY DEF Surviving, Survives, Top
  <1>5. DOMAIN t = 1 .. Len(t) /\ Len(t) \in Nat
    BY <1>2, LenProperties
  <1> HIDE DEF K, t, n
  <1>6. \A k \in DOMAIN t : /\ h[k] \in K /\ h[k] \in 1 .. n /\ t[k] = all[h[k]]
                            /\ Top(all, t[k].path, h[k]) /\ t[k].live
    BY <1>3, <1>4 DEF Lists, Top
  <1>7. ASSUME NEW k \in DOMAIN t, NEW l \in DOMAIN t, t[k].path = t[l].path
        PROVE  k = l
    <2>1. h[k] = h[l]
      BY <1>6, <1>7, TopUnique
    <2>2. ~ (k < l) /\ ~ (l < k)
      <3>1. (k < l => h[k] < h[l]) /\ (l < k => h[l] < h[k]) /\ h[k] \in Int
        BY <1>3, <1>6 DEF Lists
      <3>. QED
        BY <2>1, <3>1
    <2>. QED
      BY <1>5, <2>2
  <1>8. Clean(t)
    BY <1>6, <1>7 DEF Clean
  <1>9. ASSUME NEW p PROVE Found(t, p) = Found(all, p)
    <2>1. ASSUME NEW i, Top(all, p, i) PROVE Found(t, p) = Found(all, p)
      <3>1. i \in K /\ i \in 1 .. n /\ all[i].path = p
        BY <1>1, <1>4, <2>1 DEF Top
      <3>2. PICK k \in DOMAIN t : h[k] = i
        BY <1>3, <3>1 DEF Lists
      <3>3. t[k] = all[i] /\ t[k].path = p
        BY <1>6, <3>1, <3>2
      <3>4. Found(t, p) = t[k]
        BY <1>2, <1>8, <3>3, FoundClean
      <3>5. Found(all, p) = all[i]
        BY <2>1, FoundTop
      <3>. QED
        BY <3>3, <3>4, <3>5
    <2>2. ASSUME \A i : ~ Top(all, p, i) PROVE Found(t, p) = Found(all, p)
      <3>1. \A k : ~ Top(t, p, k)
        BY <1>6, <2>2 DEF Top
      <3>2. Found(t, p) = Tombstone(p) /\ Found(all, p) = Tombstone(p)
        BY <1>2, <2>2, <3>1, FoundTop
      <3>. QED
        BY <3>2
    <2>. QED
      BY <2>1, <2>2
  <1>10. Range(t) = {all[i] : i \in K}
    <2>1. \A k \in DOMAIN t : t[k] \in {all[i] : i \in K}
      BY <1>6
    <2>2. \A i \in K : \E k \in DOMAIN t : t[k] = all[i]
      BY <1>1, <1>3, <1>4, <1>6 DEF Lists
    <2>. QED
      BY <2>1, <2>2 DEF Range
  <1>. QED
    BY <1>2, <1>8, <1>9, <1>10 DEF t, K

\* A sequence that lists a set once counts it.
LEMMA Listed ==
  ASSUME NEW T, NEW n \in Nat, NEW f \in [1 .. n -> T],
         \A k, l \in 1 .. n : f[k] = f[l] => k = l,
         \A x \in T : \E k \in 1 .. n : f[k] = x
  PROVE  IsFiniteSet(T) /\ Cardinality(T) = n
  <1>1. f \in Bijection(1 .. n, T)
    BY DEF Bijection, Injection, Surjection, IsInjective
  <1>2. ExistsBijection(1 .. n, T)
    BY <1>1 DEF ExistsBijection
  <1>. QED
    BY <1>2, FS_NatBijection, FS_CountingElements

-----------------------------------------------------------------------------
(* The records of an index. *)

Metas == Nat \X (Times \cup {0})

\* Every record is a live document or the tombstone of its path; the checksum of
\* a document is missing, or that of its content.
Records ==
  {r \in [path : Paths, live : BOOLEAN, meta : Metas,
          crc : Texts \cup {NoText}, text : Texts \cup {NoText}] :
     IF r.live THEN r.text \in Texts /\ r.crc \in {NoText, r.text}
     ELSE r = Tombstone(r.path)}

Segments == Seq(Seq(Records))

LEMMA MetadataType ==
  ASSUME NEW f \in Files
  PROVE  Metadata(f) \in Metas /\ f # NoFile /\ f.text \in Texts /\ f.text # NoText
  BY MaintenanceAssumption DEF Files, Metadata, Metas

LEMMA TombstoneType ==
  ASSUME NEW p \in Paths
  PROVE  Tombstone(p) \in Records
  BY DEF Tombstone, Records, NoMetadata, Metas

LEMMA LiveType ==
  ASSUME NEW p \in Paths, NEW m \in Metas, NEW t \in Texts, NEW c \in {NoText, t}
  PROVE  Live(p, m, c, t) \in Records
  BY DEF Live, Records

LEMMA FoundType ==
  ASSUME NEW all \in Seq(Records), NEW p \in Paths
  PROVE  /\ Found(all, p) \in Records /\ Found(all, p).path = p
         /\ ~ Found(all, p).live => Found(all, p) = Tombstone(p)
         /\ Found(all, p).live <=> \E i : Top(all, p, i)
  <1>1. ASSUME NEW i, Top(all, p, i)
        PROVE  Found(all, p) \in Records /\ Found(all, p).path = p /\ Found(all, p).live
    <2>1. Found(all, p) = all[i]
      BY <1>1, FoundTop
    <2>2. all[i] \in Records
      BY <1>1, LenProperties DEF Top
    <2>. QED
      BY <1>1, <2>1, <2>2 DEF Top
  <1>2. ASSUME \A i : ~ Top(all, p, i)
        PROVE  Found(all, p) = Tombstone(p)
    BY <1>2, FoundTop
  <1>3. /\ Tombstone(p) \in Records /\ Tombstone(p).path = p /\ ~ Tombstone(p).live
    BY TombstoneType DEF Tombstone
  <1>. QED
    BY <1>1, <1>2, <1>3

LEMMA LookupOne ==
  ASSUME NEW s \in Seq(Records), NEW p
  PROVE  Lookup(<<s>>, p) = Found(s, p)
  <1>1. FlattenSeq(<<s>>) = s
    BY FlattenOne
  <1>. QED
    BY <1>1, LookupFound

LEMMA LookupAppend ==
  ASSUME NEW S \in Segments, NEW d \in Seq(Records), NEW p
  PROVE  Lookup(Append(S, d), p) = IF Has(d, p) THEN Lookup(<<d>>, p) ELSE Lookup(S, p)
  <1> DEFINE all == FlattenSeq(S)
             w == Append(S, d)
  <1>1. all \in Seq(Records)
    BY FlattenTyped DEF Segments
  <1>2. FlattenSeq(w) = all \o d
    BY FlattenAppend DEF Segments
  <1>3. all \o d \in Seq(Records)
    BY <1>1, ConcatProperties
  <1>4. Found(all \o d, p) = IF Has(d, p) THEN Found(d, p) ELSE Found(all, p)
    BY <1>1, FoundConcat
  <1> HIDE DEF w
  <1>5. Lookup(w, p) = Found(FlattenSeq(w), p)
    BY <1>2, <1>3, LookupFound
  <1>6. Lookup(S, p) = Found(all, p)
    BY <1>1, LookupFound
  <1>7. Lookup(<<d>>, p) = Found(d, p)
    BY LookupOne
  <1>. QED
    BY <1>2, <1>4, <1>5, <1>6, <1>7 DEF w

LEMMA ResolveClean ==
  ASSUME NEW S \in Segments
  PROVE  /\ Resolve(S) \in Seq(Records) /\ Clean(Resolve(S))
         /\ \A p : Found(Resolve(S), p) = Lookup(S, p)
         /\ Range(Resolve(S)) = {FlattenSeq(S)[i] : i \in Surviving(FlattenSeq(S))}
  <1> DEFINE all == FlattenSeq(S)
             t == Kept(all, Surviving(all))
  <1>1. all \in Seq(Records)
    BY FlattenTyped DEF Segments
  <1>2. /\ t \in Seq(Records) /\ Clean(t) /\ \A p : Found(t, p) = Found(all, p)
        /\ Range(t) = {all[i] : i \in Surviving(all)}
    BY <1>1, KeptSurviving
  <1>3. \A p : Lookup(S, p) = Found(all, p)
    BY <1>1, LookupFound
  <1>. QED
    BY <1>2, <1>3 DEF Resolve

\* A clean sequence holds the records that a search finds, and no other.
LEMMA CleanRange ==
  ASSUME NEW t \in Seq(Records), Clean(t)
  PROVE  /\ \A p \in Paths : Has(t, p) <=> Found(t, p).live
         /\ \A p \in Paths : Has(t, p) => Found(t, p) \in Range(t)
         /\ \A r \in Range(t) : r \in Records /\ r.live /\ r = Found(t, r.path) /\ Has(t, r.path)
  <1>1. \A k \in DOMAIN t : t[k] \in Records /\ t[k].live /\ Found(t, t[k].path) = t[k]
    BY LenProperties, FoundClean DEF Clean
  <1>2. \A r \in Range(t) : r \in Records /\ r.live /\ r = Found(t, r.path) /\ Has(t, r.path)
    BY <1>1 DEF Range, Has
  <1>3. \A p \in Paths : Has(t, p) => Found(t, p).live /\ Found(t, p) \in Range(t)
    BY <1>1 DEF Has, Range
  <1>4. \A p \in Paths : Found(t, p).live => Has(t, p)
    BY FoundType DEF Top, Has
  <1>. QED
    BY <1>2, <1>3, <1>4

LEMMA CurrentFacts ==
  ASSUME active \in Segments
  PROVE  /\ Current \in Seq(Records) /\ Clean(Current)
         /\ \A p : Found(Current, p) = Lookup(active, p)
         /\ CurrentRecords = Range(Current) /\ CurrentRecords \subseteq Records
         /\ CurrentPaths \subseteq Paths
         /\ \A p \in Paths : p \in CurrentPaths <=> Lookup(active, p).live
         /\ \A p \in CurrentPaths : /\ CurrentRecord(p) = Lookup(active, p)
                                    /\ CurrentRecord(p) \in CurrentRecords
                                    /\ CurrentRecord(p) \in Records /\ CurrentRecord(p).live
         /\ \A p \in Paths : p \notin CurrentPaths => Lookup(active, p) = Tombstone(p)
  <1> DEFINE t == Current
  <1>1. /\ t \in Seq(Records) /\ Clean(t)
        /\ \A p : Found(t, p) = Lookup(active, p)
        /\ CurrentRecords = Range(t)
    BY ResolveClean DEF Current, CurrentRecords
  <1> HIDE DEF t
  <1>2. /\ \A p \in Paths : Has(t, p) <=> Found(t, p).live
        /\ \A p \in Paths : Has(t, p) => Found(t, p) \in Range(t)
        /\ \A r \in Range(t) : r \in Records /\ r.live /\ r = Found(t, r.path) /\ Has(t, r.path)
    BY ONLY <1>1, CleanRange
  <1>3. \A r \in Records : r.path \in Paths
    BY DEF Records
  <1>4. \A p \in Paths : Found(t, p).path = p /\ (~ Found(t, p).live => Found(t, p) = Tombstone(p))
    BY <1>1, FoundType
  <1>5. CurrentPaths \subseteq Paths
    BY <1>1, <1>2, <1>3 DEF CurrentPaths
  <1>6. ASSUME NEW p \in Paths PROVE p \in CurrentPaths <=> Found(t, p).live
    <2>1. p \in CurrentPaths => Found(t, p).live
      BY <1>1, <1>2 DEF CurrentPaths
    <2>2. Found(t, p).live => p \in CurrentPaths
      BY <1>1, <1>2, <1>4 DEF CurrentPaths
    <2>. QED
      BY <2>1, <2>2
  <1>7. ASSUME NEW p \in CurrentPaths
        PROVE  /\ CurrentRecord(p) = Found(t, p) /\ CurrentRecord(p) \in CurrentRecords
               /\ CurrentRecord(p) \in Records /\ CurrentRecord(p).live
    <2>1. PICK r \in CurrentRecords : r.path = p
      BY DEF CurrentPaths
    <2>2. CurrentRecord(p) \in CurrentRecords /\ CurrentRecord(p).path = p
      BY <2>1 DEF CurrentRecord
    <2>. QED
      BY <1>1, <1>2, <2>2
  <1>. QED
    BY <1>1, <1>2, <1>4, <1>5, <1>6, <1>7 DEF t

LEMMA TwoOfThem ==
  ASSUME NEW X, NEW a \in X, NEW b \in X
  PROVE  <<a>> \in Seq(X) /\ <<a, b>> \in Seq(X) /\ Append(<<a>>, b) = <<a, b>>
  <1> DEFINE s == <<a>>
             t == <<a, b>>
             w == Append(s, b)
  <1>1. s \in Seq(X) /\ t \in Seq(X)
    OBVIOUS
  <1>2. Len(s) = 1 /\ s[1] = a /\ Len(t) = 2 /\ t[1] = a /\ t[2] = b
    OBVIOUS
  <1> HIDE DEF s, t, w
  <1>3. /\ w \in Seq(X) /\ Len(w) = 1 + 1 /\ w[1 + 1] = b
        /\ \A i \in 1 .. 1 : w[i] = a
    <2>1. w \in Seq(X) /\ Len(w) = Len(s) + 1 /\ w[Len(s) + 1] = b
          /\ \A i \in 1 .. Len(s) : w[i] = s[i]
      BY <1>1, AppendProperties DEF w
    <2>. QED
      BY <1>2, <2>1
  <1>4. \A i \in 1 .. 2 : w[i] = t[i]
    <2>1. \A i \in 1 .. 2 : i = 1 \/ i = 2
      OBVIOUS
    <2>. QED
      BY <1>2, <1>3, <2>1
  <1>5. w = t
    BY <1>1, <1>2, <1>3, <1>4, SeqEqual
  <1>. QED
    BY <1>1, <1>5 DEF s, t, w

\* Compacting the current index with a delta shows what appending it would.
LEMMA LookupCompacted ==
  ASSUME active \in Segments, NEW d \in Seq(Records), NEW p
  PROVE  /\ <<Current, d>> \in Segments
         /\ Lookup(<<Current, d>>, p) =
              IF Has(d, p) THEN Lookup(<<d>>, p) ELSE Lookup(active, p)
  <1> DEFINE t == Current
  <1>1. t \in Seq(Records) /\ Found(t, p) = Lookup(active, p)
    BY CurrentFacts
  <1> HIDE DEF t
  <1>2. <<t>> \in Segments /\ Append(<<t>>, d) = <<t, d>> /\ <<t, d>> \in Segments
    BY <1>1, TwoOfThem DEF Segments
  <1>3. Lookup(<<t>>, p) = Found(t, p)
    BY <1>1, LookupOne
  <1>4. Lookup(Append(<<t>>, d), p) = IF Has(d, p) THEN Lookup(<<d>>, p) ELSE Lookup(<<t>>, p)
    BY <1>2, LookupAppend
  <1>. QED
    BY <1>1, <1>2, <1>3, <1>4 DEF t

-----------------------------------------------------------------------------
(* The inductive invariant. *)

Reads ==
  {r \in [step : {"stat", "read", "restat", "done", "failed"}, meta : Metas,
          text : Texts \cup {NoText}] :
     r.step \in {"restat", "done"} => r.text \in Texts}

Results ==
  [kind : {"none", "update", "remove", "compact"},
   outcome : {"none", "unchanged", "published", "failed"},
   added : Nat, modified : Nat, removed : Nat, unchanged : Nat, discarded : Int,
   compacted : BOOLEAN, degraded : BOOLEAN]

OnePerPath(records) == \A r, q \in records : r.path = q.path => r = q

Typed ==
  /\ source \in [Paths -> Files \cup {NoFile}]
  /\ seen \in [Paths -> SUBSET (Files \cup {NoFile})]
  /\ active \in Segments /\ target \in Segments /\ delta \in Seq(Records)
  /\ pc \in {"idle", "fingerprint", "parse", "publish"}
  /\ files \in Seq(Paths) /\ IsInjective(files)
  /\ scanned \subseteq Paths /\ Range(files) \subseteq scanned
  /\ probe \in Reads /\ tasks \in Seq(Reads)
  /\ plan \subseteq Records /\ OnePerPath(plan)
  /\ result \in Results

\* What an operation leaves behind when it ends, and which stages it has.
Stages ==
  /\ pc = "idle" => /\ files = <<>> /\ probe = Fresh /\ plan = {} /\ delta = <<>>
                    /\ tasks = <<>>
  /\ pc = "fingerprint" => result.kind = "update"
  /\ pc # "fingerprint" => files = <<>>
  /\ files = <<>> => probe = Fresh
  /\ pc = "parse" => result.kind \in {"update", "remove"}
  /\ pc = "publish" => result.kind \in {"update", "remove", "compact"}
  /\ pc # "publish" => ~ result.compacted

\* Documents are planned with their fingerprint; tombstones come last, and never
\* when an update rewrites the index.
Plans ==
  /\ \A r \in plan : r.live => r.crc = r.text
  /\ pc = "fingerprint" => \A r \in plan : r.live /\ r.path \in scanned \ Range(files)
  /\ Migrates => \A r \in plan : r.live

\* The delta is what was planned, in the order of the paths.
Deltas ==
  pc = "parse" \/ (pc = "publish" /\ result.kind # "compact") =>
    /\ Len(tasks) = Cardinality(plan)
    /\ Len(delta) <= Len(tasks)
    /\ \A k \in DOMAIN delta : delta[k] = Record(k)
    /\ pc = "publish" => Len(delta) = Len(tasks)

\* What the new Manifest will select.
Targets ==
  pc = "publish" =>
    \/ /\ result.kind = "compact" /\ result.compacted
       /\ target = <<Current>>
       /\ result.discarded = Discarded(PhysicalCount(active), Current)
    \/ /\ Migrates /\ result.compacted /\ target = <<delta>>
    \/ /\ result.kind # "compact" /\ ~ Migrates /\ ~ result.compacted
       /\ target = Append(active, delta)
    \/ /\ result.kind # "compact" /\ ~ Migrates /\ result.compacted
       /\ target = <<Resolve(CompactionInputs)>>
       /\ result.discarded = Discarded(PhysicalCount(active) + Len(delta),
                                       Resolve(CompactionInputs))

Publications == Typed /\ Stages /\ Plans /\ Deltas /\ Targets

Updating == result.kind = "update" /\ pc # "idle"

Planned(p) == \E r \in plan : r.path = p

\* What the update will leave of path p, as things stand, the path held.
Faithful(p) ==
  /\ \A r \in plan : r.path = p => \E f \in seen[p] : TextOf(f) = r.text
  /\ ~ Planned(p) =>
       \E f \in seen[p] : TextOf(f) = IF Migrates THEN NoText ELSE Lookup(active, p).text

\* The update will leave a document of path p.
Shown(p) ==
  IF Planned(p) THEN \E r \in plan : r.path = p /\ r.live
  ELSE ~ Migrates /\ p \in CurrentPaths

\* Path p held something else than its record says.
Differs(p) ==
  \E f \in seen[p] :
    IF f = NoFile THEN p \in CurrentPaths
    ELSE p \notin CurrentPaths \/ Lookup(active, p) # Live(p, Metadata(f), f.text, f.text)

\* What a read has taken so far, the path held at some time.
Probed ==
  /\ probe.step \in {"read", "restat", "done"} =>
       /\ files # <<>>
       /\ \E f \in seen[Head(files)] : f # NoFile /\ Metadata(f) = probe.meta
  /\ probe.step \in {"restat", "done"} =>
       /\ files # <<>>
       /\ \E f \in seen[Head(files)] : f # NoFile /\ f.text = probe.text

Done == scanned \ Range(files)

Updates ==
  Updating =>
    /\ \A p \in Paths : source[p] \in seen[p]
    /\ \A p \in Paths \ scanned : NoFile \in seen[p]
    /\ Probed
    /\ \A p \in Done : Faithful(p) /\ Shown(p)
    /\ ~ Migrates => \A r \in plan : Differs(r.path)
    /\ pc # "fingerprint" =>
         /\ \A p \in Paths \ scanned : Faithful(p) /\ ~ Shown(p)
         /\ ~ Migrates => plan # {}

\* The counts so far.
Counts ==
  /\ Updating =>
       /\ result.added = Cardinality(Done \ CurrentPaths)
       /\ result.added + result.modified + result.unchanged = Cardinality(Done)
       /\ pc # "fingerprint" => result.removed = Cardinality(Gone)
  /\ result.kind = "remove" /\ pc # "idle" =>
       /\ \A r \in plan : ~ r.live /\ r.path \in CurrentPaths
       /\ result.added = 0 /\ result.removed = Cardinality({r.path : r \in plan})

-----------------------------------------------------------------------------
(* Paths in their order, and sorted plans. *)

LEMMA OrderFacts ==
  ASSUME NEW order \in {PathOrder, ScanOrder}
  PROVE  /\ order \in Seq(Paths) /\ Len(order) \in Nat
         /\ DOMAIN order = 1 .. Len(order)
         /\ \A i, j \in DOMAIN order : order[i] = order[j] => i = j
         /\ \A p \in Paths : \E i \in DOMAIN order : order[i] = p
  <1>1. order \in Seq(Paths) /\ Range(order) = Paths
    BY MaintenanceAssumption DEF Paths
  <1>2. Len(order) \in Nat /\ DOMAIN order = 1 .. Len(order)
    BY <1>1, LenProperties
  <1>3. \A i, j \in DOMAIN order : order[i] = order[j] => i = j
    BY MaintenanceAssumption DEF IsInjective
  <1>4. \A p \in Paths : \E i \in DOMAIN order : order[i] = p
    BY <1>1 DEF Range
  <1>. QED
    BY <1>1, <1>2, <1>3, <1>4

LEMMA PathsFinite == IsFiniteSet(Paths)
  <1> DEFINE n == Len(PathOrder)
  <1>1. /\ PathOrder \in Seq(Paths) /\ n \in Nat /\ DOMAIN PathOrder = 1 .. n
        /\ \A i, j \in 1 .. n : PathOrder[i] = PathOrder[j] => i = j
        /\ \A p \in Paths : \E i \in 1 .. n : PathOrder[i] = p
    BY OrderFacts
  <1>2. PathOrder \in [1 .. n -> Paths]
    BY <1>1, LenProperties
  <1> HIDE DEF n
  <1>. QED
    BY <1>1, <1>2, Listed

LEMMA InOrderFacts ==
  ASSUME NEW order \in {PathOrder, ScanOrder}, NEW paths
  PROVE  LET t == InOrder(order, paths) IN
         /\ t \in Seq(Paths)
         /\ \A k, l \in DOMAIN t : t[k] = t[l] => k = l
         /\ \A k \in DOMAIN t : t[k] \in paths
         /\ \A p \in paths \cap Paths : \E k \in DOMAIN t : t[k] = p
  <1> DEFINE s == order
             K == {i \in DOMAIN s : s[i] \in paths}
             t == Kept(s, K)
             n == Len(s)
  <1>1. /\ s \in Seq(Paths) /\ n \in Nat /\ DOMAIN s = 1 .. n
        /\ \A i, j \in DOMAIN s : s[i] = s[j] => i = j
        /\ \A p \in Paths : \E i \in DOMAIN s : s[i] = p
    BY OrderFacts
  <1>2. InOrder(order, paths) = t
    BY DEF InOrder
  <1>3. /\ \A i \in K : i \in DOMAIN s /\ s[i] \in paths
        /\ \A i \in DOMAIN s : s[i] \in paths => i \in K
    OBVIOUS
  <1> HIDE DEF s, K, t, n
  <1>4. t \in Seq(Paths)
    BY <1>1, KeptLists DEF t
  <1>5. PICK h : Lists(h, t, s, K, n)
    BY <1>1, KeptLists DEF t, n
  <1>6. DOMAIN t = 1 .. Len(t) /\ Len(t) \in Nat
    BY <1>4, LenProperties
  <1>7. \A k \in DOMAIN t : h[k] \in K /\ h[k] \in Int /\ h[k] \in DOMAIN s /\ t[k] = s[h[k]]
    BY <1>1, <1>5 DEF Lists
  <1>8. ASSUME NEW k \in DOMAIN t, NEW l \in DOMAIN t, t[k] = t[l] PROVE k = l
    <2>1. h[k] = h[l]
      BY <1>1, <1>7, <1>8
    <2>2. (k < l => h[k] < h[l]) /\ (l < k => h[l] < h[k])
      BY <1>5 DEF Lists
    <2>3. ~ (k < l) /\ ~ (l < k)
      BY <1>7, <2>1, <2>2
    <2>. QED
      BY <1>6, <2>3
  <1>9. \A k \in DOMAIN t : t[k] \in paths
    BY <1>3, <1>7
  <1>10. ASSUME NEW p \in paths \cap Paths PROVE \E k \in DOMAIN t : t[k] = p
    <2>1. PICK i \in DOMAIN s : s[i] = p
      BY <1>1
    <2>2. i \in K /\ i \in 1 .. n
      BY <1>1, <1>3, <2>1
    <2>3. PICK k \in DOMAIN t : h[k] = i
      BY <1>5, <2>2 DEF Lists
    <2>. QED
      BY <1>7, <2>1, <2>3
  <1>. QED
    BY <1>2, <1>4, <1>8, <1>9, <1>10

\* Arranged lists its records once each.
LEMMA ArrangedFacts ==
  ASSUME NEW order \in {PathOrder, ScanOrder},
         NEW records \in SUBSET Records, OnePerPath(records)
  PROVE  LET s == Arranged(order, records) IN
         /\ s \in Seq(Records) /\ Len(s) \in Nat /\ DOMAIN s = 1 .. Len(s)
         /\ \A k \in DOMAIN s : s[k] \in records
         /\ \A k, l \in DOMAIN s : s[k].path = s[l].path => k = l
         /\ \A r \in records : \E k \in DOMAIN s : s[k] = r
         /\ IsFiniteSet(records) /\ Len(s) = Cardinality(records)
  <1> DEFINE paths == {r.path : r \in records}
             o == InOrder(order, paths)
             s == Arranged(order, records)
             n == Len(o)
  <1>1. /\ o \in Seq(Paths) /\ \A k, l \in DOMAIN o : o[k] = o[l] => k = l
        /\ \A k \in DOMAIN o : o[k] \in paths
        /\ \A p \in paths \cap Paths : \E k \in DOMAIN o : o[k] = p
    BY InOrderFacts
  <1>2. \A r \in records : r.path \in paths \cap Paths
    BY DEF Records
  <1>3. \A p \in paths : \E r \in records : r.path = p
    OBVIOUS
  <1>4. s = [i \in DOMAIN o |-> CHOOSE r \in records : r.path = o[i]]
    BY DEF Arranged
  <1> HIDE DEF paths, o, s
  <1>5. n \in Nat /\ DOMAIN o = 1 .. n
    BY <1>1, LenProperties
  <1>6. \A k \in 1 .. n : s[k] \in records /\ s[k].path = o[k]
    BY <1>1, <1>3, <1>4, <1>5
  <1> HIDE DEF n
  <1>7. s \in [1 .. n -> records]
    BY <1>4, <1>5, <1>6
  <1>8. s \in [1 .. n -> Records]
    BY <1>7
  <1>9. s \in Seq(Records) /\ Len(s) = n /\ DOMAIN s = 1 .. n
    BY <1>5, <1>8, SeqDef, LenProperties
  <1>10. \A k, l \in 1 .. n : s[k].path = s[l].path => k = l
    BY <1>1, <1>5, <1>6
  <1>11. ASSUME NEW r \in records PROVE \E k \in 1 .. n : s[k] = r
    <2>1. PICK k \in 1 .. n : o[k] = r.path
      BY <1>1, <1>2, <1>5
    <2>2. s[k] = r
      BY <1>6, <2>1 DEF OnePerPath
    <2>. QED
      BY <2>2
  <1>12. IsFiniteSet(records) /\ Cardinality(records) = n
    <2>1. \A k, l \in 1 .. n : s[k] = s[l] => k = l
      BY <1>10
    <2>. QED
      BY <1>5, <1>7, <1>11, <2>1, Listed
  <1>. QED
    BY <1>5, <1>6, <1>9, <1>10, <1>11, <1>12 DEF s

\* So does a sorted plan.
LEMMA SortedFacts ==
  ASSUME NEW records \in SUBSET Records, OnePerPath(records)
  PROVE  LET s == Sorted(records) IN
         /\ s \in Seq(Records) /\ Len(s) \in Nat /\ DOMAIN s = 1 .. Len(s)
         /\ \A k \in DOMAIN s : s[k] \in records
         /\ \A k, l \in DOMAIN s : s[k].path = s[l].path => k = l
         /\ \A r \in records : \E k \in DOMAIN s : s[k] = r
         /\ IsFiniteSet(records) /\ Len(s) = Cardinality(records)
  BY ArrangedFacts DEF Sorted

LEMMA SampleType ==
  ASSUME NEW f \in Files \cup {NoFile}, NEW r \in Reads, Reading(r)
  PROVE  Sample(f, r) \in Reads
  <1>1. r.meta \in Metas /\ r.text \in Texts \cup {NoText}
        /\ (r.step \in {"restat", "done"} => r.text \in Texts)
        /\ r \in [step : {"stat", "read", "restat", "done", "failed"}, meta : Metas,
                  text : Texts \cup {NoText}]
    BY DEF Reads
  <1>2. CASE f = NoFile
    <2>1. Sample(f, r) = [r EXCEPT !.step = "failed"]
      BY <1>2 DEF Sample
    <2>. QED
      BY <1>1, <2>1 DEF Reads
  <1>3. CASE f # NoFile
    <2>1. Metadata(f) \in Metas /\ f.text \in Texts
      BY <1>3, MetadataType
    <2>2. CASE r.step = "stat"
      <3>1. Sample(f, r) = [r EXCEPT !.step = "read", !.meta = Metadata(f)]
        BY <1>3, <2>2 DEF Sample
      <3>. QED
        BY <1>1, <2>1, <3>1 DEF Reads
    <2>3. CASE r.step = "read"
      <3>1. Sample(f, r) = [r EXCEPT !.step = "restat", !.text = f.text]
        BY <1>3, <2>3 DEF Sample
      <3>. QED
        BY <1>1, <2>1, <3>1 DEF Reads
    <2>4. CASE r.step = "restat"
      <3>1. Sample(f, r) = [r EXCEPT !.step = IF Stable(f, r) THEN "done" ELSE "failed"]
        BY <1>3, <2>4 DEF Sample
      <3>. QED
        BY <1>1, <2>4, <3>1 DEF Reads
    <2>. QED
      BY <2>2, <2>3, <2>4 DEF Reading
  <1>. QED
    BY <1>2, <1>3

LEMMA FreshType == Fresh \in Reads /\ Fresh.step = "stat"
  BY DEF Fresh, Reads, NoMetadata, Metas

LEMMA Unchanged ==
  ASSUME active' = active
  PROVE  /\ Current' = Current /\ CurrentRecords' = CurrentRecords
         /\ CurrentPaths' = CurrentPaths
         /\ result'.kind = result.kind => Migrates' = Migrates
  <1>1. Current' = Current /\ CurrentRecords' = CurrentRecords
    BY DEF Current, CurrentRecords
  <1>. QED
    BY <1>1 DEF CurrentPaths, Migrates

-----------------------------------------------------------------------------
(* Every step keeps Publications. *)

LEMMA TailFacts ==
  ASSUME NEW X, NEW s \in Seq(X), s # <<>>, IsInjective(s)
  PROVE  /\ Head(s) \in X /\ Tail(s) \in Seq(X) /\ IsInjective(Tail(s))
         /\ Range(s) = {Head(s)} \cup Range(Tail(s))
         /\ Head(s) \notin Range(Tail(s))
  <1> DEFINE t == Tail(s)
             n == Len(s)
  <1>1. /\ n \in Nat /\ n # 0 /\ DOMAIN s = 1 .. n
        /\ s[1] = Head(s) /\ Head(s) \in X
        /\ t \in Seq(X) /\ Len(t) = n - 1 /\ \A k \in 1 .. Len(t) : t[k] = s[k + 1]
    BY EmptySeq, LenProperties, HeadTailProperties
  <1>2. DOMAIN t = 1 .. (n - 1)
    BY <1>1, LenProperties
  <1> HIDE DEF t, n
  <1>3. /\ 1 \in 1 .. n
        /\ \A k \in 1 .. (n - 1) : k + 1 \in 1 .. n /\ k + 1 # 1 /\ (k + 1) - 1 = k
        /\ \A k \in 1 .. n : k = 1 \/ (k - 1 \in 1 .. (n - 1) /\ (k - 1) + 1 = k)
    BY <1>1
  <1>4. \A k, l \in 1 .. n : s[k] = s[l] => k = l
    BY <1>1 DEF IsInjective
  <1>5. \A k \in 1 .. (n - 1) : t[k] = s[k + 1]
    BY <1>1
  <1>6. IsInjective(t)
    <2> SUFFICES ASSUME NEW k \in 1 .. (n - 1), NEW l \in 1 .. (n - 1), t[k] = t[l]
                 PROVE  k = l
      BY <1>2 DEF IsInjective
    <2>1. k + 1 = l + 1
      BY <1>3, <1>4, <1>5
    <2>. QED
      BY <1>3, <2>1
  <1>7. Range(s) = {s[1]} \cup Range(t)
    <2>1. \A k \in 1 .. n : s[k] \in {s[1]} \cup Range(t)
      BY <1>2, <1>3, <1>5 DEF Range
    <2>2. ASSUME NEW k \in 1 .. (n - 1) PROVE t[k] \in Range(s)
      <3>1. t[k] = s[k + 1] /\ k + 1 \in DOMAIN s
        BY <1>1, <1>3, <1>5
      <3>. QED
        BY <3>1 DEF Range
    <2>3. s[1] \in Range(s)
      BY <1>1, <1>3 DEF Range
    <2>4. Range(s) \subseteq {s[1]} \cup Range(t)
      BY <1>1, <2>1 DEF Range
    <2>5. Range(t) \subseteq Range(s)
      BY <1>2, <2>2 DEF Range
    <2>. QED
      BY <2>3, <2>4, <2>5
  <1>8. s[1] \notin Range(t)
    BY <1>2, <1>3, <1>4, <1>5 DEF Range
  <1>. QED
    BY <1>1, <1>6, <1>7, <1>8 DEF t

LEMMA NothingListed ==
  /\ <<>> \in Seq(Paths) /\ IsInjective(<<>>) /\ Range(<<>>) = {}
  /\ <<>> \in Seq(Records) /\ <<>> \in Segments /\ <<>> \in Seq(Reads)
  /\ Len(<<>>) = 0 /\ DOMAIN <<>> = {}
  BY DEF IsInjective, Range, Segments

LEMMA ResultTypes ==
  ASSUME NEW k \in {"none", "update", "remove", "compact"},
         NEW o \in {"none", "unchanged", "published", "failed"}
  PROVE  /\ [NoResult EXCEPT !.kind = k, !.outcome = o] \in Results
         /\ [NoResult EXCEPT !.kind = k] \in Results
  <1>1. NoResult \in Results
    BY DEF NoResult, Results
  <1>2. [NoResult EXCEPT !.kind = k] \in Results
    BY <1>1 DEF Results
  <1>3. [NoResult EXCEPT !.kind = k, !.outcome = o] \in Results
    BY <1>1 DEF Results
  <1>. QED
    BY <1>2, <1>3

LEMMA EndsStep ==
  ASSUME Publications, NEW o \in {"unchanged", "published", "failed"}, Ends(o),
         active' \in Segments, source' = source
  PROVE  Publications'
  <1>1. Typed'
    <2>1. result' \in Results
      <3>1. result.kind \in {"none", "update", "remove", "compact"}
        BY DEF Publications, Typed, Results
      <3>. QED
        BY <3>1, ResultTypes DEF Ends
    <2>2. seen' \in [Paths -> SUBSET (Files \cup {NoFile})]
      BY DEF Ends
    <2>3. /\ files' \in Seq(Paths) /\ IsInjective(files') /\ Range(files') = {}
          /\ delta' \in Seq(Records) /\ target' \in Segments /\ tasks' \in Seq(Reads)
      BY NothingListed DEF Ends
    <2>4. /\ probe' \in Reads /\ plan' = {} /\ scanned' = {} /\ pc' = "idle"
      BY FreshType DEF Ends
    <2>. QED
      BY <2>1, <2>2, <2>3, <2>4 DEF Publications, Typed, OnePerPath
  <1>2. Stages'
    BY DEF Ends, Stages, NoResult
  <1>3. Plans' /\ Deltas' /\ Targets'
    BY DEF Ends, Plans, Deltas, Targets
  <1>. QED
    BY <1>1, <1>2, <1>3 DEF Publications

LEMMA ThrowsStep ==
  ASSUME Publications, Throws
  PROVE  Publications'
  BY EndsStep DEF Throws, Publications, Typed

LEMMA PublishStep ==
  ASSUME Publications, Publish
  PROVE  Publications'
  BY EndsStep DEF Publish, Publications, Typed

LEMMA BuildsStep ==
  ASSUME NEW records \in SUBSET Records, OnePerPath(records), Builds(records)
  PROVE  /\ plan' \subseteq Records /\ OnePerPath(plan)'
         /\ tasks' \in Seq(Reads) /\ delta' = <<>> /\ delta' \in Seq(Records)
         /\ Len(tasks') = Cardinality(plan') /\ Len(delta') = 0 /\ 0 <= Len(tasks')
         /\ DOMAIN delta' = {}
  <1> DEFINE n == Cardinality(records)
             t == [i \in 1 .. n |-> Fresh]
  <1>1. n \in Nat
    BY SortedFacts
  <1>2. tasks' = t /\ plan' = records /\ delta' = <<>>
    BY DEF Builds
  <1> HIDE DEF n
  <1>3. t \in Seq(Reads) /\ Len(t) = n
    BY <1>1, FreshType, SeqDef, LenProperties
  <1>. QED
    BY <1>1, <1>2, <1>3, NothingListed DEF n, OnePerPath

LEMMA GoneFinite ==
  ASSUME active \in Segments, NEW S \in SUBSET CurrentPaths
  PROVE  IsFiniteSet(S) /\ Cardinality(S) \in Nat /\ S \subseteq Paths
  BY CurrentFacts, PathsFinite, FS_Subset, FS_CardinalityType

LEMMA BeginUpdateStep ==
  ASSUME Publications, BeginUpdate
  PROVE  Publications'
  <1> DEFINE paths == {p \in Paths : source[p] # NoFile}
  <1>1. /\ files' = InOrder(ScanOrder, paths) /\ scanned' = Range(files')
        /\ pc' = "fingerprint" /\ result' = [NoResult EXCEPT !.kind = "update"]
        /\ seen' = [p \in Paths |-> {source[p]}]
        /\ source' = source /\ active' = active
        /\ probe' = probe /\ plan' = plan /\ tasks' = tasks /\ delta' = delta
        /\ target' = target
    BY DEF BeginUpdate, Starts
  <1>2. plan = {} /\ probe = Fresh
    BY DEF BeginUpdate, Starts, Publications, Stages
  <1>3. files' \in Seq(Paths) /\ IsInjective(files')
    <2> HIDE DEF paths
    <2>. QED
      BY <1>1, InOrderFacts DEF IsInjective
  <1>4. Range(files') \subseteq Paths
    BY <1>3, LenProperties DEF Range
  <1>5. result' \in Results
    BY <1>1, ResultTypes
  <1>6. seen' \in [Paths -> SUBSET (Files \cup {NoFile})]
    BY <1>1 DEF Publications, Typed
  <1>7. Typed'
    BY <1>1, <1>3, <1>4, <1>5, <1>6 DEF Publications, Typed
  <1>8. Stages'
    BY <1>1, <1>2 DEF Stages, NoResult
  <1>9. Plans'
    BY <1>1, <1>2 DEF Plans
  <1>10. Deltas' /\ Targets'
    BY <1>1 DEF Deltas, Targets
  <1>. QED
    BY <1>7, <1>8, <1>9, <1>10 DEF Publications

LEMMA PhysicalType ==
  ASSUME NEW S \in Segments
  PROVE  PhysicalCount(S) \in Nat
  BY FlattenTyped, LenProperties DEF Segments, PhysicalCount

LEMMA BeginCompactStep ==
  ASSUME Publications, BeginCompact
  PROVE  Publications'
  <1> DEFINE discarded == Discarded(PhysicalCount(active), Current)
  <1>1. /\ source' = source /\ active' = active /\ files' = files /\ scanned' = scanned
        /\ probe' = probe /\ plan' = plan /\ tasks' = tasks /\ delta' = delta
        /\ seen' = seen /\ pc = "idle"
    BY DEF BeginCompact, Starts
  <1>2. Current \in Seq(Records)
    BY CurrentFacts DEF Publications, Typed
  <1>3. discarded \in Int
    BY <1>2, PhysicalType, LenProperties DEF Discarded, Publications, Typed
  <1> HIDE DEF discarded
  <1>4. CASE pc' = pc /\ target' = target
             /\ result' = [NoResult EXCEPT !.kind = "compact", !.outcome = "unchanged"]
    <2>1. Typed'
      BY <1>1, <1>4, ResultTypes DEF Publications, Typed, OnePerPath
    <2>2. Stages'
      BY <1>1, <1>4 DEF Publications, Stages, NoResult
    <2>3. plan = {}
      BY <1>1 DEF Publications, Stages
    <2>4. Plans' /\ Deltas' /\ Targets'
      BY <1>1, <1>4, <2>3 DEF Plans, Deltas, Targets
    <2>. QED
      BY <2>1, <2>2, <2>4 DEF Publications
  <1>5. CASE pc' = "publish" /\ target' = <<Current>>
             /\ result' = [NoResult EXCEPT !.kind = "compact", !.compacted = TRUE,
                                           !.discarded = discarded]
    <2>1. target' \in Segments
      BY <1>2, <1>5 DEF Segments
    <2>2. result' \in Results /\ result'.kind = "compact" /\ result'.compacted
          /\ result'.discarded = discarded
      BY <1>3, <1>5 DEF NoResult, Results
    <2>3. Typed'
      BY <1>1, <1>5, <2>1, <2>2 DEF Publications, Typed, OnePerPath
    <2>4. Stages' /\ plan = {}
      BY <1>1, <1>5, <2>2 DEF Publications, Stages
    <2>5. Plans' /\ Deltas'
      BY <1>1, <1>5, <2>2, <2>4 DEF Plans, Deltas
    <2>6. Current' = Current
      BY <1>1, Unchanged
    <2>7. Targets'
      BY <1>1, <1>5, <2>2, <2>6 DEF Targets, discarded, Discarded, PhysicalCount
    <2>. QED
      BY <2>3, <2>4, <2>5, <2>7 DEF Publications
  <1>. QED
    BY <1>4, <1>5 DEF BeginCompact, Publishing, discarded

LEMMA CountTypes ==
  ASSUME NEW r \in Results
  PROVE  /\ [r EXCEPT !.added = @ + 1] \in Results
         /\ [r EXCEPT !.modified = @ + 1] \in Results
         /\ [r EXCEPT !.unchanged = @ + 1] \in Results
         /\ [r EXCEPT !.compacted = TRUE] \in Results
         /\ [r EXCEPT !.degraded = TRUE] \in Results
         /\ r.added \in Nat /\ r.modified \in Nat /\ r.unchanged \in Nat /\ r.removed \in Nat
  <1>1. r.added + 1 \in Nat /\ r.modified + 1 \in Nat /\ r.unchanged + 1 \in Nat
    BY DEF Results
  <1>2. [r EXCEPT !.added = @ + 1] \in Results
    BY <1>1 DEF Results
  <1>3. [r EXCEPT !.modified = @ + 1] \in Results
    BY <1>1 DEF Results
  <1>4. [r EXCEPT !.unchanged = @ + 1] \in Results
    BY <1>1 DEF Results
  <1>5. [r EXCEPT !.compacted = TRUE] \in Results
    BY DEF Results
  <1>6. [r EXCEPT !.degraded = TRUE] \in Results
    BY DEF Results
  <1>7. r.added \in Nat /\ r.modified \in Nat /\ r.unchanged \in Nat /\ r.removed \in Nat
    BY DEF Results
  <1>. QED
    BY <1>2, <1>3, <1>4, <1>5, <1>6, <1>7

LEMMA NumberTypes ==
  ASSUME NEW r \in Results, NEW n \in Int
  PROVE  /\ n \in Nat => [r EXCEPT !.removed = n] \in Results
         /\ [r EXCEPT !.compacted = TRUE, !.discarded = n] \in Results
         /\ [r EXCEPT !.degraded = TRUE, !.discarded = n] \in Results
  <1>1. ASSUME n \in Nat PROVE [r EXCEPT !.removed = n] \in Results
    BY <1>1 DEF Results
  <1>2. [r EXCEPT !.compacted = TRUE, !.discarded = n] \in Results
    BY DEF Results
  <1>3. [r EXCEPT !.degraded = TRUE, !.discarded = n] \in Results
    BY DEF Results
  <1>. QED
    BY <1>1, <1>2, <1>3

LEMMA TombstonesOf ==
  ASSUME NEW S \in SUBSET Paths
  PROVE  /\ {Tombstone(p) : p \in S} \in SUBSET Records
         /\ OnePerPath({Tombstone(p) : p \in S})
         /\ \A r \in {Tombstone(p) : p \in S} :
              ~ r.live /\ r.path \in S /\ r = Tombstone(r.path) /\ r.text = NoText
         /\ \A p \in S : Tombstone(p).path = p
         /\ {r.path : r \in {Tombstone(p) : p \in S}} = S
  <1>1. \A p \in S : /\ Tombstone(p) \in Records /\ Tombstone(p).path = p
                     /\ ~ Tombstone(p).live /\ Tombstone(p).text = NoText
    BY TombstoneType DEF Tombstone
  <1>. QED
    BY <1>1 DEF OnePerPath

LEMMA BeginRemoveStep ==
  ASSUME Publications, NEW matches \in SUBSET Paths, BeginRemove(matches)
  PROVE  Publications'
  <1> DEFINE gone == matches \cap CurrentPaths
             records == {Tombstone(p) : p \in gone}
  <1>1. /\ source' = source /\ active' = active /\ files' = files /\ scanned' = scanned
        /\ probe' = probe /\ target' = target /\ seen' = seen /\ pc = "idle"
    BY DEF BeginRemove, Starts
  <1>2. plan = {} /\ files = <<>> /\ probe = Fresh
    BY <1>1 DEF Publications, Stages
  <1>3. CASE gone # {}
    <2>1. Builds(records)
          /\ result' = [NoResult EXCEPT !.kind = "remove", !.removed = Cardinality(gone)]
      BY <1>3 DEF BeginRemove
    <2>2. Cardinality(gone) \in Nat /\ gone \in SUBSET Paths
      BY GoneFinite DEF Publications, Typed
    <2>3. result' \in Results /\ result'.kind = "remove" /\ ~ result'.compacted
      <3>1. NoResult \in Results
        BY DEF NoResult, Results
      <3>2. result' \in Results
        BY <2>1, <2>2, <3>1 DEF Results
      <3>3. result'.kind = "remove" /\ ~ result'.compacted
        BY <2>1 DEF NoResult
      <3>. QED
        BY <3>2, <3>3
    <2> HIDE DEF gone
    <2>4. records \in SUBSET Records /\ OnePerPath(records) /\ \A r \in records : ~ r.live
      BY <2>2, TombstonesOf
    <2>5. pc' = "parse" /\ plan' = records
      BY <2>1 DEF Builds
    <2> HIDE DEF records
    <2>6. /\ plan' \subseteq Records /\ OnePerPath(plan)'
          /\ tasks' \in Seq(Reads) /\ delta' = <<>> /\ delta' \in Seq(Records)
          /\ Len(tasks') = Cardinality(plan') /\ Len(delta') = 0 /\ 0 <= Len(tasks')
          /\ DOMAIN delta' = {}
      BY <2>1, <2>4, BuildsStep
    <2>7. Typed'
      BY <1>1, <2>3, <2>5, <2>6 DEF Publications, Typed
    <2>8. Stages'
      BY <1>1, <1>2, <2>3, <2>5 DEF Stages
    <2>9. Plans'
      BY <2>3, <2>4, <2>5 DEF Plans, Migrates
    <2>10. Deltas' /\ Targets'
      BY <2>5, <2>6 DEF Deltas, Targets
    <2>. QED
      BY <2>7, <2>8, <2>9, <2>10 DEF Publications
  <1>4. CASE gone = {}
    <2>1. /\ pc' = pc /\ plan' = plan /\ tasks' = tasks /\ delta' = delta
          /\ result' = [NoResult EXCEPT !.kind = "remove", !.outcome = "unchanged"]
      BY <1>4 DEF BeginRemove
    <2>2. Typed'
      BY <1>1, <2>1, ResultTypes DEF Publications, Typed, OnePerPath
    <2>3. Stages'
      BY <1>1, <2>1 DEF Publications, Stages, NoResult
    <2>4. Plans' /\ Deltas' /\ Targets'
      BY <1>1, <1>2, <2>1 DEF Plans, Deltas, Targets
    <2>. QED
      BY <2>2, <2>3, <2>4 DEF Publications
  <1>. QED
    BY <1>3, <1>4

LEMMA FingerprintStep ==
  ASSUME Publications, Fingerprint
  PROVE  Publications'
  <1>1. /\ pc = "fingerprint" /\ files # <<>> /\ Reading(probe)
        /\ probe' = Sample(source[Head(files)], probe)
        /\ source' = source /\ active' = active /\ pc' = pc /\ files' = files
        /\ scanned' = scanned /\ plan' = plan /\ tasks' = tasks /\ delta' = delta
        /\ target' = target /\ result' = result /\ seen' = seen
    BY DEF Fingerprint
  <1>2. Head(files) \in Paths
    BY <1>1, TailFacts DEF Publications, Typed
  <1>3. probe' \in Reads
    BY <1>1, <1>2, SampleType DEF Publications, Typed
  <1>4. Typed'
    BY <1>1, <1>3 DEF Publications, Typed, OnePerPath
  <1>5. Stages'
    BY <1>1 DEF Publications, Stages
  <1>6. Migrates' = Migrates
    BY <1>1, Unchanged
  <1>7. Plans'
    BY <1>1, <1>6 DEF Publications, Plans
  <1>8. Deltas' /\ Targets'
    BY <1>1 DEF Deltas, Targets
  <1>. QED
    BY <1>4, <1>5, <1>7, <1>8 DEF Publications

\* The record that Classify may plan.
Candidate == Live(Head(files), probe.meta, probe.text, probe.text)

LEMMA ClassifyFacts ==
  ASSUME Publications, Classify
  PROVE  /\ pc = "fingerprint" /\ files # <<>> /\ probe.step = "done"
         /\ Head(files) \in Paths /\ Head(files) \in scanned
         /\ Head(files) \notin Range(files') /\ Head(files) \notin {r.path : r \in plan}
         /\ Range(files) = {Head(files)} \cup Range(files')
         /\ files' \in Seq(Paths) /\ IsInjective(files')
         /\ Candidate \in Records /\ Candidate.path = Head(files) /\ Candidate.live
         /\ Candidate.crc = Candidate.text /\ Candidate.text = probe.text
         /\ probe' = Fresh /\ plan' \in {plan, plan \cup {Candidate}}
         /\ result' \in {[result EXCEPT !.added = @ + 1], [result EXCEPT !.modified = @ + 1],
                         [result EXCEPT !.unchanged = @ + 1]}
         /\ source' = source /\ active' = active /\ pc' = pc /\ scanned' = scanned
         /\ tasks' = tasks /\ delta' = delta /\ target' = target /\ seen' = seen
         /\ result'.kind = result.kind /\ result'.compacted = result.compacted
         /\ result' \in Results /\ Migrates' = Migrates
  <1>1. /\ pc = "fingerprint" /\ files # <<>> /\ probe.step = "done"
        /\ files' = Tail(files) /\ probe' = Fresh
        /\ source' = source /\ active' = active /\ pc' = pc /\ scanned' = scanned
        /\ tasks' = tasks /\ delta' = delta /\ target' = target /\ seen' = seen
    BY DEF Classify
  <1>2. /\ Head(files) \in Paths /\ files' \in Seq(Paths) /\ IsInjective(files')
        /\ Range(files) = {Head(files)} \cup Range(files')
        /\ Head(files) \notin Range(files')
    BY <1>1, TailFacts DEF Publications, Typed
  <1>3. Head(files) \in scanned /\ Head(files) \notin {r.path : r \in plan}
    BY <1>1, <1>2 DEF Publications, Typed, Plans
  <1>4. probe.meta \in Metas /\ probe.text \in Texts
    BY <1>1 DEF Publications, Typed, Reads
  <1>5. Candidate \in Records
    BY <1>2, <1>4, LiveType DEF Candidate
  <1>6. /\ Candidate.path = Head(files) /\ Candidate.live
        /\ Candidate.crc = Candidate.text /\ Candidate.text = probe.text
    BY DEF Candidate, Live
  <1>7. /\ plan' \in {plan, plan \cup {Candidate}}
        /\ result' \in {[result EXCEPT !.added = @ + 1], [result EXCEPT !.modified = @ + 1],
                        [result EXCEPT !.unchanged = @ + 1]}
    BY DEF Classify, Candidate
  <1>8. result' \in Results
    <2>1. result \in Results
      BY DEF Publications, Typed
    <2>2. /\ [result EXCEPT !.added = @ + 1] \in Results
          /\ [result EXCEPT !.modified = @ + 1] \in Results
          /\ [result EXCEPT !.unchanged = @ + 1] \in Results
      BY ONLY <2>1, CountTypes
    <2>. QED
      BY <1>7, <2>2
  <1>9. result'.kind = result.kind /\ result'.compacted = result.compacted
    BY <1>7 DEF Publications, Typed, Results
  <1>10. Migrates' = Migrates
    BY <1>1, <1>9, Unchanged
  <1>. QED
    BY <1>1, <1>2, <1>3, <1>5, <1>6, <1>7, <1>8, <1>9, <1>10

LEMMA ClassifyStep ==
  ASSUME Publications, Classify
  PROVE  Publications'
  <1> USE ClassifyFacts
  <1>1. plan' \subseteq Records /\ OnePerPath(plan)'
    <2>1. plan \subseteq Records /\ OnePerPath(plan)
      BY DEF Publications, Typed
    <2>2. CASE plan' = plan
      BY <2>1, <2>2 DEF OnePerPath
    <2>3. CASE plan' = plan \cup {Candidate}
      <3>1. \A r \in plan : r.path # Candidate.path
        OBVIOUS
      <3>. QED
        BY <2>1, <2>3, <3>1 DEF OnePerPath
    <2>. QED
      BY <2>2, <2>3
  <1>2. Typed'
    BY <1>1, FreshType DEF Publications, Typed
  <1>3. Stages'
    BY DEF Publications, Stages
  <1>4. Plans'
    <2>1. \A r \in plan' : r.live /\ r.crc = r.text
      BY DEF Publications, Plans
    <2>2. \A r \in plan' : r.path \in scanned \ Range(files')
      BY DEF Publications, Plans
    <2>. QED
      BY <2>1, <2>2 DEF Plans
  <1>5. Deltas' /\ Targets'
    BY DEF Deltas, Targets
  <1>. QED
    BY <1>2, <1>3, <1>4, <1>5 DEF Publications

\* The tombstones with which an update removes documents.
Tombstones == IF Migrates THEN {} ELSE {Tombstone(p) : p \in Gone}

LEMMA RemovalFacts ==
  ASSUME Publications, PlanRemovals
  PROVE  /\ pc = "fingerprint" /\ files = <<>> /\ Range(files) = {} /\ Gone \in SUBSET Paths
         /\ Tombstones \in SUBSET Records
         /\ \A r \in Tombstones : /\ ~ r.live /\ r.path \in Gone /\ r.path \in Paths
                                  /\ r.path \notin scanned /\ r.text = NoText
         /\ ~ Migrates => \A p \in Gone : \E r \in Tombstones : r.path = p
         /\ plan \cup Tombstones \in SUBSET Records /\ OnePerPath(plan \cup Tombstones)
         /\ Removed \in Nat
         /\ source' = source /\ active' = active
         /\ \/ /\ Builds(plan \cup Tombstones) /\ (Migrates \/ plan \cup Tombstones # {})
               /\ result' = [result EXCEPT !.removed = Removed]
               /\ files' = files /\ scanned' = scanned /\ probe' = probe
               /\ target' = target /\ seen' = seen
            \/ ~ Migrates /\ plan \cup Tombstones = {} /\ Ends("unchanged")
  <1>1. pc = "fingerprint" /\ files = <<>> /\ source' = source /\ active' = active
    BY DEF PlanRemovals
  <1>2. Range(files) = {}
    BY <1>1, NothingListed
  <1>3. Gone \in SUBSET Paths /\ Gone \cap scanned = {} /\ Removed \in Nat
    BY CurrentFacts, GoneFinite DEF Gone, Removed, Publications, Typed
  <1>4. /\ {Tombstone(p) : p \in Gone} \in SUBSET Records
        /\ OnePerPath({Tombstone(p) : p \in Gone})
        /\ \A r \in {Tombstone(p) : p \in Gone} : ~ r.live /\ r.path \in Gone /\ r.text = NoText
        /\ \A p \in Gone : Tombstone(p).path = p
    BY <1>3, TombstonesOf
  <1>5. /\ Tombstones \in SUBSET Records /\ OnePerPath(Tombstones)
        /\ \A r \in Tombstones : /\ ~ r.live /\ r.path \in Gone /\ r.path \in Paths
                                  /\ r.path \notin scanned /\ r.text = NoText
    BY <1>3, <1>4 DEF Tombstones, OnePerPath
  <1>6. ~ Migrates => \A p \in Gone : \E r \in Tombstones : r.path = p
    BY <1>4 DEF Tombstones
  <1>7. plan \subseteq Records /\ OnePerPath(plan) /\ \A r \in plan : r.path \in scanned
    BY <1>1 DEF Publications, Typed, Plans
  <1>8. OnePerPath(plan \cup Tombstones)
    BY <1>5, <1>7 DEF OnePerPath
  <1>9. \/ /\ Builds(plan \cup Tombstones) /\ (Migrates \/ plan \cup Tombstones # {})
           /\ result' = [result EXCEPT !.removed = Removed]
           /\ files' = files /\ scanned' = scanned /\ probe' = probe
           /\ target' = target /\ seen' = seen
        \/ ~ Migrates /\ plan \cup Tombstones = {} /\ Ends("unchanged")
    BY DEF PlanRemovals, Tombstones
  <1>. QED
    BY <1>1, <1>2, <1>3, <1>5, <1>6, <1>7, <1>8, <1>9

LEMMA PlanRemovalsStep ==
  ASSUME Publications, PlanRemovals
  PROVE  Publications'
  <1> DEFINE records == plan \cup Tombstones
  <1>1. CASE Ends("unchanged")
    BY <1>1, RemovalFacts, EndsStep DEF Publications, Typed
  <1>2. CASE Builds(records) /\ result' = [result EXCEPT !.removed = Removed]
             /\ files' = files /\ scanned' = scanned /\ probe' = probe
             /\ target' = target /\ seen' = seen
    <2>1. /\ source' = source /\ active' = active /\ pc = "fingerprint" /\ files = <<>>
          /\ records \in SUBSET Records /\ OnePerPath(records) /\ Removed \in Nat
          /\ \A r \in Tombstones : ~ r.live
      BY RemovalFacts
    <2>2. pc' = "parse" /\ plan' = records
      BY <1>2 DEF Builds
    <2>3. result' \in Results /\ result'.kind = result.kind /\ ~ result'.compacted
          /\ result.kind = "update"
      <3>1. result \in Results /\ result.kind = "update" /\ ~ result.compacted
        BY <2>1 DEF Publications, Typed, Stages
      <3>2. [result EXCEPT !.removed = Removed] \in Results
        <4>1. result \in Results /\ Removed \in Nat /\ Removed \in Int
          BY <2>1, <3>1
        <4>. QED
          BY ONLY <4>1, NumberTypes
      <3>3. [result EXCEPT !.removed = Removed].kind = result.kind
            /\ [result EXCEPT !.removed = Removed].compacted = result.compacted
        BY <3>1 DEF Results
      <3>. QED
        BY <1>2, <3>1, <3>2, <3>3
    <2>4. Migrates' = Migrates
      BY <2>1, <2>3, Unchanged
    <2>5. /\ \A r \in records : r.live => r.crc = r.text
          /\ Migrates => \A r \in records : r.live
      <3>1. \A r \in plan : r.live /\ r.crc = r.text
        BY <2>1 DEF Publications, Plans
      <3>2. Migrates => Tombstones = {}
        BY DEF Tombstones
      <3>. QED
        BY <2>1, <3>1, <3>2
    <2>6. probe = Fresh
      BY <2>1 DEF Publications, Stages
    <2> HIDE DEF records
    <2>7. /\ plan' \subseteq Records /\ OnePerPath(plan)'
          /\ tasks' \in Seq(Reads) /\ delta' = <<>> /\ delta' \in Seq(Records)
          /\ Len(tasks') = Cardinality(plan') /\ Len(delta') = 0 /\ 0 <= Len(tasks')
          /\ DOMAIN delta' = {}
      BY <1>2, <2>1, BuildsStep
    <2>8. Typed'
      BY <1>2, <2>1, <2>2, <2>3, <2>7 DEF Publications, Typed
    <2>9. Stages'
      BY <1>2, <2>1, <2>2, <2>3, <2>6 DEF Stages
    <2>10. Plans'
      BY <2>2, <2>4, <2>5 DEF Plans
    <2>11. Deltas' /\ Targets'
      BY <2>2, <2>7 DEF Deltas, Targets
    <2>. QED
      BY <2>8, <2>9, <2>10, <2>11 DEF Publications
  <1>. QED
    BY <1>1, <1>2, RemovalFacts

LEMMA DeltaFacts ==
  ASSUME Publications, pc = "parse" \/ (pc = "publish" /\ result.kind # "compact")
  PROVE  /\ Len(tasks) \in Nat /\ Len(delta) \in Nat /\ Len(delta) <= Len(tasks)
         /\ DOMAIN tasks = 1 .. Len(tasks) /\ DOMAIN delta = 1 .. Len(delta)
         /\ \A i \in DOMAIN tasks : Record(i) \in plan /\ Record(i) \in Records
         /\ \A i, j \in DOMAIN tasks : Record(i).path = Record(j).path => i = j
         /\ \A r \in plan : \E i \in DOMAIN tasks : Record(i) = r
         /\ \A k \in DOMAIN delta : k \in DOMAIN tasks /\ delta[k] = Record(k)
  <1> DEFINE s == Sorted(plan)
  <1>1. plan \in SUBSET Records /\ OnePerPath(plan)
    BY DEF Publications, Typed
  <1>2. /\ Len(s) \in Nat /\ DOMAIN s = 1 .. Len(s)
        /\ \A k \in DOMAIN s : s[k] \in plan
        /\ \A k, l \in DOMAIN s : s[k].path = s[l].path => k = l
        /\ \A r \in plan : \E k \in DOMAIN s : s[k] = r
        /\ Len(s) = Cardinality(plan)
    BY <1>1, SortedFacts
  <1>3. \A i : Record(i) = s[i]
    BY DEF Record
  <1> HIDE DEF s
  <1>4. /\ Len(tasks) = Len(s) /\ Len(delta) <= Len(tasks)
        /\ \A k \in DOMAIN delta : delta[k] = Record(k)
    BY <1>2 DEF Publications, Deltas
  <1>5. /\ DOMAIN tasks = 1 .. Len(tasks) /\ DOMAIN delta = 1 .. Len(delta)
        /\ Len(delta) \in Nat
    BY LenProperties DEF Publications, Typed
  <1>6. \A k \in 1 .. Len(delta) : k \in 1 .. Len(tasks)
    BY <1>2, <1>4, <1>5
  <1>. QED
    BY <1>1, <1>2, <1>3, <1>4, <1>5, <1>6

LEMMA ParseStep ==
  ASSUME Publications, NEW i \in DOMAIN tasks, Parse(i)
  PROVE  Publications'
  <1>1. /\ pc = "parse" /\ Reading(tasks[i])
        /\ tasks' = [tasks EXCEPT ![i] = Sample(source[Record(i).path], tasks[i])]
        /\ source' = source /\ active' = active /\ pc' = pc /\ files' = files
        /\ scanned' = scanned /\ probe' = probe /\ plan' = plan /\ delta' = delta
        /\ target' = target /\ result' = result /\ seen' = seen
    BY DEF Parse
  <1>2. Record(i) \in Records /\ DOMAIN tasks = 1 .. Len(tasks)
    BY <1>1, DeltaFacts
  <1>3. Record(i).path \in Paths
    BY <1>2 DEF Records
  <1>4. tasks[i] \in Reads /\ tasks \in Seq(Reads)
    BY <1>2, ElementOfSeq DEF Publications, Typed
  <1> DEFINE e == Sample(source[Record(i).path], tasks[i])
  <1>5. e \in Reads
    BY <1>1, <1>3, <1>4, SampleType DEF Publications, Typed
  <1>6. tasks' \in Seq(Reads) /\ Len(tasks') = Len(tasks)
    <2>1. tasks' = [tasks EXCEPT ![i] = e]
      BY <1>1
    <2> HIDE DEF e
    <2>. QED
      BY <1>2, <1>4, <1>5, <2>1, ExceptSeq
  <1>7. Typed'
    BY <1>1, <1>6 DEF Publications, Typed, OnePerPath
  <1>8. Stages'
    BY <1>1 DEF Publications, Stages
  <1>9. Migrates' = Migrates
    BY <1>1, Unchanged
  <1>10. Plans' /\ Deltas'
    BY <1>1, <1>6, <1>9 DEF Publications, Plans, Deltas, Record
  <1>11. Targets'
    BY <1>1 DEF Targets
  <1>. QED
    BY <1>7, <1>8, <1>10, <1>11 DEF Publications

\* What is committed is what was planned.
LEMMA CommitFacts ==
  ASSUME Publications, Commit
  PROVE  LET i == Len(delta) + 1 IN
         /\ pc = "parse" /\ i \in DOMAIN tasks /\ delta' = Append(delta, Record(i))
         /\ Record(i) \in Records
  <1> DEFINE i == Len(delta) + 1
             r == Record(i)
  <1>1. /\ pc = "parse" /\ Len(delta) < Len(tasks)
        /\ r.live => SameFingerprint(i)
        /\ delta' = Append(delta, Committed(i))
    BY DEF Commit
  <1>2. i \in DOMAIN tasks /\ r \in plan /\ r \in Records
    BY <1>1, DeltaFacts
  <1>3. r.live => r.crc = r.text
    BY <1>2 DEF Publications, Plans
  <1>4. Committed(i) = r
    <2>1. CASE r.live
      <3>1. Committed(i) = Live(r.path, r.meta, r.crc, r.crc)
        BY <1>1, <2>1 DEF Committed, SameFingerprint
      <3>2. r = [path |-> r.path, live |-> r.live, meta |-> r.meta, crc |-> r.crc,
                 text |-> r.text]
        BY <1>2 DEF Records
      <3>3. Live(r.path, r.meta, r.crc, r.crc) =
              [path |-> r.path, live |-> TRUE, meta |-> r.meta, crc |-> r.crc,
               text |-> r.crc]
        BY DEF Live
      <3>4. r.live = TRUE
        BY <1>2, <2>1 DEF Records
      <3>. QED
        BY <1>3, <2>1, <3>1, <3>2, <3>3, <3>4
    <2>2. CASE ~ r.live
      BY <2>2 DEF Committed
    <2>. QED
      BY <2>1, <2>2
  <1>. QED
    BY <1>1, <1>2, <1>4

LEMMA CommitStep ==
  ASSUME Publications, Commit
  PROVE  Publications'
  <1> DEFINE i == Len(delta) + 1
             n == Len(delta)
             r == Record(i)
  <1>1. /\ source' = source /\ active' = active /\ pc' = pc /\ files' = files
        /\ scanned' = scanned /\ probe' = probe /\ plan' = plan /\ tasks' = tasks
        /\ target' = target /\ result' = result /\ seen' = seen
    BY DEF Commit
  <1>2. /\ pc = "parse" /\ i \in DOMAIN tasks /\ delta' = Append(delta, r)
        /\ r \in Records
    BY CommitFacts
  <1>3. /\ n \in Nat /\ DOMAIN delta = 1 .. n /\ DOMAIN tasks = 1 .. Len(tasks)
        /\ Len(tasks) \in Nat /\ \A k \in 1 .. n : delta[k] = Record(k)
        /\ delta \in Seq(Records)
    BY <1>2, DeltaFacts DEF Publications, Typed
  <1> HIDE DEF r
  <1>4. /\ delta' \in Seq(Records) /\ Len(delta') = n + 1
        /\ \A k \in 1 .. n : delta'[k] = delta[k] /\ delta'[n + 1] = r
    BY <1>2, <1>3, AppendProperties
  <1>5. delta'[n + 1] = r /\ DOMAIN delta' = 1 .. (n + 1)
    BY <1>2, <1>3, <1>4, AppendProperties, LenProperties
  <1>6. \A k \in 1 .. (n + 1) : k \in 1 .. n \/ k = n + 1
    BY <1>3
  <1>7. \A k \in DOMAIN delta' : delta'[k] = Record(k)
    BY <1>3, <1>4, <1>5, <1>6 DEF r
  <1>8. Len(delta') <= Len(tasks)
    BY <1>2, <1>3, <1>4
  <1>9. Typed'
    BY <1>1, <1>4 DEF Publications, Typed, OnePerPath
  <1>10. Stages'
    BY <1>1, <1>2 DEF Publications, Stages
  <1>11. Migrates' = Migrates
    BY <1>1, Unchanged
  <1>12. Plans'
    BY <1>1, <1>11 DEF Publications, Plans
  <1>13. Deltas'
    <2>1. \A k : Record(k)' = Record(k)
      BY <1>1 DEF Record
    <2>. QED
      BY <1>1, <1>2, <1>7, <1>8, <2>1 DEF Publications, Deltas
  <1>14. Targets'
    BY <1>1, <1>2 DEF Targets
  <1>. QED
    BY <1>9, <1>10, <1>12, <1>13, <1>14 DEF Publications

LEMMA PublishDeltaStep ==
  ASSUME Publications, PublishDelta
  PROVE  Publications'
  <1> DEFINE table == Resolve(CompactionInputs)
             d == Discarded(PhysicalCount(active) + Len(delta), table)
  <1>1. /\ pc = "parse" /\ Len(delta) = Len(tasks)
        /\ source' = source /\ active' = active /\ files' = files
        /\ scanned' = scanned /\ probe' = probe /\ plan' = plan /\ tasks' = tasks
        /\ delta' = delta /\ seen' = seen /\ pc' = "publish"
    BY DEF PublishDelta, Replace, AppendDelta, AutoCompact, AutoCompactFails, Publishing
  <1>2. /\ active \in Segments /\ delta \in Seq(Records) /\ result \in Results
        /\ ~ result.compacted /\ result.kind \in {"update", "remove"}
    BY <1>1 DEF Publications, Typed, Stages
  <1>3. table \in Seq(Records)
    <2>1. CompactionInputs \in Segments
      BY <1>2, LookupCompacted DEF CompactionInputs
    <2>. QED
      BY <2>1, ResolveClean
  <1>4. d \in Int
    <2>1. PhysicalCount(active) \in Nat /\ Len(delta) \in Nat /\ Len(table) \in Nat
      BY <1>2, <1>3, PhysicalType, LenProperties
    <2>. QED
      BY <2>1 DEF Discarded
  <1>5. \A s \in Seq(Records) : <<s>> \in Segments
    BY DEF Segments
  <1>6. Append(active, delta) \in Segments
    BY <1>2, AppendProperties DEF Segments
  <1>7. CompactionInputs' = CompactionInputs /\ PhysicalCount(active)' = PhysicalCount(active)
    BY <1>1, Unchanged DEF CompactionInputs, PhysicalCount
  <1>8. table' = table
    BY <1>7
  <1> HIDE DEF table
  <1>9. d' = d
    BY <1>1, <1>7, <1>8 DEF Discarded
  <1> HIDE DEF d
  <1>10. \/ /\ Migrates /\ target' = <<delta>>
            /\ result' = [result EXCEPT !.compacted = TRUE]
         \/ /\ ~ Migrates /\ target' = Append(active, delta)
            /\ result' \in {result, [result EXCEPT !.degraded = TRUE],
                            [result EXCEPT !.degraded = TRUE, !.discarded = d]}
         \/ /\ ~ Migrates /\ target' = <<table>>
            /\ result' = [result EXCEPT !.compacted = TRUE, !.discarded = d]
    BY DEF PublishDelta, Replace, AppendDelta, AutoCompact, AutoCompactFails, Publishing,
           table, d
  <1>11. /\ result' \in Results /\ result'.kind = result.kind
         /\ Migrates => result'.compacted
    <2>1. /\ [result EXCEPT !.compacted = TRUE] \in Results
          /\ [result EXCEPT !.degraded = TRUE] \in Results
      BY ONLY <1>2, CountTypes
    <2>2. /\ [result EXCEPT !.compacted = TRUE, !.discarded = d] \in Results
          /\ [result EXCEPT !.degraded = TRUE, !.discarded = d] \in Results
      BY ONLY <1>2, <1>4, NumberTypes
    <2>3. result' \in Results
      BY <1>2, <1>10, <2>1, <2>2
    <2>4. /\ [result EXCEPT !.compacted = TRUE].kind = result.kind
          /\ [result EXCEPT !.compacted = TRUE].compacted
          /\ [result EXCEPT !.degraded = TRUE].kind = result.kind
          /\ [result EXCEPT !.compacted = TRUE, !.discarded = d].kind = result.kind
          /\ [result EXCEPT !.degraded = TRUE, !.discarded = d].kind = result.kind
      BY <1>2 DEF Results
    <2>. QED
      BY <1>10, <2>3, <2>4
  <1>12. Migrates' = Migrates
    BY <1>1, <1>11, Unchanged
  <1>13. target' \in Segments
    BY <1>2, <1>3, <1>5, <1>6, <1>10
  <1>14. Typed'
    BY <1>1, <1>11, <1>13 DEF Publications, Typed, OnePerPath
  <1>15. Stages'
    BY <1>1, <1>2, <1>11 DEF Publications, Stages
  <1>16. Plans' /\ Deltas'
    BY <1>1, <1>12 DEF Publications, Plans, Deltas, Record
  <1>17. Targets'
    <2>1. result'.kind # "compact"
      BY <1>2, <1>11
    <2>2. CASE Migrates /\ target' = <<delta>>
      BY <1>1, <1>11, <1>12, <2>2 DEF Targets
    <2>3. CASE /\ ~ Migrates /\ target' = Append(active, delta)
               /\ result' \in {result, [result EXCEPT !.degraded = TRUE],
                               [result EXCEPT !.degraded = TRUE, !.discarded = d]}
      <3>1. ~ result'.compacted
        <4>1. /\ [result EXCEPT !.degraded = TRUE].compacted = result.compacted
              /\ [result EXCEPT !.degraded = TRUE, !.discarded = d].compacted
                   = result.compacted
          BY <1>2 DEF Results
        <4>. QED
          BY <1>2, <2>3, <4>1
      <3>. QED
        BY <1>1, <1>12, <2>1, <2>3, <3>1 DEF Targets
    <2>4. CASE /\ ~ Migrates /\ target' = <<table>>
               /\ result' = [result EXCEPT !.compacted = TRUE, !.discarded = d]
      <3>1. result'.compacted /\ result'.discarded = d
        BY <1>2, <2>4 DEF Results
      <3>. QED
        BY <1>1, <1>8, <1>9, <1>12, <2>1, <2>4, <3>1 DEF Targets, table, d
    <2>. QED
      BY <1>10, <2>2, <2>3, <2>4
  <1>. QED
    BY <1>14, <1>15, <1>16, <1>17 DEF Publications

LEMMA EditStep ==
  ASSUME Publications, NEW p \in Paths, Edit(p)
  PROVE  Publications'
  <1>1. /\ active' = active /\ pc' = pc /\ files' = files /\ scanned' = scanned
        /\ probe' = probe /\ plan' = plan /\ tasks' = tasks /\ delta' = delta
        /\ target' = target /\ result' = result
    BY DEF Edit, operation
  <1>2. /\ source' \in [Paths -> Files \cup {NoFile}]
        /\ seen' \in [Paths -> SUBSET (Files \cup {NoFile})]
    <2>1. PICK f \in (Files \cup {NoFile}) \ {source[p]} :
            /\ source' = [source EXCEPT ![p] = f]
            /\ seen' = seen \/ seen' = [seen EXCEPT ![p] = @ \cup {f}]
      BY DEF Edit
    <2>. QED
      BY <2>1 DEF Publications, Typed
  <1>3. Typed'
    BY <1>1, <1>2 DEF Publications, Typed, OnePerPath
  <1>4. /\ Migrates' = Migrates /\ Current' = Current
    BY <1>1, Unchanged
  <1>5. Stages' /\ Plans' /\ Deltas'
    BY <1>1, <1>4 DEF Publications, Stages, Plans, Deltas, Record
  <1>6. Targets'
    <2>1. CompactionInputs' = CompactionInputs /\ PhysicalCount(active)' = PhysicalCount(active)
      BY <1>1, <1>4 DEF CompactionInputs, PhysicalCount
    <2>2. Resolve(CompactionInputs)' = Resolve(CompactionInputs)
      BY <2>1
    <2>3. Discarded(PhysicalCount(active), Current)' = Discarded(PhysicalCount(active), Current)
      BY <1>4, <2>1 DEF Discarded
    <2>4. Discarded(PhysicalCount(active) + Len(delta), Resolve(CompactionInputs))' =
            Discarded(PhysicalCount(active) + Len(delta), Resolve(CompactionInputs))
      BY <1>1, <2>1, <2>2 DEF Discarded
    <2>. QED
      BY <1>1, <1>4, <2>2, <2>3, <2>4 DEF Publications, Targets
  <1>. QED
    BY <1>3, <1>5, <1>6 DEF Publications

LEMMA InitPublications ==
  ASSUME Init
  PROVE  Publications
  <1> DEFINE present == {q \in Paths : source[q] # NoFile}
  <1>1. /\ source \in [Paths -> Files \cup {NoFile}]
        /\ pc = "idle" /\ files = <<>> /\ scanned = {} /\ probe = Fresh /\ plan = {}
        /\ tasks = <<>> /\ delta = <<>> /\ target = <<>> /\ result = NoResult
        /\ seen = [p \in Paths |-> {}]
    BY DEF Init
  <1>2. active \in Segments
    <2>1. PICK checksums \in BOOLEAN :
            active = << Arranged(ScanOrder,
                          {Live(p, Metadata(source[p]),
                                IF checksums THEN source[p].text ELSE NoText,
                                source[p].text) : p \in present}) >>
      BY DEF Init
    <2> DEFINE c(p) == IF checksums THEN source[p].text ELSE NoText
               r(p) == Live(p, Metadata(source[p]), c(p), source[p].text)
               records == {r(p) : p \in present}
               s == Arranged(ScanOrder, records)
    <2>2. ASSUME NEW p \in present PROVE r(p) \in Records /\ r(p).path = p
      <3>1. source[p] \in Files /\ p \in Paths
        BY <1>1
      <3>2. Metadata(source[p]) \in Metas /\ source[p].text \in Texts
        BY <3>1, MetadataType
      <3>3. c(p) \in {NoText, source[p].text}
        OBVIOUS
      <3> HIDE DEF c
      <3>4. r(p) \in Records
        BY <3>1, <3>2, <3>3, LiveType
      <3>. QED
        BY <3>4 DEF Live
    <2> HIDE DEF r, present
    <2>3. records \in SUBSET Records /\ OnePerPath(records)
      BY <2>2 DEF OnePerPath
    <2>4. active = <<s>>
      BY <2>1 DEF r, present
    <2> HIDE DEF records
    <2>5. s \in Seq(Records)
      BY <2>3, ArrangedFacts
    <2> HIDE DEF s
    <2>. QED
      BY <2>4, <2>5 DEF Segments
  <1>3. result \in Results /\ ~ result.compacted
    BY <1>1 DEF NoResult, Results
  <1>4. Typed
    BY <1>1, <1>2, <1>3, FreshType, NothingListed DEF Typed, OnePerPath
  <1>5. Stages
    BY <1>1, <1>3 DEF Stages
  <1>6. Plans /\ Deltas /\ Targets
    BY <1>1 DEF Plans, Deltas, Targets
  <1>. QED
    BY <1>4, <1>5, <1>6 DEF Publications

LEMMA NextPublications ==
  ASSUME Publications, [Next]_vars
  PROVE  Publications'
  <1>1. CASE BeginUpdate
    BY <1>1, BeginUpdateStep
  <1>2. CASE BeginCompact
    BY <1>2, BeginCompactStep
  <1>3. ASSUME NEW matches \in SUBSET Paths, BeginRemove(matches) PROVE Publications'
    BY <1>3, BeginRemoveStep
  <1>4. CASE Fingerprint
    BY <1>4, FingerprintStep
  <1>5. CASE FingerprintFails \/ CommitFails \/ Fails
    BY <1>5, ThrowsStep DEF FingerprintFails, CommitFails, Fails
  <1>6. CASE Classify
    BY <1>6, ClassifyStep
  <1>7. CASE PlanRemovals
    BY <1>7, PlanRemovalsStep
  <1>8. ASSUME NEW i \in DOMAIN tasks, Parse(i) PROVE Publications'
    BY <1>8, ParseStep
  <1>9. CASE Commit
    BY <1>9, CommitStep
  <1>10. CASE PublishDelta
    BY <1>10, PublishDeltaStep
  <1>11. CASE Publish
    BY <1>11, PublishStep
  <1>12. ASSUME NEW p \in Paths, Edit(p) PROVE Publications'
    BY <1>12, EditStep
  <1>13. CASE vars' = vars
    <2>1. /\ source' = source /\ active' = active /\ pc' = pc /\ files' = files
          /\ scanned' = scanned /\ probe' = probe /\ plan' = plan /\ tasks' = tasks
          /\ delta' = delta /\ target' = target /\ result' = result /\ seen' = seen
      BY <1>13 DEF vars, operation
    <2>2. Migrates' = Migrates /\ Current' = Current
      BY <2>1, Unchanged
    <2>3. Typed' /\ Stages' /\ Plans' /\ Deltas'
      BY <2>1, <2>2 DEF Publications, Typed, OnePerPath, Stages, Plans, Deltas, Record
    <2>4. CompactionInputs' = CompactionInputs /\ PhysicalCount(active)' = PhysicalCount(active)
      BY <2>1, <2>2 DEF CompactionInputs, PhysicalCount
    <2>5. Resolve(CompactionInputs)' = Resolve(CompactionInputs)
      BY <2>4
    <2>6. /\ Discarded(PhysicalCount(active), Current)'
               = Discarded(PhysicalCount(active), Current)
          /\ Discarded(PhysicalCount(active) + Len(delta), Resolve(CompactionInputs))' =
               Discarded(PhysicalCount(active) + Len(delta), Resolve(CompactionInputs))
      BY <2>1, <2>2, <2>4, <2>5 DEF Discarded
    <2>7. Targets'
      BY <2>1, <2>2, <2>5, <2>6 DEF Publications, Targets
    <2>. QED
      BY <2>3, <2>7 DEF Publications
  <1>. QED
    BY <1>1, <1>2, <1>3, <1>4, <1>5, <1>6, <1>7, <1>8, <1>9, <1>10, <1>11, <1>12, <1>13
    DEF Next, Proceeds

\* The inductive invariant on which the theorems about publications rest: types,
\* what each stage holds, that the delta is the sorted plan as far as it is
\* committed, and which segments the next Manifest will select.
THEOREM PublicationsHold == Spec => []Publications
  <1>1. Init => Publications
    BY InitPublications
  <1>2. Publications /\ [Next]_vars => Publications'
    BY NextPublications
  <1>. QED
    BY <1>1, <1>2, PTL DEF Spec

-----------------------------------------------------------------------------
(* Publication. *)

LEMMA OnlyPublish ==
  ASSUME [Next]_vars, active' # active
  PROVE  Publish /\ pc = "publish" /\ active' = target
  <1>1. BeginUpdate => active' = active
    BY DEF BeginUpdate, Starts
  <1>2. BeginCompact => active' = active
    BY DEF BeginCompact, Starts
  <1>3. \A matches \in SUBSET Paths : BeginRemove(matches) => active' = active
    BY DEF BeginRemove, Starts
  <1>4. Throws => active' = active
    BY DEF Throws
  <1>5. FingerprintFails \/ CommitFails \/ Fails => active' = active
    BY <1>4 DEF FingerprintFails, CommitFails, Fails
  <1>6. Fingerprint \/ Classify \/ PlanRemovals \/ Commit \/ PublishDelta => active' = active
    BY DEF Fingerprint, Classify, PlanRemovals, Commit, PublishDelta
  <1>7. \A i \in DOMAIN tasks : Parse(i) => active' = active
    BY DEF Parse
  <1>8. \A p \in Paths : Edit(p) => active' = active
    BY DEF Edit
  <1>9. vars' = vars => active' = active
    BY DEF vars
  <1>10. Publish
    BY <1>1, <1>2, <1>3, <1>5, <1>6, <1>7, <1>8, <1>9 DEF Next, Proceeds
  <1>. QED
    BY <1>10 DEF Publish

LEMMA DeltaHas ==
  ASSUME delta \in Seq(Records), NEW p
  PROVE  Has(delta, p) <=> \E r \in Range(delta) : r.path = p
  BY DEF Has, Range

LEMMA TargetLookup ==
  ASSUME Publications, pc = "publish", NEW p
  PROVE  Lookup(target, p) =
           IF result.kind = "compact" THEN Lookup(active, p)
           ELSE IF Migrates \/ Has(delta, p) THEN Lookup(<<delta>>, p)
           ELSE Lookup(active, p)
  <1>1. active \in Segments /\ delta \in Seq(Records)
    BY DEF Publications, Typed
  <1>2. Current \in Seq(Records) /\ Found(Current, p) = Lookup(active, p)
    BY <1>1, CurrentFacts
  <1>3. Migrates => result.kind # "compact"
    BY DEF Migrates
  <1>4. CASE result.kind = "compact" /\ target = <<Current>>
    BY <1>2, <1>4, LookupOne
  <1>5. CASE Migrates /\ target = <<delta>>
    BY <1>3, <1>5
  <1>6. CASE result.kind # "compact" /\ ~ Migrates /\ target = Append(active, delta)
    BY <1>1, <1>6, LookupAppend
  <1>7. CASE result.kind # "compact" /\ ~ Migrates /\ target = <<Resolve(CompactionInputs)>>
    <2> DEFINE S == CompactionInputs
    <2>1. /\ S \in Segments
          /\ Lookup(S, p) = IF Has(delta, p) THEN Lookup(<<delta>>, p) ELSE Lookup(active, p)
      BY <1>1, LookupCompacted DEF CompactionInputs
    <2> HIDE DEF S
    <2>2. Resolve(S) \in Seq(Records) /\ Found(Resolve(S), p) = Lookup(S, p)
      BY <2>1, ResolveClean
    <2>3. Lookup(<<Resolve(S)>>, p) = Found(Resolve(S), p)
      BY <2>2, LookupOne
    <2>. QED
      BY <1>7, <2>1, <2>2, <2>3 DEF S
  <1>. QED
    BY <1>4, <1>5, <1>6, <1>7 DEF Publications, Targets

\* PublishOverlaysDelta: whatever way the delta is published (appended, compacted
\* at once, kept after a failed compaction, or in place of all segments), each
\* path shows its record of the delta, and every other path what it showed
\* before; compact() shows the same documents.
THEOREM PublicationOverlays == Spec => PublishOverlaysDelta
  <1>1. Publications /\ [Next]_vars =>
          (active' # active =>
             View(active') =
               IF result.kind = "compact" THEN View(active)
               ELSE [p \in Paths |-> IF Migrates \/ \E r \in Range(delta) : r.path = p
                                     THEN Lookup(<<delta>>, p) ELSE Lookup(active, p)])
    <2> SUFFICES ASSUME Publications, [Next]_vars, active' # active
                 PROVE  View(active') =
                          IF result.kind = "compact" THEN View(active)
                          ELSE [p \in Paths |->
                                  IF Migrates \/ \E r \in Range(delta) : r.path = p
                                  THEN Lookup(<<delta>>, p) ELSE Lookup(active, p)]
      OBVIOUS
    <2>1. pc = "publish" /\ active' = target
      BY OnlyPublish
    <2>2. \A p : Lookup(target, p) =
                   IF result.kind = "compact" THEN Lookup(active, p)
                   ELSE IF Migrates \/ Has(delta, p) THEN Lookup(<<delta>>, p)
                   ELSE Lookup(active, p)
      BY <2>1, TargetLookup
    <2>3. \A p : Has(delta, p) <=> \E r \in Range(delta) : r.path = p
      BY DeltaHas DEF Publications, Typed
    <2>4. View(active') = [p \in Paths |-> Lookup(target, p)]
      BY <2>1 DEF View
    <2>5. View(active) = [p \in Paths |-> Lookup(active, p)]
      BY DEF View
    <2>6. CASE result.kind = "compact"
      BY <2>2, <2>4, <2>5, <2>6
    <2>7. CASE result.kind # "compact"
      BY <2>2, <2>3, <2>4, <2>7
    <2>. QED
      BY <2>6, <2>7
  <1>. QED
    BY <1>1, PublicationsHold, PTL DEF Spec, PublishOverlaysDelta

LEMMA CompactTarget ==
  ASSUME Publications, pc = "publish", result.compacted
  PROVE  \E t \in Seq(Records) : target = <<t>> /\ Clean(t)
  <1>1. active \in Segments /\ delta \in Seq(Records)
    BY DEF Publications, Typed
  <1>2. CASE result.kind = "compact" /\ target = <<Current>>
    BY <1>1, <1>2, CurrentFacts
  <1>3. CASE Migrates /\ target = <<delta>>
    <2>1. result.kind # "compact"
      BY <1>3 DEF Migrates
    <2>2. /\ \A k \in DOMAIN delta : delta[k] \in plan
          /\ \A k, l \in DOMAIN delta : delta[k].path = delta[l].path => k = l
      BY <2>1, DeltaFacts
    <2>3. \A r \in plan : r.live
      BY <1>3 DEF Publications, Plans
    <2>4. Clean(delta)
      BY <2>2, <2>3 DEF Clean
    <2>. QED
      BY <1>1, <1>3, <2>4
  <1>4. CASE target = <<Resolve(CompactionInputs)>>
    <2>1. CompactionInputs \in Segments
      BY <1>1, LookupCompacted DEF CompactionInputs
    <2>. QED
      BY <1>4, <2>1, ResolveClean
  <1>. QED
    BY <1>2, <1>3, <1>4 DEF Publications, Targets

\* A clean sequence has as many paths as records.
LEMMA CleanCounts ==
  ASSUME NEW t \in Seq(Records), Clean(t)
  PROVE  /\ \A r \in Range(t) : r.live
         /\ IsFiniteSet({r.path : r \in Range(t)})
         /\ Cardinality({r.path : r \in Range(t)}) = Len(t)
  <1> DEFINE T == {r.path : r \in Range(t)}
             n == Len(t)
             f == [k \in 1 .. n |-> t[k].path]
  <1>1. n \in Nat /\ DOMAIN t = 1 .. n
    BY LenProperties
  <1>2. \A r \in Range(t) : r.live
    BY DEF Range, Clean
  <1>3. f \in [1 .. n -> T]
    BY <1>1 DEF Range
  <1>4. \A k, l \in 1 .. n : f[k] = f[l] => k = l
    BY <1>1 DEF Clean
  <1>5. \A x \in T : \E k \in 1 .. n : f[k] = x
    BY <1>1 DEF Range
  <1> HIDE DEF T, n, f
  <1>6. IsFiniteSet(T) /\ Cardinality(T) = n
    BY <1>1, <1>3, <1>4, <1>5, Listed
  <1>. QED
    BY <1>2, <1>6 DEF T, n

\* CompactedClean: compact(), automatic compaction and a rewriting update leave
\* one segment, with a single live record for each of its paths: no tombstone and
\* no overridden record survives.
THEOREM CompactionLeavesNoRest == Spec => CompactedClean
  <1>1. Publications /\ [Next]_vars =>
          (active' # active /\ result.compacted =>
             /\ Len(active') = 1
             /\ \A r \in Range(active'[1]) : r.live
             /\ Cardinality({r.path : r \in Range(active'[1])}) = Len(active'[1]))
    <2> SUFFICES ASSUME Publications, [Next]_vars, active' # active, result.compacted
                 PROVE  /\ Len(active') = 1
                        /\ \A r \in Range(active'[1]) : r.live
                        /\ Cardinality({r.path : r \in Range(active'[1])}) = Len(active'[1])
      OBVIOUS
    <2>1. pc = "publish" /\ active' = target
      BY OnlyPublish
    <2>2. PICK t \in Seq(Records) : target = <<t>> /\ Clean(t)
      BY <2>1, CompactTarget
    <2>3. Len(active') = 1 /\ active'[1] = t
      BY <2>1, <2>2
    <2>. QED
      BY <2>2, <2>3, CleanCounts
  <1>. QED
    BY <1>1, PublicationsHold, PTL DEF Spec, CompactedClean

-----------------------------------------------------------------------------
(* Every step keeps Updates. *)

LEMMA TextOfFacts ==
  /\ TextOf(NoFile) = NoText
  /\ \A f : f # NoFile => TextOf(f) = f.text
  BY DEF TextOf

LEMMA SampleTakes ==
  ASSUME NEW f \in Files \cup {NoFile}, NEW r \in Reads, Reading(r)
  PROVE  LET s == Sample(f, r) IN
         /\ s.step \in {"read", "restat", "done"} =>
              /\ f # NoFile
              /\ IF r.step = "stat" THEN s.meta = Metadata(f)
                 ELSE s.meta = r.meta /\ r.step \in {"read", "restat"}
         /\ s.step \in {"restat", "done"} =>
              IF r.step = "read" THEN s.text = f.text
              ELSE s.text = r.text /\ r.step = "restat"
  <1>1. r.step \in {"stat", "read", "restat"}
    BY DEF Reading
  <1>2. CASE f = NoFile
    <2>1. Sample(f, r) = [r EXCEPT !.step = "failed"]
      BY <1>2 DEF Sample
    <2>2. Sample(f, r).step = "failed"
      BY <2>1 DEF Reads
    <2>. QED
      BY <2>2
  <1>3. CASE f # NoFile /\ r.step = "stat"
    <2>1. Sample(f, r) = [r EXCEPT !.step = "read", !.meta = Metadata(f)]
      BY <1>3 DEF Sample
    <2>2. Sample(f, r).step = "read" /\ Sample(f, r).meta = Metadata(f)
      BY <2>1 DEF Reads
    <2>. QED
      BY <1>3, <2>2
  <1>4. CASE f # NoFile /\ r.step = "read"
    <2>1. Sample(f, r) = [r EXCEPT !.step = "restat", !.text = f.text]
      BY <1>4 DEF Sample
    <2>2. Sample(f, r).meta = r.meta /\ Sample(f, r).text = f.text
      BY <2>1 DEF Reads
    <2>. QED
      BY <1>4, <2>2
  <1>5. CASE f # NoFile /\ r.step = "restat"
    <2>1. Sample(f, r) = [r EXCEPT !.step = IF Stable(f, r) THEN "done" ELSE "failed"]
      BY <1>5 DEF Sample
    <2>2. Sample(f, r).meta = r.meta /\ Sample(f, r).text = r.text
      BY <2>1 DEF Reads
    <2>. QED
      BY <1>5, <2>2
  <1>. QED
    BY <1>1, <1>2, <1>3, <1>4, <1>5

\* A step that leaves alone what Updates is about keeps it.
LEMMA UpdatesSame ==
  ASSUME Updates, source' = source, seen' = seen, active' = active, scanned' = scanned,
         files' = files, probe' = probe, plan' = plan, result'.kind = result.kind,
         pc' = pc \/ (pc = "parse" /\ pc' = "publish")
  PROVE  Updates'
  <1>1. /\ Migrates' = Migrates /\ CurrentPaths' = CurrentPaths
        /\ Updating' = Updating
    BY Unchanged DEF Updating
  <1>2. \A p : /\ Lookup(active, p)' = Lookup(active, p) /\ Planned(p)' = Planned(p)
    BY DEF Planned
  <1>3. \A p : Faithful(p)' = Faithful(p) /\ Shown(p)' = Shown(p) /\ Differs(p)' = Differs(p)
    BY <1>1, <1>2 DEF Faithful, Shown, Differs
  <1>4. Probed' = Probed /\ Done' = Done
    BY DEF Probed, Done
  <1>. QED
    BY <1>1, <1>3, <1>4 DEF Updates

LEMMA UpdatesBegins ==
  ASSUME Publications, BeginUpdate
  PROVE  Updates'
  <1> DEFINE paths == {p \in Paths : source[p] # NoFile}
  <1>1. /\ files' = InOrder(ScanOrder, paths) /\ scanned' = Range(files')
        /\ pc' = "fingerprint" /\ result' = [NoResult EXCEPT !.kind = "update"]
        /\ seen' = [p \in Paths |-> {source[p]}] /\ source' = source
        /\ probe' = probe /\ plan' = plan
    BY DEF BeginUpdate, Starts
  <1>2. plan = {} /\ probe = Fresh
    BY DEF BeginUpdate, Starts, Publications, Stages
  <1>3. ASSUME NEW p \in Paths \ scanned' PROVE source[p] = NoFile
    <2> SUFFICES ASSUME source[p] # NoFile PROVE FALSE
      OBVIOUS
    <2>1. p \in paths \cap Paths
      OBVIOUS
    <2> HIDE DEF paths
    <2>2. \E k \in DOMAIN files' : files'[k] = p
      BY <1>1, <2>1, InOrderFacts
    <2>. QED
      BY <1>1, <2>2 DEF Range
  <1>4. \A p \in Paths : source'[p] \in seen'[p]
    BY <1>1
  <1>5. \A p \in Paths \ scanned' : NoFile \in seen'[p]
    BY <1>1, <1>3
  <1>6. Done' = {} /\ Probed'
    BY <1>1, <1>2 DEF Done, Probed, Fresh
  <1>. QED
    BY <1>1, <1>2, <1>4, <1>5, <1>6 DEF Updates

LEMMA UpdatesFingerprint ==
  ASSUME Publications, Updates, Fingerprint
  PROVE  Updates'
  <1>1. /\ pc = "fingerprint" /\ files # <<>> /\ Reading(probe)
        /\ probe' = Sample(source[Head(files)], probe)
        /\ source' = source /\ active' = active /\ pc' = pc /\ files' = files
        /\ scanned' = scanned /\ plan' = plan /\ result' = result /\ seen' = seen
    BY DEF Fingerprint
  <1>2. Updating /\ Updating'
    BY <1>1 DEF Publications, Stages, Updating
  <1> DEFINE p == Head(files)
             f == source[p]
             s == Sample(f, probe)
  <1>3. p \in Paths /\ f \in Files \cup {NoFile} /\ f \in seen[p] /\ probe \in Reads
    <2>1. p \in Paths
      BY <1>1, TailFacts DEF Publications, Typed
    <2>. QED
      BY <1>2, <2>1 DEF Publications, Typed, Updates
  <1>4. /\ s.step \in {"read", "restat", "done"} =>
              /\ f # NoFile
              /\ IF probe.step = "stat" THEN s.meta = Metadata(f)
                 ELSE s.meta = probe.meta /\ probe.step \in {"read", "restat"}
        /\ s.step \in {"restat", "done"} =>
              IF probe.step = "read" THEN s.text = f.text
              ELSE s.text = probe.text /\ probe.step = "restat"
    <2> HIDE DEF f
    <2>. QED
      BY <1>1, <1>3, SampleTakes
  <1>5. probe' = s
    BY <1>1
  <1> HIDE DEF f, s
  <1>6. Probed
    BY <1>2 DEF Updates
  <1>7. Probed'
    <2>1. ASSUME s.step \in {"read", "restat", "done"}
          PROVE  \E g \in seen[p] : g # NoFile /\ Metadata(g) = s.meta
      <3>1. CASE probe.step = "stat"
        BY <1>3, <1>4, <2>1, <3>1
      <3>2. CASE probe.step # "stat"
        BY <1>4, <1>6, <2>1, <3>2 DEF Probed
      <3>. QED
        BY <3>1, <3>2
    <2>2. ASSUME s.step \in {"restat", "done"}
          PROVE  \E g \in seen[p] : g # NoFile /\ g.text = s.text
      <3>1. CASE probe.step = "read"
        BY <1>3, <1>4, <2>2, <3>1
      <3>2. CASE probe.step # "read"
        BY <1>4, <1>6, <2>2, <3>2 DEF Probed
      <3>. QED
        BY <3>1, <3>2
    <2>. QED
      BY <1>1, <1>5, <2>1, <2>2 DEF Probed
  <1>8. /\ Migrates' = Migrates /\ CurrentPaths' = CurrentPaths /\ Done' = Done
    BY <1>1, Unchanged DEF Done
  <1>9. \A q : Faithful(q)' = Faithful(q) /\ Shown(q)' = Shown(q) /\ Differs(q)' = Differs(q)
    BY <1>1, <1>8 DEF Faithful, Shown, Differs, Planned
  <1>. QED
    BY <1>1, <1>2, <1>7, <1>8, <1>9 DEF Updates

\* What Classify does with the path at hand, in terms of what it held.
LEMMA ClassifyMeaning ==
  ASSUME Publications, Updates, Classify
  PROVE  LET p == Head(files) IN
         /\ \E f \in seen[p] : f # NoFile /\ f.text = probe.text
         /\ \/ plan' = plan \cup {Candidate} /\ (~ Migrates => Differs(p))
            \/ /\ plan' = plan /\ ~ Migrates /\ p \in CurrentPaths
               /\ Lookup(active, p).text = probe.text
  <1> DEFINE p == Head(files)
             old == CurrentRecord(p)
  <1>1. pc = "fingerprint" /\ probe.step = "done" /\ p \in Paths
    BY ClassifyFacts
  <1>2. Updating
    BY <1>1 DEF Publications, Stages, Updating
  <1>3. PICK f \in seen[p] : f # NoFile /\ f.text = probe.text
    BY <1>1, <1>2 DEF Updates, Probed
  <1>4. PICK g \in seen[p] : g # NoFile /\ Metadata(g) = probe.meta
    BY <1>1, <1>2 DEF Updates, Probed
  <1>5. probe.text \in Texts /\ probe.text # NoText
    BY <1>1, MaintenanceAssumption DEF Publications, Typed, Reads
  <1>6. p \in CurrentPaths => /\ old = Lookup(active, p) /\ old \in CurrentRecords
                              /\ old \in Records /\ old.live
    BY CurrentFacts DEF Publications, Typed
  <1>7. CASE Migrates
    BY <1>3, <1>7 DEF Classify, Candidate
  <1>8. CASE ~ Migrates /\ p \notin CurrentPaths
    <2>1. Differs(p)
      BY <1>3, <1>8 DEF Differs
    <2>. QED
      BY <1>3, <1>8, <2>1 DEF Classify, Candidate
  <1>9. CASE ~ Migrates /\ p \in CurrentPaths /\ Changed(old)
    <2>1. old.crc # NoText
      BY <1>6, <1>9, <1>2 DEF Migrates, Updating
    <2>2. CASE old.meta # probe.meta
      <3>1. Live(p, Metadata(g), g.text, g.text).meta = probe.meta
        BY <1>4 DEF Live
      <3>2. Lookup(active, p) # Live(p, Metadata(g), g.text, g.text)
        BY <1>6, <1>9, <2>2, <3>1
      <3>3. Differs(p)
        BY <1>4, <3>2 DEF Differs
      <3>. QED
        BY <1>3, <1>9, <3>3 DEF Classify, Candidate
    <2>3. CASE old.crc # probe.text
      <3>1. Live(p, Metadata(f), f.text, f.text).crc = probe.text
        BY <1>3 DEF Live
      <3>2. Lookup(active, p) # Live(p, Metadata(f), f.text, f.text)
        BY <1>6, <1>9, <2>3, <3>1
      <3>3. Differs(p)
        BY <1>3, <3>2 DEF Differs
      <3>. QED
        BY <1>3, <1>9, <3>3 DEF Classify, Candidate
    <2>. QED
      BY <1>9, <2>1, <2>2, <2>3 DEF Changed
  <1>10. CASE ~ Migrates /\ p \in CurrentPaths /\ ~ Changed(old)
    <2>1. old.crc = probe.text
      BY <1>10 DEF Changed
    <2>2. old.text = probe.text
      BY <1>5, <1>6, <1>10, <2>1 DEF Records
    <2>3. plan' = plan
      BY <1>10 DEF Classify
    <2>. QED
      BY <1>3, <1>6, <1>10, <2>2, <2>3
  <1>. QED
    BY <1>7, <1>8, <1>9, <1>10

LEMMA UpdatesClassify ==
  ASSUME Publications, Updates, Classify
  PROVE  Updates'
  <1>0. PICK p : p = Head(files)
    OBVIOUS
  <1>1. /\ pc = "fingerprint" /\ p \in Paths /\ p \in scanned
        /\ p \notin Range(files') /\ Range(files) = {p} \cup Range(files')
        /\ \A r \in plan : r.path # p
        /\ Candidate.path = p /\ Candidate.live /\ Candidate.text = probe.text
        /\ probe' = Fresh
        /\ source' = source /\ active' = active /\ pc' = pc /\ scanned' = scanned
        /\ seen' = seen /\ result'.kind = result.kind /\ Migrates' = Migrates
    BY <1>0, ClassifyFacts
  <1>2. PICK f \in seen[p] : f # NoFile /\ f.text = probe.text
    BY <1>0, ClassifyMeaning
  <1>3. \/ plan' = plan \cup {Candidate} /\ (~ Migrates => Differs(p))
        \/ /\ plan' = plan /\ ~ Migrates /\ p \in CurrentPaths
           /\ Lookup(active, p).text = probe.text
    BY <1>0, ClassifyMeaning
  <1>4. Updating /\ Updating'
    BY <1>1 DEF Publications, Stages, Updating
  <1>5. Done' = Done \cup {p}
    BY <1>1 DEF Done
  <1>6. CurrentPaths' = CurrentPaths /\ \A q : Lookup(active, q)' = Lookup(active, q)
    BY <1>1, Unchanged
  <1>7. TextOf(f) = probe.text
    BY <1>2, TextOfFacts
  <1>8. \A q : Differs(q)' = Differs(q)
    BY <1>1, <1>6 DEF Differs
  <1>9. ASSUME NEW q \in Done PROVE Faithful(q)' /\ Shown(q)'
    <2>1. q # p
      BY <1>1 DEF Done
    <2>2. \A r : r.path = q => (r \in plan' <=> r \in plan)
      BY <1>1, <1>3, <2>1
    <2>3. Planned(q)' = Planned(q)
      BY <2>2 DEF Planned
    <2>4. Faithful(q) /\ Shown(q)
      BY <1>4 DEF Updates
    <2>5. Faithful(q)'
      BY <1>1, <1>6, <2>2, <2>3, <2>4 DEF Faithful
    <2>6. Shown(q)'
      BY <1>1, <1>6, <2>2, <2>3, <2>4 DEF Shown
    <2>. QED
      BY <2>5, <2>6
  <1>10. Faithful(p)' /\ Shown(p)'
    <2>1. CASE plan' = plan \cup {Candidate}
      <3>1. /\ \A r \in plan' : r.path = p => r = Candidate
            /\ Candidate \in plan'
        BY <1>1, <2>1
      <3>2. Planned(p)'
        BY <1>1, <3>1 DEF Planned
      <3>. QED
        BY <1>1, <1>2, <1>7, <3>1, <3>2 DEF Faithful, Shown
    <2>2. CASE /\ plan' = plan /\ ~ Migrates /\ p \in CurrentPaths
               /\ Lookup(active, p).text = probe.text
      <3>1. ~ Planned(p)' /\ \A r \in plan' : r.path # p
        BY <1>1, <2>2 DEF Planned
      <3>2. Faithful(p)'
        BY <1>1, <1>2, <1>6, <1>7, <2>2, <3>1 DEF Faithful
      <3>3. Shown(p)'
        BY <1>1, <1>6, <2>2, <3>1 DEF Shown
      <3>. QED
        BY <3>2, <3>3
    <2>. QED
      BY <1>3, <2>1, <2>2
  <1>11. Migrates' \/ \A r \in plan' : Differs(r.path)'
    BY <1>1, <1>3, <1>4, <1>8 DEF Updates
  <1>12. Probed'
    BY <1>1 DEF Probed, Fresh
  <1>13. /\ \A q \in Paths : source'[q] \in seen'[q]
         /\ \A q \in Paths \ scanned' : NoFile \in seen'[q]
    <2>1. /\ \A q \in Paths : source[q] \in seen[q]
          /\ \A q \in Paths \ scanned : NoFile \in seen[q]
      BY <1>4 DEF Updates
    <2>. QED
      BY <1>1, <2>1
  <1>14. \A q \in Done' : Faithful(q)' /\ Shown(q)'
    BY <1>5, <1>9, <1>10
  <1>. QED
    BY <1>1, <1>11, <1>12, <1>13, <1>14 DEF Updates

LEMMA UpdatesRemovals ==
  ASSUME Publications, Updates, PlanRemovals
  PROVE  Updates'
  <1> DEFINE records == plan \cup Tombstones
  <1>1. CASE Ends("unchanged")
    BY <1>1 DEF Ends, Updates, Updating
  <1>2. CASE Builds(records) /\ (Migrates \/ records # {})
             /\ result' = [result EXCEPT !.removed = Removed]
             /\ files' = files /\ scanned' = scanned /\ probe' = probe /\ seen' = seen
    <2>1. /\ source' = source /\ active' = active /\ pc = "fingerprint" /\ Range(files) = {}
          /\ Gone \in SUBSET Paths
          /\ \A r \in Tombstones : /\ ~ r.live /\ r.path \in Gone /\ r.path \in Paths
                                   /\ r.path \notin scanned /\ r.text = NoText
          /\ ~ Migrates => \A p \in Gone : \E r \in Tombstones : r.path = p
      BY RemovalFacts
    <2>2. pc' = "parse" /\ plan' = records
      BY <1>2 DEF Builds
    <2>3. result'.kind = result.kind
      BY <1>2 DEF Publications, Typed, Results
    <2>4. /\ Migrates' = Migrates /\ CurrentPaths' = CurrentPaths
          /\ \A q : Lookup(active, q)' = Lookup(active, q)
      BY <2>1, <2>3, Unchanged
    <2>5. Updating
      BY <2>1 DEF Publications, Stages, Updating
    <2>6. Done = scanned /\ Done' = scanned
      BY <1>2, <2>1 DEF Done
    <2>7. \A q : Differs(q)' = Differs(q)
      BY <1>2, <2>4 DEF Differs
    <2>8. Probed'
      <3>1. Probed
        BY <2>5 DEF Updates
      <3>. QED
        BY <1>2, <3>1 DEF Probed
    <2>9. /\ \A r \in plan : r.path \in scanned
          /\ Migrates => Tombstones = {}
      BY <2>1 DEF Publications, Plans, Tombstones
    <2>10. \A q \in Paths \ scanned : NoFile \in seen[q]
      BY <2>5 DEF Updates
    <2> HIDE DEF records
    <2>11. ASSUME NEW q \in scanned PROVE Faithful(q)' /\ Shown(q)'
      <3>1. \A r : r.path = q => (r \in plan' <=> r \in plan)
        BY <2>1, <2>2 DEF records
      <3>2. Planned(q)' = Planned(q)
        BY <3>1 DEF Planned
      <3>3. Faithful(q) /\ Shown(q)
        BY <2>5, <2>6 DEF Updates
      <3>4. Faithful(q)'
        BY <1>2, <2>4, <3>1, <3>2, <3>3 DEF Faithful
      <3>5. Shown(q)'
        BY <2>4, <3>1, <3>2, <3>3 DEF Shown
      <3>. QED
        BY <3>4, <3>5
    <2>12. ASSUME NEW q \in Paths \ scanned PROVE Faithful(q)' /\ ~ Shown(q)'
      <3>1. \A r \in plan' : r.path = q => r.text = NoText /\ ~ r.live
        BY <2>1, <2>2, <2>9 DEF records
      <3>2. TextOf(NoFile) = NoText /\ NoFile \in seen'[q]
        BY <1>2, <2>10, TextOfFacts
      <3>3. ~ Planned(q)' /\ ~ Migrates =>
              q \notin CurrentPaths /\ Lookup(active, q).text = NoText
        <4>1. ~ Planned(q)' /\ ~ Migrates => q \notin Gone
          BY <2>1, <2>2 DEF Planned, records
        <4>2. q \notin Gone => q \notin CurrentPaths
          BY DEF Gone
        <4>3. q \notin CurrentPaths => Lookup(active, q) = Tombstone(q)
          BY CurrentFacts DEF Publications, Typed
        <4>. QED
          BY <4>1, <4>2, <4>3 DEF Tombstone
      <3>4. Faithful(q)'
        BY <2>4, <3>1, <3>2, <3>3 DEF Faithful
      <3>5. ~ Shown(q)'
        BY <2>4, <3>1, <3>3 DEF Shown
      <3>. QED
        BY <3>4, <3>5
    <2>13. ASSUME ~ Migrates PROVE \A r \in plan' : Differs(r.path)'
      <3>1. \A r \in plan : Differs(r.path)
        BY <2>5, <2>13 DEF Updates
      <3>2. ASSUME NEW r \in Tombstones PROVE Differs(r.path)
        BY <2>1, <2>10, <3>2 DEF Differs, Gone
      <3>. QED
        BY <2>2, <2>7, <3>1, <3>2 DEF records
    <2>14. ~ Migrates => plan' # {}
      BY <1>2, <2>2
    <2>. QED
      BY <1>2, <2>1, <2>4, <2>5, <2>6, <2>8, <2>10, <2>11, <2>12, <2>13, <2>14 DEF Updates
  <1>. QED
    BY <1>1, <1>2, RemovalFacts

LEMMA UpdatesEdit ==
  ASSUME Publications, Updates, NEW p \in Paths, Edit(p)
  PROVE  Updates'
  <1>1. /\ active' = active /\ pc' = pc /\ files' = files /\ scanned' = scanned
        /\ probe' = probe /\ plan' = plan /\ result' = result
    BY DEF Edit, operation
  <1> SUFFICES ASSUME Updating PROVE Updates'
    BY <1>1 DEF Updates, Updating
  <1>2. PICK g : /\ source' = [source EXCEPT ![p] = g]
                 /\ seen' = [seen EXCEPT ![p] = @ \cup {g}]
    BY DEF Edit, Updating
  <1>3. /\ source \in [Paths -> Files \cup {NoFile}]
        /\ seen \in [Paths -> SUBSET (Files \cup {NoFile})]
    BY DEF Publications, Typed
  <1>4. /\ seen'[p] = seen[p] \cup {g} /\ source'[p] = g
        /\ \A q \in Paths \ {p} : seen'[q] = seen[q] /\ source'[q] = source[q]
    BY <1>2, <1>3
  <1>5. \A q \in Paths : seen[q] \subseteq seen'[q]
    BY <1>4
  <1>6. /\ Migrates' = Migrates /\ CurrentPaths' = CurrentPaths
        /\ \A q : Lookup(active, q)' = Lookup(active, q)
    BY <1>1, Unchanged
  <1>7. /\ Done' = Done /\ \A q : Planned(q)' = Planned(q)
    BY <1>1 DEF Done, Planned
  <1>8. \A q \in Paths : Faithful(q) => Faithful(q)'
    BY <1>1, <1>5, <1>6, <1>7 DEF Faithful
  <1>9. \A q : Shown(q)' = Shown(q)
    BY <1>1, <1>6, <1>7 DEF Shown
  <1>10. \A q \in Paths : Differs(q) => Differs(q)'
    BY <1>5, <1>6 DEF Differs
  <1>11. Done \subseteq Paths /\ \A r \in plan : r.path \in Paths
    BY DEF Publications, Typed, Done, Records
  <1>12. Probed'
    <2>1. Probed
      BY DEF Updates
    <2>2. files # <<>> => Head(files) \in Paths
      BY TailFacts DEF Publications, Typed
    <2>. QED
      BY <1>1, <1>5, <2>1, <2>2 DEF Probed
  <1>13. \A q \in Paths : source'[q] \in seen'[q]
    <2>1. \A q \in Paths : source[q] \in seen[q]
      BY DEF Updates
    <2>. QED
      BY <1>4, <2>1
  <1>14. \A q \in Paths \ scanned' : NoFile \in seen'[q]
    <2>1. \A q \in Paths \ scanned : NoFile \in seen[q]
      BY DEF Updates
    <2>. QED
      BY <1>1, <1>5, <2>1
  <1>15. \A q \in Done' : Faithful(q)' /\ Shown(q)'
    <2>1. \A q \in Done : Faithful(q) /\ Shown(q)
      BY DEF Updates
    <2>. QED
      BY <1>7, <1>8, <1>9, <1>11, <2>1
  <1>16. ~ Migrates' => \A r \in plan' : Differs(r.path)'
    <2>1. ~ Migrates => \A r \in plan : Differs(r.path)
      BY DEF Updates
    <2>. QED
      BY <1>1, <1>6, <1>10, <1>11, <2>1
  <1>17. pc' # "fingerprint" =>
           /\ \A q \in Paths \ scanned' : Faithful(q)' /\ ~ Shown(q)'
           /\ ~ Migrates' => plan' # {}
    <2>1. pc # "fingerprint" =>
            /\ \A q \in Paths \ scanned : Faithful(q) /\ ~ Shown(q)
            /\ ~ Migrates => plan # {}
      BY DEF Updates
    <2>. QED
      BY <1>1, <1>6, <1>8, <1>9, <2>1
  <1>. QED
    BY <1>12, <1>13, <1>14, <1>15, <1>16, <1>17 DEF Updates

\* No update is running after the step.
LEMMA UpdatesIdle ==
  ASSUME pc' = "idle" \/ result'.kind # "update"
  PROVE  Updates'
  BY DEF Updates, Updating

LEMMA NextUpdates ==
  ASSUME Publications, Updates, [Next]_vars
  PROVE  Updates'
  <1>1. CASE BeginUpdate
    BY <1>1, UpdatesBegins
  <1>2. CASE BeginCompact
    <2>1. result'.kind = "compact"
      BY <1>2 DEF BeginCompact, NoResult
    <2>. QED
      BY <2>1, UpdatesIdle
  <1>3. ASSUME NEW matches \in SUBSET Paths, BeginRemove(matches) PROVE Updates'
    <2>1. result'.kind = "remove"
      BY <1>3 DEF BeginRemove, NoResult
    <2>. QED
      BY <2>1, UpdatesIdle
  <1>4. CASE Fingerprint
    BY <1>4, UpdatesFingerprint
  <1>5. CASE FingerprintFails \/ CommitFails \/ Fails \/ Publish
    <2>1. pc' = "idle"
      BY <1>5 DEF FingerprintFails, CommitFails, Fails, Publish, Throws, Ends
    <2>. QED
      BY <2>1, UpdatesIdle
  <1>6. CASE Classify
    BY <1>6, UpdatesClassify
  <1>7. CASE PlanRemovals
    BY <1>7, UpdatesRemovals
  <1>8. ASSUME NEW i \in DOMAIN tasks, Parse(i) PROVE Updates'
    BY <1>8, UpdatesSame DEF Parse
  <1>9. CASE Commit
    BY <1>9, UpdatesSame DEF Commit
  <1>10. CASE PublishDelta
    <2>1. /\ pc = "parse" /\ pc' = "publish" /\ source' = source /\ active' = active
          /\ files' = files /\ scanned' = scanned /\ probe' = probe /\ plan' = plan
          /\ seen' = seen
      BY <1>10 DEF PublishDelta, Replace, AppendDelta, AutoCompact, AutoCompactFails,
                   Publishing
    <2>2. result'.kind = result.kind
      BY <1>10 DEF PublishDelta, Replace, AppendDelta, AutoCompact, AutoCompactFails,
                   Publications, Typed, Results
    <2>. QED
      BY <2>1, <2>2, UpdatesSame
  <1>11. ASSUME NEW p \in Paths, Edit(p) PROVE Updates'
    BY <1>11, UpdatesEdit
  <1>12. CASE vars' = vars
    BY <1>12, UpdatesSame DEF vars, operation
  <1>. QED
    BY <1>1, <1>2, <1>3, <1>4, <1>5, <1>6, <1>7, <1>8, <1>9, <1>10, <1>11, <1>12
    DEF Next, Proceeds

\* What an update knows while it runs: of every path that it has dealt with, the
\* plan (or the index, for a path that is not planned) holds a text that the path
\* held at some time of the update, and every planned path was seen to differ
\* from its record.
THEOREM UpdatesHold == Spec => []Updates
  <1>1. Init => Updates
    BY DEF Init, Updates, Updating
  <1>2. Publications /\ Updates /\ [Next]_vars => Updates'
    BY NextUpdates
  <1>. QED
    BY <1>1, <1>2, PublicationsHold, PTL DEF Spec

-----------------------------------------------------------------------------
(* What an update leaves. *)

\* A complete delta shows its plan, and nothing else.
LEMMA DeltaFound ==
  ASSUME Publications, pc = "publish", result.kind # "compact"
  PROVE  /\ \A p : Has(delta, p) <=> Planned(p)
         /\ \A r \in plan : Lookup(<<delta>>, r.path) = r
         /\ \A p : ~ Planned(p) => Lookup(<<delta>>, p) = Tombstone(p)
  <1>1. /\ Len(tasks) \in Nat /\ DOMAIN tasks = 1 .. Len(tasks)
        /\ DOMAIN delta = 1 .. Len(delta)
        /\ \A i \in DOMAIN tasks : Record(i) \in plan /\ Record(i) \in Records
        /\ \A i, j \in DOMAIN tasks : Record(i).path = Record(j).path => i = j
        /\ \A r \in plan : \E i \in DOMAIN tasks : Record(i) = r
        /\ \A k \in DOMAIN delta : k \in DOMAIN tasks /\ delta[k] = Record(k)
    BY DeltaFacts
  <1>2. Len(delta) = Len(tasks) /\ delta \in Seq(Records)
    BY DEF Publications, Typed, Deltas
  <1>3. \A k \in DOMAIN delta : delta[k] \in plan /\ delta[k] \in Records
    BY <1>1
  <1>4. \A k, l \in DOMAIN delta : delta[k].path = delta[l].path => k = l
    BY <1>1
  <1>5. \A r \in plan : \E k \in DOMAIN delta : delta[k] = r
    <2>1. DOMAIN delta = DOMAIN tasks
      BY <1>1, <1>2
    <2>. QED
      BY <1>1, <2>1
  <1>6. \A p : Lookup(<<delta>>, p) = Found(delta, p)
    BY <1>2, LookupOne
  <1>7. \A p : Has(delta, p) <=> Planned(p)
    BY <1>3, <1>5 DEF Has, Planned
  <1>8. ASSUME NEW r \in plan PROVE Found(delta, r.path) = r
    <2>1. PICK k \in DOMAIN delta : delta[k] = r
      BY <1>5
    <2>2. r \in Records
      BY <1>3, <2>1
    <2>3. CASE r.live
      <3>1. \A j \in k + 1 .. Len(delta) : j \in DOMAIN delta /\ j # k
        BY <1>1, <1>2, <2>1
      <3>2. Top(delta, r.path, k)
        BY <1>4, <2>1, <2>3, <3>1 DEF Top
      <3>. QED
        BY <1>2, <2>1, <3>2, FoundTop
    <2>4. CASE ~ r.live
      <3>1. \A i : ~ Top(delta, r.path, i)
        BY <1>4, <2>1, <2>4 DEF Top
      <3>2. Found(delta, r.path) = Tombstone(r.path)
        BY <1>2, <3>1, FoundTop
      <3>. QED
        BY <2>2, <2>4, <3>2 DEF Records
    <2>. QED
      BY <2>3, <2>4
  <1>9. ASSUME NEW p, ~ Planned(p) PROVE Found(delta, p) = Tombstone(p)
    <2>1. \A i : ~ Top(delta, p, i)
      BY <1>7, <1>9 DEF Top, Has
    <2>. QED
      BY <1>2, <2>1, FoundTop
  <1>. QED
    BY <1>6, <1>7, <1>8, <1>9

LEMMA EndsOutcome ==
  ASSUME NEW o, Ends(o)
  PROVE  result'.outcome = o /\ pc' = "idle"
  BY DEF Ends, NoResult

\* The two ways in which an update succeeds.
LEMMA SuccessFacts ==
  ASSUME Publications, [Next]_vars, UpdateEnds, Succeeds
  PROVE  \/ /\ Publish /\ pc = "publish" /\ active' = target
            /\ result'.outcome = "published"
         \/ /\ PlanRemovals /\ active' = active /\ result'.outcome = "unchanged"
            /\ ~ Migrates /\ plan \cup Tombstones = {}
  <1>1. /\ result.kind = "update" /\ pc # "idle" /\ pc' = "idle"
        /\ result'.outcome \in {"published", "unchanged"}
    BY DEF UpdateEnds, Succeeds
  <1>2. ~ BeginUpdate /\ ~ BeginCompact /\ \A matches \in SUBSET Paths : ~ BeginRemove(matches)
    BY <1>1 DEF BeginUpdate, BeginCompact, BeginRemove, Starts
  <1>3. ~ Throws
    BY <1>1, EndsOutcome DEF Throws
  <1>4. ~ FingerprintFails /\ ~ CommitFails /\ ~ Fails
    BY <1>3 DEF FingerprintFails, CommitFails, Fails
  <1>5. ~ Fingerprint /\ ~ Classify /\ ~ Commit /\ \A i \in DOMAIN tasks : ~ Parse(i)
    BY <1>1 DEF Fingerprint, Classify, Commit, Parse
  <1>6. ~ PublishDelta
    BY <1>1 DEF PublishDelta, Replace, AppendDelta, AutoCompact, AutoCompactFails, Publishing
  <1>7. \A p \in Paths : ~ Edit(p)
    BY <1>1 DEF Edit, operation
  <1>8. vars' # vars
    BY <1>1 DEF vars, operation
  <1>9. CASE Publish
    BY <1>9, EndsOutcome DEF Publish
  <1>10. CASE PlanRemovals
    <2>1. ~ Builds(plan \cup Tombstones)
      BY <1>1 DEF Builds
    <2>. QED
      BY <1>10, <2>1, RemovalFacts, EndsOutcome
  <1>. QED
    BY <1>2, <1>4, <1>5, <1>6, <1>7, <1>8, <1>9, <1>10 DEF Next, Proceeds

\* UpdateReflectsSource: when an update succeeds, what the index holds of every
\* path, whether it was parsed again, left alone, removed or never there, is what
\* the path held at some time of the update, however the files changed meanwhile.
THEOREM UpdateIsFaithful == Spec => UpdateReflectsSource
  <1>1. Publications /\ Updates /\ [Next]_vars =>
          (UpdateEnds /\ Succeeds =>
             \A p \in Paths : Lookup(active', p).text \in {TextOf(f) : f \in seen[p]})
    <2> SUFFICES ASSUME Publications, Updates, [Next]_vars, UpdateEnds, Succeeds,
                        NEW p \in Paths
                 PROVE  \E f \in seen[p] : TextOf(f) = Lookup(active', p).text
      OBVIOUS
    <2>1. Updating
      BY DEF UpdateEnds, Updating
    <2>2. CASE Publish /\ pc = "publish" /\ active' = target
      <3>1. result.kind # "compact" /\ files = <<>>
        BY <2>1, <2>2 DEF Updating, Publications, Stages
      <3>2. Done = scanned
        BY <3>1, NothingListed DEF Done
      <3>3. Faithful(p)
        BY <2>1, <2>2, <3>2 DEF Updates
      <3>4. Lookup(target, p) = IF Migrates \/ Has(delta, p) THEN Lookup(<<delta>>, p)
                                ELSE Lookup(active, p)
        BY <2>2, <3>1, TargetLookup
      <3>5. /\ Has(delta, p) <=> Planned(p)
            /\ \A r \in plan : Lookup(<<delta>>, r.path) = r
            /\ ~ Planned(p) => Lookup(<<delta>>, p) = Tombstone(p)
        BY <2>2, <3>1, DeltaFound
      <3>6. CASE Planned(p)
        <4>1. PICK r \in plan : r.path = p
          BY <3>6 DEF Planned
        <4>2. Lookup(target, p) = r
          BY <3>4, <3>5, <3>6, <4>1
        <4>. QED
          BY <2>2, <3>3, <4>1, <4>2 DEF Faithful
      <3>7. CASE ~ Planned(p)
        <4>1. Lookup(target, p).text = IF Migrates THEN NoText ELSE Lookup(active, p).text
          BY <3>4, <3>5, <3>7 DEF Tombstone
        <4>. QED
          BY <2>2, <3>3, <3>7, <4>1 DEF Faithful
      <3>. QED
        BY <3>6, <3>7
    <2>3. CASE PlanRemovals /\ active' = active /\ ~ Migrates /\ plan \cup Tombstones = {}
      <3>1. /\ Range(files) = {}
            /\ ~ Migrates => \A q \in Gone : \E r \in Tombstones : r.path = q
        BY <2>3, RemovalFacts
      <3>2. Done = scanned /\ Gone = {} /\ ~ Planned(p)
        BY <2>3, <3>1 DEF Done, Planned
      <3>3. CASE p \in scanned
        <4>1. Faithful(p)
          BY <2>1, <3>2, <3>3 DEF Updates
        <4>. QED
          BY <2>3, <3>2, <4>1 DEF Faithful
      <3>4. CASE p \notin scanned
        <4>1. NoFile \in seen[p]
          BY <2>1, <3>4 DEF Updates
        <4>2. p \notin CurrentPaths
          BY <3>2, <3>4 DEF Gone
        <4>3. Lookup(active, p) = Tombstone(p)
          BY <4>2, CurrentFacts DEF Publications, Typed
        <4>4. Lookup(active, p).text = TextOf(NoFile)
          BY <4>3, TextOfFacts DEF Tombstone
        <4>. QED
          BY <2>3, <4>1, <4>4
      <3>. QED
        BY <3>3, <3>4
    <2>. QED
      BY <2>2, <2>3, SuccessFacts
  <1>. QED
    BY <1>1, PublicationsHold, UpdatesHold, PTL DEF Spec, UpdateReflectsSource

\* QuietWhenUnchanged: an update that does not rewrite the index publishes only
\* because some path was seen to differ from its record; an update of files that
\* are all as recorded publishes nothing.
THEOREM UpdateIsQuiet == Spec => QuietWhenUnchanged
  <1>1. Publications /\ Updates /\ [Next]_vars =>
          (UpdateEnds /\ result'.outcome = "published" /\ ~ Migrates =>
             \E p \in Paths : \E f \in seen[p] :
               IF f = NoFile THEN p \in CurrentPaths
               ELSE p \notin CurrentPaths \/ Lookup(active, p) # Live(p, Metadata(f), f.text, f.text))
    <2> SUFFICES ASSUME Publications, Updates, [Next]_vars, UpdateEnds,
                        result'.outcome = "published", ~ Migrates
                 PROVE  \E p \in Paths : Differs(p)
      BY DEF Differs
    <2>1. Updating
      BY DEF UpdateEnds, Updating
    <2>2. pc = "publish"
      BY SuccessFacts DEF Succeeds
    <2>3. plan # {} /\ \A r \in plan : Differs(r.path)
      BY <2>1, <2>2 DEF Updates
    <2>4. \A r \in plan : r.path \in Paths
      BY DEF Publications, Typed, Records
    <2>. QED
      BY <2>3, <2>4
  <1>. QED
    BY <1>1, PublicationsHold, UpdatesHold, PTL DEF Spec, QuietWhenUnchanged

-----------------------------------------------------------------------------
(* The counts. *)

\* A step that leaves alone what Counts is about keeps it.
LEMMA CountsSame ==
  ASSUME Counts, active' = active, scanned' = scanned, files' = files, plan' = plan,
         result'.kind = result.kind, result'.added = result.added,
         result'.modified = result.modified, result'.removed = result.removed,
         result'.unchanged = result.unchanged,
         pc' = pc \/ (pc = "parse" /\ pc' = "publish")
  PROVE  Counts'
  <1>1. CurrentPaths' = CurrentPaths /\ Updating' = Updating
    BY Unchanged DEF Updating
  <1>2. Done' = Done /\ Gone' = Gone
    BY <1>1 DEF Done, Gone
  <1>. QED
    BY <1>1, <1>2 DEF Counts

\* No operation that counts is running after the step.
LEMMA CountsIdle ==
  ASSUME pc' = "idle" \/ result'.kind \notin {"update", "remove"}
  PROVE  Counts'
  BY DEF Counts, Updating

LEMMA NoCounts ==
  NoResult.added = 0 /\ NoResult.modified = 0 /\ NoResult.unchanged = 0
  BY DEF NoResult

LEMMA CountsBegin ==
  ASSUME Publications, BeginUpdate
  PROVE  Counts'
  <1>1. /\ scanned' = Range(files') /\ pc' = "fingerprint"
        /\ result' = [NoResult EXCEPT !.kind = "update"]
    BY DEF BeginUpdate
  <1>2. /\ result'.added = 0 /\ result'.modified = 0 /\ result'.unchanged = 0
        /\ result'.kind = "update"
    BY <1>1 DEF NoResult
  <1>3. Done' = {} /\ (Done \ CurrentPaths)' = {}
    BY <1>1 DEF Done
  <1>4. Cardinality({}) = 0
    BY FS_EmptySet
  <1>. QED
    BY <1>1, <1>2, <1>3, <1>4 DEF Counts

LEMMA CountsRemove ==
  ASSUME Publications, NEW matches \in SUBSET Paths, BeginRemove(matches)
  PROVE  Counts'
  <1> DEFINE gone == matches \cap CurrentPaths
  <1>1. CASE gone # {}
    <2>1. /\ plan' = {Tombstone(p) : p \in gone}
          /\ result' = [NoResult EXCEPT !.kind = "remove", !.removed = Cardinality(gone)]
          /\ active' = active
      BY <1>1 DEF BeginRemove, Builds, Starts
    <2>2. gone \in SUBSET Paths /\ \A p \in gone : p \in CurrentPaths
      OBVIOUS
    <2> HIDE DEF gone
    <2>3. /\ \A r \in plan' : ~ r.live /\ r.path \in gone
          /\ {r.path : r \in plan'} = gone
      BY <2>1, <2>2, TombstonesOf
    <2>4. result'.kind = "remove" /\ result'.added = 0 /\ result'.removed = Cardinality(gone)
      BY <2>1 DEF NoResult
    <2>5. CurrentPaths' = CurrentPaths
      BY <2>1, Unchanged
    <2>. QED
      BY <2>2, <2>3, <2>4, <2>5 DEF Counts, Updating
  <1>2. CASE gone = {}
    <2>1. pc' = "idle"
      BY <1>2 DEF BeginRemove, Starts
    <2>. QED
      BY <2>1, CountsIdle
  <1>. QED
    BY <1>1, <1>2

LEMMA CountsClassify ==
  ASSUME Publications, Counts, Classify
  PROVE  Counts'
  <1>0. PICK p : p = Head(files)
    OBVIOUS
  <1>1. /\ pc = "fingerprint" /\ p \in Paths /\ p \in scanned
        /\ p \notin Range(files') /\ Range(files) = {p} \cup Range(files')
        /\ active' = active /\ pc' = pc /\ scanned' = scanned
        /\ result'.kind = result.kind
    BY <1>0, ClassifyFacts
  <1>2. result.kind = "update" /\ result \in Results /\ scanned \subseteq Paths
    BY <1>1 DEF Publications, Typed, Stages
  <1>3. Done' = Done \cup {p} /\ p \notin Done /\ Done \subseteq Paths
    BY <1>1, <1>2 DEF Done
  <1>4. CurrentPaths' = CurrentPaths
    BY <1>1, Unchanged
  <1>5. /\ result.added = Cardinality(Done \ CurrentPaths)
        /\ result.added + result.modified + result.unchanged = Cardinality(Done)
    BY <1>1, <1>2 DEF Counts, Updating
  <1>6. /\ p \notin CurrentPaths => result' = [result EXCEPT !.added = @ + 1]
        /\ p \in CurrentPaths => result' \in {[result EXCEPT !.modified = @ + 1],
                                              [result EXCEPT !.unchanged = @ + 1]}
    BY <1>0 DEF Classify
  <1>7. /\ result.added \in Nat /\ result.modified \in Nat /\ result.unchanged \in Nat
        /\ p \notin CurrentPaths =>
             /\ result'.added = result.added + 1 /\ result'.modified = result.modified
             /\ result'.unchanged = result.unchanged
        /\ p \in CurrentPaths =>
             /\ result'.added = result.added
             /\ result'.modified + result'.unchanged = result.modified + result.unchanged + 1
             /\ result'.modified \in Nat /\ result'.unchanged \in Nat
    BY <1>2, <1>6 DEF Results
  <1>8. IsFiniteSet(Done) /\ IsFiniteSet(Done \ CurrentPaths)
    BY <1>3, PathsFinite, FS_Subset
  <1>9. Cardinality(Done') = Cardinality(Done) + 1
    BY <1>3, <1>8, FS_AddElement
  <1>10. Cardinality(Done' \ CurrentPaths) =
           IF p \in CurrentPaths THEN Cardinality(Done \ CurrentPaths)
           ELSE Cardinality(Done \ CurrentPaths) + 1
    <2>1. CASE p \in CurrentPaths
      <3>1. Done' \ CurrentPaths = Done \ CurrentPaths
        BY <1>3, <2>1
      <3>. QED
        BY <2>1, <3>1
    <2>2. CASE p \notin CurrentPaths
      <3> DEFINE S == Done \ CurrentPaths
      <3>1. Done' \ CurrentPaths = S \cup {p} /\ p \notin S
        BY <1>3, <2>2
      <3> HIDE DEF S
      <3>2. Cardinality(S \cup {p}) = Cardinality(S) + 1
        BY <1>8, <3>1, FS_AddElement DEF S
      <3>. QED
        BY <2>2, <3>1, <3>2 DEF S
    <2>. QED
      BY <2>1, <2>2
  <1>11. result'.added = Cardinality(Done' \ CurrentPaths)
    BY <1>5, <1>7, <1>10
  <1>12. result'.added + result'.modified + result'.unchanged = Cardinality(Done')
    BY <1>5, <1>7, <1>9
  <1>. QED
    BY <1>1, <1>2, <1>4, <1>11, <1>12 DEF Counts

LEMMA CountsRemovals ==
  ASSUME Publications, Counts, PlanRemovals
  PROVE  Counts'
  <1>1. CASE Ends("unchanged")
    BY <1>1, CountsIdle DEF Ends
  <1>2. CASE /\ result' = [result EXCEPT !.removed = Removed]
             /\ files' = files /\ scanned' = scanned
    <2>1. active' = active /\ pc = "fingerprint"
      BY RemovalFacts
    <2>2. result.kind = "update" /\ result \in Results
      BY <2>1 DEF Publications, Typed, Stages
    <2>3. /\ result'.kind = result.kind /\ result'.added = result.added
          /\ result'.modified = result.modified /\ result'.unchanged = result.unchanged
          /\ result'.removed = Cardinality(Gone)
      BY <1>2, <2>2 DEF Results, Removed
    <2>4. CurrentPaths' = CurrentPaths
      BY <2>1, Unchanged
    <2>5. Done' = Done /\ Gone' = Gone
      BY <1>2, <2>4 DEF Done, Gone
    <2>6. /\ result.added = Cardinality(Done \ CurrentPaths)
          /\ result.added + result.modified + result.unchanged = Cardinality(Done)
      BY <2>1, <2>2 DEF Counts, Updating
    <2>. QED
      BY <2>2, <2>3, <2>4, <2>5, <2>6 DEF Counts
  <1>. QED
    BY <1>1, <1>2, RemovalFacts

LEMMA CountsPublishDelta ==
  ASSUME Publications, Counts, PublishDelta
  PROVE  Counts'
  <1>1. /\ pc = "parse" /\ pc' = "publish" /\ active' = active
        /\ files' = files /\ scanned' = scanned /\ plan' = plan
    BY DEF PublishDelta, Replace, AppendDelta, AutoCompact, AutoCompactFails, Publishing
  <1>2. result \in Results
    BY DEF Publications, Typed
  <1> DEFINE d == Discarded(PhysicalCount(active) + Len(delta), Resolve(CompactionInputs))
  <1>3. result' \in {result, [result EXCEPT !.compacted = TRUE],
                     [result EXCEPT !.degraded = TRUE],
                     [result EXCEPT !.compacted = TRUE, !.discarded = d],
                     [result EXCEPT !.degraded = TRUE, !.discarded = d]}
    BY DEF PublishDelta, Replace, AppendDelta, AutoCompact, AutoCompactFails
  <1> HIDE DEF d
  <1>4. /\ result'.kind = result.kind /\ result'.added = result.added
        /\ result'.modified = result.modified /\ result'.removed = result.removed
        /\ result'.unchanged = result.unchanged
    BY <1>2, <1>3 DEF Results
  <1>. QED
    BY <1>1, <1>4, CountsSame

LEMMA NextCounts ==
  ASSUME Publications, Counts, [Next]_vars
  PROVE  Counts'
  <1>1. CASE BeginUpdate
    BY <1>1, CountsBegin
  <1>2. CASE BeginCompact
    <2>1. result'.kind = "compact"
      BY <1>2 DEF BeginCompact, NoResult
    <2>. QED
      BY <2>1, CountsIdle
  <1>3. ASSUME NEW matches \in SUBSET Paths, BeginRemove(matches) PROVE Counts'
    BY <1>3, CountsRemove
  <1>4. CASE FingerprintFails \/ CommitFails \/ Fails \/ Publish
    <2>1. pc' = "idle"
      BY <1>4 DEF FingerprintFails, CommitFails, Fails, Publish, Throws, Ends
    <2>. QED
      BY <2>1, CountsIdle
  <1>5. CASE Classify
    BY <1>5, CountsClassify
  <1>6. CASE PlanRemovals
    BY <1>6, CountsRemovals
  <1>7. CASE Fingerprint \/ Commit
    BY <1>7, CountsSame DEF Fingerprint, Commit
  <1>8. ASSUME NEW i \in DOMAIN tasks, Parse(i) PROVE Counts'
    BY <1>8, CountsSame DEF Parse
  <1>9. CASE PublishDelta
    BY <1>9, CountsPublishDelta
  <1>10. ASSUME NEW p \in Paths, Edit(p) PROVE Counts'
    BY <1>10, CountsSame DEF Edit, operation
  <1>11. CASE vars' = vars
    BY <1>11, CountsSame DEF vars, operation
  <1>. QED
    BY <1>1, <1>2, <1>3, <1>4, <1>5, <1>6, <1>7, <1>8, <1>9, <1>10, <1>11
    DEF Next, Proceeds

LEMMA CountsHold == Spec => []Counts
  <1>1. Init => Counts
    BY DEF Init, Counts, Updating
  <1>2. Publications /\ Counts /\ [Next]_vars => Counts'
    BY NextCounts
  <1>. QED
    BY <1>1, <1>2, PublicationsHold, PTL DEF Spec

\* What the set A gains and loses when it becomes B.
LEMMA GainsAndLosses ==
  ASSUME NEW A, NEW B, IsFiniteSet(A), IsFiniteSet(B)
  PROVE  Cardinality(B) = Cardinality(A) + Cardinality(B \ A) - Cardinality(A \ B)
  <1>1. /\ Cardinality(A \ B) = Cardinality(A) - Cardinality(A \cap B)
        /\ Cardinality(B \ A) = Cardinality(B) - Cardinality(B \cap A)
    BY FS_Difference
  <1>2. A \cap B = B \cap A
    OBVIOUS
  <1>3. IsFiniteSet(A \cap B)
    BY FS_Intersection
  <1>4. /\ Cardinality(A) \in Nat /\ Cardinality(B) \in Nat /\ Cardinality(A \cap B) \in Nat
    BY <1>3, FS_CardinalityType
  <1> DEFINE a == Cardinality(A)
             b == Cardinality(B)
             c == Cardinality(A \cap B)
  <1>5. Cardinality(A \ B) = a - c /\ Cardinality(B \ A) = b - c
    BY <1>1, <1>2
  <1>6. a \in Nat /\ b \in Nat /\ c \in Nat
    BY <1>4
  <1> HIDE DEF a, b, c
  <1>7. b = a + (b - c) - (a - c)
    BY <1>6
  <1>. QED
    BY <1>5, <1>7 DEF a, b, c

LEMMA VisiblePaths ==
  ASSUME NEW S
  PROVE  VisibleCount(S) = Cardinality({p \in Paths : Lookup(S, p).live})
  <1>1. {p \in Paths : View(S)[p].live} = {p \in Paths : Lookup(S, p).live}
    BY DEF View
  <1>. QED
    BY <1>1 DEF VisibleCount

LEMMA VisibleNow ==
  ASSUME active \in Segments
  PROVE  VisibleCount(active) = Cardinality(CurrentPaths)
  <1>1. {p \in Paths : Lookup(active, p).live} = CurrentPaths
    BY CurrentFacts
  <1>. QED
    BY <1>1, VisiblePaths

\* The documents that the new Manifest will show.
LEMMA TargetShows ==
  ASSUME Publications, pc = "publish", result.kind # "compact", NEW p \in Paths
  PROVE  Lookup(target, p).live <=> Shown(p)
  <1>1. Lookup(target, p) = IF Migrates \/ Has(delta, p) THEN Lookup(<<delta>>, p)
                            ELSE Lookup(active, p)
    BY TargetLookup
  <1>2. /\ Has(delta, p) <=> Planned(p)
        /\ \A r \in plan : Lookup(<<delta>>, r.path) = r
        /\ ~ Planned(p) => Lookup(<<delta>>, p) = Tombstone(p)
    BY DeltaFound
  <1>3. CASE Planned(p)
    <2>1. PICK r \in plan : r.path = p
      BY <1>3 DEF Planned
    <2>2. Lookup(target, p) = r
      BY <1>1, <1>2, <1>3, <2>1
    <2>3. Shown(p) <=> r.live
      <3>1. \A q \in plan : q.path = p => q = r
        BY <2>1 DEF Publications, Typed, OnePerPath
      <3>. QED
        BY <1>3, <2>1, <3>1 DEF Shown
    <2>. QED
      BY <2>2, <2>3
  <1>4. CASE ~ Planned(p)
    <2>1. ~ Tombstone(p).live
      BY DEF Tombstone
    <2>2. p \in CurrentPaths <=> Lookup(active, p).live
      BY CurrentFacts DEF Publications, Typed
    <2>. QED
      BY <1>1, <1>2, <1>4, <2>1, <2>2 DEF Shown
  <1>. QED
    BY <1>3, <1>4

LEMMA VisibleThen ==
  ASSUME Publications, pc = "publish", result.kind # "compact"
  PROVE  VisibleCount(target) = Cardinality({p \in Paths : Shown(p)})
  <1>1. {p \in Paths : Lookup(target, p).live} = {p \in Paths : Shown(p)}
    BY TargetShows
  <1>. QED
    BY <1>1, VisiblePaths

LEMMA CountsUpdate ==
  ASSUME Publications, Updates, Counts, pc = "publish", result.kind = "update"
  PROVE  /\ VisibleCount(target) = VisibleCount(active) + result.added - result.removed
         /\ result.added + result.modified + result.unchanged = Cardinality(scanned)
  <1>1. Updating /\ files = <<>> /\ scanned \subseteq Paths
    BY DEF Updating, Publications, Stages, Typed
  <1>2. Done = scanned
    BY <1>1, NothingListed DEF Done
  <1>3. {p \in Paths : Shown(p)} = scanned
    BY <1>1, <1>2 DEF Updates
  <1>4. VisibleCount(target) = Cardinality(scanned)
    BY <1>3, VisibleThen
  <1>5. VisibleCount(active) = Cardinality(CurrentPaths)
    BY VisibleNow DEF Publications, Typed
  <1>6. /\ result.added = Cardinality(scanned \ CurrentPaths)
        /\ result.removed = Cardinality(CurrentPaths \ scanned)
        /\ result.added + result.modified + result.unchanged = Cardinality(scanned)
    BY <1>1, <1>2 DEF Counts, Gone
  <1>7. IsFiniteSet(scanned) /\ IsFiniteSet(CurrentPaths)
    BY <1>1, CurrentFacts, PathsFinite, FS_Subset DEF Publications, Typed
  <1>8. Cardinality(scanned) = Cardinality(CurrentPaths) + Cardinality(scanned \ CurrentPaths)
                                 - Cardinality(CurrentPaths \ scanned)
    BY <1>7, GainsAndLosses
  <1>. QED
    BY <1>4, <1>5, <1>6, <1>8

LEMMA CountsRemoval ==
  ASSUME Publications, Counts, pc = "publish", result.kind = "remove"
  PROVE  VisibleCount(target) = VisibleCount(active) + result.added - result.removed
  <1> DEFINE gone == {r.path : r \in plan}
  <1>1. /\ \A r \in plan : ~ r.live /\ r.path \in CurrentPaths
        /\ result.added = 0 /\ result.removed = Cardinality(gone)
    BY DEF Counts
  <1>2. ~ Migrates /\ CurrentPaths \subseteq Paths /\ active \in Segments
    BY CurrentFacts DEF Migrates, Publications, Typed
  <1>3. {p \in Paths : Shown(p)} = CurrentPaths \ gone
    <2>1. \A p : Planned(p) <=> p \in gone
      BY DEF Planned
    <2>2. \A p \in Paths : Shown(p) <=> p \in CurrentPaths \ gone
      BY <1>1, <1>2, <2>1 DEF Shown
    <2>. QED
      BY <1>2, <2>2
  <1>4. gone \subseteq CurrentPaths
    BY <1>1
  <1> HIDE DEF gone
  <1>5. IsFiniteSet(CurrentPaths)
    BY <1>2, PathsFinite, FS_Subset
  <1>6. IsFiniteSet(gone) /\ Cardinality(gone) \in Nat /\ Cardinality(CurrentPaths) \in Nat
    BY <1>4, <1>5, FS_Subset, FS_CardinalityType
  <1>7. CurrentPaths \cap gone = gone
    BY <1>4
  <1>8. Cardinality(CurrentPaths \ gone) = Cardinality(CurrentPaths) - Cardinality(gone)
    BY <1>5, <1>7, FS_Difference
  <1>9. /\ VisibleCount(target) = Cardinality(CurrentPaths \ gone)
        /\ VisibleCount(active) = Cardinality(CurrentPaths)
    BY <1>2, <1>3, VisibleThen, VisibleNow
  <1>. QED
    BY <1>1, <1>6, <1>8, <1>9

LEMMA CountsDiscarded ==
  ASSUME Publications, pc = "publish", result.compacted, ~ Migrates
  PROVE  PhysicalCount(target) + result.discarded =
           PhysicalCount(active) + (IF result.kind = "compact" THEN 0 ELSE Len(delta))
  <1>1. active \in Segments /\ delta \in Seq(Records)
    BY DEF Publications, Typed
  <1>2. PhysicalCount(active) \in Nat /\ Len(delta) \in Nat
    BY <1>1, PhysicalType, LenProperties
  <1>3. \A t \in Seq(Records) : PhysicalCount(<<t>>) = Len(t) /\ Len(t) \in Nat
    BY FlattenOne, LenProperties DEF PhysicalCount
  <1>4. CASE /\ result.kind = "compact" /\ target = <<Current>>
             /\ result.discarded = Discarded(PhysicalCount(active), Current)
    <2> DEFINE t == Current
    <2>1. t \in Seq(Records)
      BY <1>1, CurrentFacts
    <2> HIDE DEF t
    <2>2. PhysicalCount(<<t>>) = Len(t) /\ Len(t) \in Nat
      BY <1>3, <2>1
    <2>3. result.discarded = PhysicalCount(active) - Len(t) /\ target = <<t>>
      BY <1>4 DEF Discarded, t
    <2>. QED
      BY <1>2, <1>4, <2>2, <2>3
  <1>5. CASE /\ result.kind # "compact" /\ target = <<Resolve(CompactionInputs)>>
             /\ result.discarded = Discarded(PhysicalCount(active) + Len(delta),
                                             Resolve(CompactionInputs))
    <2> DEFINE t == Resolve(CompactionInputs)
    <2>1. t \in Seq(Records)
      <3>1. CompactionInputs \in Segments
        BY <1>1, LookupCompacted DEF CompactionInputs
      <3>. QED
        BY <3>1, ResolveClean
    <2> HIDE DEF t
    <2>2. PhysicalCount(<<t>>) = Len(t) /\ Len(t) \in Nat
      BY <1>3, <2>1
    <2>3. /\ target = <<t>>
          /\ result.discarded = Discarded(PhysicalCount(active) + Len(delta), t)
      BY <1>5 DEF t
    <2>4. result.discarded = (PhysicalCount(active) + Len(delta)) - Len(t)
      BY <2>3 DEF Discarded
    <2>. QED
      BY <1>2, <1>5, <2>2, <2>3, <2>4
  <1>. QED
    BY <1>4, <1>5 DEF Publications, Targets

\* CountsAddUp: the numbers an operation reports are those of what it did, for
\* update and remove (documents added and removed), update alone (every scanned
\* file is added, modified or unchanged) and every compaction (records left out).
THEOREM CountsAreTrue == Spec => CountsAddUp
  <1>1. Publications /\ Updates /\ Counts /\ [Next]_vars =>
          (active' # active =>
             /\ result.kind # "compact" =>
                  VisibleCount(active') = VisibleCount(active) + result.added - result.removed
             /\ result.kind = "update" =>
                  result.added + result.modified + result.unchanged = Cardinality(scanned)
             /\ result.compacted /\ ~ Migrates =>
                  PhysicalCount(active') + result.discarded =
                    PhysicalCount(active) + (IF result.kind = "compact" THEN 0 ELSE Len(delta)))
    <2> SUFFICES ASSUME Publications, Updates, Counts, [Next]_vars, active' # active
                 PROVE  /\ result.kind # "compact" =>
                             VisibleCount(active') =
                               VisibleCount(active) + result.added - result.removed
                        /\ result.kind = "update" =>
                             result.added + result.modified + result.unchanged
                               = Cardinality(scanned)
                        /\ result.compacted /\ ~ Migrates =>
                             PhysicalCount(active') + result.discarded =
                               PhysicalCount(active)
                                 + (IF result.kind = "compact" THEN 0 ELSE Len(delta))
      OBVIOUS
    <2>1. pc = "publish" /\ active' = target
      BY OnlyPublish
    <2>2. result.kind \in {"update", "remove", "compact"}
      BY <2>1 DEF Publications, Stages
    <2>3. VisibleCount(active') = VisibleCount(target)
          /\ PhysicalCount(active') = PhysicalCount(target)
      BY <2>1
    <2>. QED
      BY <2>1, <2>2, <2>3, CountsUpdate, CountsRemoval, CountsDiscarded
  <1>. QED
    BY <1>1, PublicationsHold, UpdatesHold, CountsHold, PTL DEF Spec, CountsAddUp
=============================================================================
