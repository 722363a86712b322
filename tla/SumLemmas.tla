------------------------------ MODULE SumLemmas ------------------------------
(***************************************************************************)
(* Lemmas about sums over finite sets, as the folds of the community       *)
(* modules compute them: one element after another, in an order left to    *)
(* CHOOSE.  A sum does not depend on the order; it changes by what one     *)
(* term changes; and folds over sequences add up.  Flattening a sequence   *)
(* of sequences is such a fold.                                            *)
(*                                                                         *)
(* Induction is by sets of naturals: a set that holds 0 and the successor  *)
(* of each of its members is all of Nat.  In the same way for sequences:   *)
(* a set that holds the empty one and every extension of its members.      *)
(* With it, a recursive function on sequences whose argument gets shorter  *)
(* is shown to exist and to be the only one.                               *)
(***************************************************************************)
EXTENDS Integers, Sequences, SequencesExt, FiniteSetTheorems, SequenceTheorems, TLAPS

SumOf(f) == FoldFunction(+, 0, f)

\* The fold's recursion: the sum over a set s of arguments of f.
Pick(s) == CHOOSE x \in s : TRUE

Unfolded(f, g, s) == IF s = {} THEN 0 ELSE f[Pick(s)] + g[s \ {Pick(s)}]

IsIter(f, g) == g = [s \in SUBSET DOMAIN f |-> Unfolded(f, g, s)]

Iter(f) == CHOOSE g : IsIter(f, g)

-----------------------------------------------------------------------------
LEMMA NatInductive ==
  ASSUME NEW T, 0 \in T, \A n \in Nat : n \in T => n + 1 \in T
  PROVE  Nat \subseteq T
  <1> SUFFICES ASSUME Nat \ T # {} PROVE FALSE
    OBVIOUS
  <1> DEFINE R == {p \in Nat \X Nat : p[1] < p[2]}
  <1>1. IsWellFoundedOn(R, Nat)
    BY NatLessThanWellFounded DEF OpToRel
  <1>2. Nat \ T \subseteq Nat
    OBVIOUS
  <1> HIDE DEF R
  <1>3. PICK x \in Nat \ T : \A y \in Nat \ T : ~ (<<y, x>> \in R)
    BY <1>1, <1>2, WFMin
  <1>4. \A y \in Nat \ T : ~ (y < x)
    BY <1>3 DEF R
  <1>5. x # 0 /\ x - 1 \in Nat /\ x - 1 < x /\ (x - 1) + 1 = x
    BY <1>3
  <1>. QED
    BY <1>3, <1>4, <1>5

LEMMA SumUnfold ==
  ASSUME NEW f
  PROVE  SumOf(f) = Iter(f)[DOMAIN f]
  BY DEF SumOf, FoldFunction, FoldFunctionOnSet, MapThenFoldSet, Iter, IsIter,
         Unfolded, Pick

\* The recursion has a solution on the subsets of a finite set.
LEMMA IterExists ==
  ASSUME NEW S, IsFiniteSet(S), NEW f \in [S -> Int]
  PROVE  \E g \in [SUBSET S -> Int] : IsIter(f, g)
  <1> DEFINE UpTo(g, n) == \A s \in SUBSET S :
                             Cardinality(s) <= n => g[s] = Unfolded(f, g, s)
             T == {n \in Nat : \E g \in [SUBSET S -> Int] : UpTo(g, n)}
  <1>0. \A s \in SUBSET S : IsFiniteSet(s) /\ Cardinality(s) \in Nat
                            /\ Cardinality(s) <= Cardinality(S)
    BY FS_Subset, FS_CardinalityType
  <1>1. \A s \in SUBSET S : s # {} =>
          /\ Pick(s) \in S /\ f[Pick(s)] \in Int /\ s \ {Pick(s)} \in SUBSET S
          /\ Cardinality(s \ {Pick(s)}) = Cardinality(s) - 1
    BY <1>0, FS_RemoveElement DEF Pick
  <1>2. 0 \in T
    <2> DEFINE g == [s \in SUBSET S |-> 0]
    <2>1. UpTo(g, 0)
      BY <1>0, FS_EmptySet DEF Unfolded
    <2>2. g \in [SUBSET S -> Int]
      OBVIOUS
    <2>. QED
      BY <2>1, <2>2
  <1>3. ASSUME NEW n \in Nat, n \in T PROVE n + 1 \in T
    <2>1. PICK g \in [SUBSET S -> Int] : UpTo(g, n)
      BY <1>3
    <2> DEFINE h == [s \in SUBSET S |-> Unfolded(f, g, s)]
    <2>2. h \in [SUBSET S -> Int]
      BY <1>1 DEF Unfolded
    <2>3. ASSUME NEW s \in SUBSET S, Cardinality(s) <= n + 1
          PROVE  h[s] = Unfolded(f, h, s)
      <3>1. CASE s = {}
        BY <3>1 DEF Unfolded
      <3>2. CASE s # {}
        <4> DEFINE r == s \ {Pick(s)}
        <4>1. r \in SUBSET S /\ Cardinality(r) <= n
          BY <1>0, <1>1, <2>3, <3>2
        <4>2. g[r] = Unfolded(f, g, r)
          BY <2>1, <4>1
        <4>3. h[r] = g[r]
          BY <4>1, <4>2
        <4>. QED
          BY <3>2, <4>3 DEF Unfolded
      <3>. QED
        BY <3>1, <3>2
    <2> HIDE DEF h
    <2>4. UpTo(h, n + 1)
      BY <2>3
    <2>. QED
      BY <2>2, <2>4
  <1> HIDE DEF T
  <1>4. Nat \subseteq T
    BY <1>2, <1>3, NatInductive
  <1>5. Cardinality(S) \in T
    BY <1>4, FS_CardinalityType
  <1>6. PICK g \in [SUBSET S -> Int] : UpTo(g, Cardinality(S))
    BY <1>5 DEF T
  <1>7. \A s \in SUBSET S : g[s] = Unfolded(f, g, s)
    BY <1>0, <1>6
  <1>8. IsIter(f, g)
    BY <1>7 DEF IsIter
  <1>. QED
    BY <1>8

LEMMA IterUnfold ==
  ASSUME NEW f, NEW g, IsIter(f, g)
  PROVE  \A s \in SUBSET DOMAIN f : g[s] = Unfolded(f, g, s)
  BY DEF IsIter

LEMMA IterEquation ==
  ASSUME NEW S, IsFiniteSet(S), NEW f \in [S -> Int]
  PROVE  /\ Iter(f)[{}] = 0
         /\ \A s \in SUBSET S : Iter(f)[s] = Unfolded(f, Iter(f), s)
         /\ \A s \in SUBSET S : Iter(f)[s] \in Int
  <1>1. \E g \in [SUBSET S -> Int] : IsIter(f, g)
    BY IterExists
  <1>2. IsIter(f, Iter(f))
    BY <1>1 DEF Iter
  <1>3. \A s \in SUBSET S : Iter(f)[s] = Unfolded(f, Iter(f), s)
    BY <1>2, IterUnfold
  <1>4. Iter(f)[{}] = 0
    BY <1>3 DEF Unfolded
  <1> DEFINE Typed(n) == \A s \in SUBSET S :
                           Cardinality(s) <= n => Iter(f)[s] \in Int
             T == {n \in Nat : Typed(n)}
  <1>0. \A s \in SUBSET S : IsFiniteSet(s) /\ Cardinality(s) \in Nat
                            /\ Cardinality(s) <= Cardinality(S)
    BY FS_Subset, FS_CardinalityType
  <1>5. 0 \in T
    BY <1>0, <1>4, FS_EmptySet
  <1>6. ASSUME NEW n \in Nat, n \in T PROVE n + 1 \in T
    <2>1. ASSUME NEW s \in SUBSET S, Cardinality(s) <= n + 1, s # {}
          PROVE  Iter(f)[s] \in Int
      <3>1. Pick(s) \in s
        BY <2>1 DEF Pick
      <3>2. Cardinality(s \ {Pick(s)}) = Cardinality(s) - 1
        BY <1>0, <3>1, FS_RemoveElement
      <3>3. Iter(f)[s \ {Pick(s)}] \in Int
        BY <1>0, <1>6, <2>1, <3>2
      <3>4. Iter(f)[s] = f[Pick(s)] + Iter(f)[s \ {Pick(s)}]
        BY <1>3, <2>1 DEF Unfolded
      <3>. QED
        BY <3>1, <3>3, <3>4
    <2>2. ASSUME NEW s \in SUBSET S, Cardinality(s) <= n + 1
          PROVE  Iter(f)[s] \in Int
      <3>1. CASE s = {}
        BY <1>4, <3>1
      <3>. QED
        BY <2>1, <2>2, <3>1
    <2>3. Typed(n + 1)
      BY <2>2
    <2>. QED
      BY <2>3
  <1> HIDE DEF T
  <1>7. Nat \subseteq T
    BY <1>5, <1>6, NatInductive
  <1>8. Cardinality(S) \in T
    BY <1>7, FS_CardinalityType
  <1>9. \A s \in SUBSET S : Iter(f)[s] \in Int
    BY <1>0, <1>8 DEF T
  <1>. QED
    BY <1>3, <1>4, <1>9

\* A set that holds {} and, with a subset of S, each of its extensions by one
\* element, holds every subset of a finite S.
LEMMA SubsetInductive ==
  ASSUME NEW S, IsFiniteSet(S), NEW T, {} \in T,
         \A s \in SUBSET S : \A x \in s : s \ {x} \in T => s \in T
  PROVE  SUBSET S \subseteq T
  <1> DEFINE N == {n \in Nat : \A s \in SUBSET S : Cardinality(s) <= n => s \in T}
  <1>0. \A s \in SUBSET S : IsFiniteSet(s) /\ Cardinality(s) \in Nat
                            /\ Cardinality(s) <= Cardinality(S)
    BY FS_Subset, FS_CardinalityType
  <1>1. 0 \in N
    <2>1. ASSUME NEW s \in SUBSET S, Cardinality(s) <= 0 PROVE s = {}
      BY <1>0, <2>1, FS_EmptySet
    <2>. QED
      BY <2>1
  <1>2. ASSUME NEW n \in Nat, n \in N PROVE n + 1 \in N
    <2>1. ASSUME NEW s \in SUBSET S, Cardinality(s) <= n + 1, NEW x \in s
          PROVE  s \in T
      <3>1. Cardinality(s \ {x}) = Cardinality(s) - 1
        BY <1>0, <2>1, FS_RemoveElement
      <3>2. s \ {x} \in T
        BY <1>0, <1>2, <2>1, <3>1
      <3>. QED
        BY <3>2
    <2>2. ASSUME NEW s \in SUBSET S, Cardinality(s) <= n + 1
          PROVE  s \in T
      BY <2>1, <2>2
    <2>. QED
      BY <2>2
  <1> HIDE DEF N
  <1>3. Nat \subseteq N
    BY <1>1, <1>2, NatInductive
  <1>4. Cardinality(S) \in N
    BY <1>3, FS_CardinalityType
  <1>. QED
    BY <1>0, <1>4 DEF N

-----------------------------------------------------------------------------
\* Whatever CHOOSE picks, any element can be taken out first.
LEMMA IterPeel ==
  ASSUME NEW S, IsFiniteSet(S), NEW f \in [S -> Int]
  PROVE  \A s \in SUBSET S : \A y \in s :
           Iter(f)[s] = f[y] + Iter(f)[s \ {y}]
  <1> DEFINE G == Iter(f)
  <1>1. \A s \in SUBSET S : s # {} =>
           \E x \in s : G[s] = f[x] + G[s \ {x}]
    <2>1. \A s \in SUBSET S : s # {} => Pick(s) \in s
      BY DEF Pick
    <2>2. \A s \in SUBSET S : G[s] = Unfolded(f, G, s)
      BY IterEquation
    <2> HIDE DEF G
    <2>. QED
      BY <2>1, <2>2 DEF Unfolded
  <1>2. \A s \in SUBSET S : G[s] \in Int
    BY IterEquation
  <1> HIDE DEF G
  <1>3. ASSUME NEW n \in Nat,
               \A s \in SUBSET S : Cardinality(s) <= n =>
                 \A y \in s : G[s] = f[y] + G[s \ {y}],
               NEW s \in SUBSET S, Cardinality(s) <= n + 1, NEW y \in s
        PROVE  G[s] = f[y] + G[s \ {y}]
    <2>1. PICK x \in s : G[s] = f[x] + G[s \ {x}]
      BY <1>1
    <2>2. CASE x = y
      BY <2>1, <2>2
    <2>3. CASE x # y
      <3> DEFINE r == (s \ {x}) \ {y}
      <3>0. /\ IsFiniteSet(s) /\ Cardinality(s) \in Nat
            /\ Cardinality(s \ {x}) = Cardinality(s) - 1
            /\ Cardinality(s \ {y}) = Cardinality(s) - 1
        <4>1. IsFiniteSet(s) /\ Cardinality(s) \in Nat
          BY FS_Subset, FS_CardinalityType
        <4>. QED
          BY <4>1, <2>1, FS_RemoveElement
      <3>1. Cardinality(s \ {x}) <= n /\ Cardinality(s \ {y}) <= n
        BY <1>3, <3>0
      <3>2. y \in s \ {x} /\ x \in s \ {y} /\ r = (s \ {y}) \ {x}
        BY <2>3
      <3>3. G[s \ {x}] = f[y] + G[r] /\ G[s \ {y}] = f[x] + G[r]
        BY <1>3, <3>1, <3>2
      <3>4. f[x] \in Int /\ f[y] \in Int /\ G[r] \in Int
        BY <1>2
      <3> HIDE DEF r
      <3>5. f[x] + (f[y] + G[r]) = f[y] + (f[x] + G[r])
        BY <3>4
      <3>. QED
        BY <2>1, <3>3, <3>5
    <2>. QED
      BY <2>2, <2>3
  <1> DEFINE N == {n \in Nat : \A s \in SUBSET S : Cardinality(s) <= n =>
                                 \A y \in s : G[s] = f[y] + G[s \ {y}]}
  <1>4. 0 \in N
    <2>1. ASSUME NEW s \in SUBSET S, Cardinality(s) <= 0 PROVE s = {}
      BY <2>1, FS_EmptySet, FS_Subset, FS_CardinalityType
    <2>. QED
      BY <2>1
  <1>5. ASSUME NEW n \in Nat, n \in N PROVE n + 1 \in N
    BY <1>3, <1>5
  <1> HIDE DEF N
  <1>6. Cardinality(S) \in N
    BY <1>4, <1>5, NatInductive, FS_CardinalityType
  <1>7. \A s \in SUBSET S : Cardinality(s) <= Cardinality(S)
    BY FS_Subset
  <1>. QED
    BY <1>6, <1>7 DEF N, G

\* The fold over s sees f on s only.
LEMMA IterLocal ==
  ASSUME NEW S, IsFiniteSet(S), NEW f \in [S -> Int],
         NEW R, IsFiniteSet(R), NEW g \in [R -> Int],
         NEW s, s \subseteq S, s \subseteq R, \A x \in s : f[x] = g[x]
  PROVE  Iter(f)[s] = Iter(g)[s]
  <1> DEFINE T == {r \in SUBSET s : Iter(f)[r] = Iter(g)[r]}
  <1>1. {} \in T
    BY IterEquation
  <1>2. ASSUME NEW r \in SUBSET s, NEW x \in r, r \ {x} \in T
        PROVE  r \in T
    <2>1. Iter(f)[r] = f[x] + Iter(f)[r \ {x}]
      BY ONLY IsFiniteSet(S), f \in [S -> Int], r \in SUBSET S, x \in r, IterPeel
    <2>2. Iter(g)[r] = g[x] + Iter(g)[r \ {x}]
      BY ONLY IsFiniteSet(R), g \in [R -> Int], r \in SUBSET R, x \in r, IterPeel
    <2>. QED
      BY <1>2, <2>1, <2>2
  <1>3. IsFiniteSet(s)
    BY FS_Subset
  <1> HIDE DEF T
  <1>4. SUBSET s \subseteq T
    BY <1>1, <1>2, <1>3, SubsetInductive
  <1>. QED
    BY <1>4 DEF T

-----------------------------------------------------------------------------
(* Sums. *)

LEMMA SumEmpty ==
  ASSUME NEW f \in [{} -> Int]
  PROVE  SumOf(f) = 0
  BY SumUnfold, IterEquation, FS_EmptySet

LEMMA SumType ==
  ASSUME NEW S, IsFiniteSet(S), NEW f \in [S -> Int]
  PROVE  SumOf(f) \in Int
  BY SumUnfold, IterEquation

\* One term apart, the rest is a sum over the other arguments.
LEMMA SumPeel ==
  ASSUME NEW S, IsFiniteSet(S), NEW f \in [S -> Int], NEW y \in S
  PROVE  SumOf(f) = f[y] + SumOf([x \in S \ {y} |-> f[x]])
  <1> DEFINE r == S \ {y}
             g == [x \in r |-> f[x]]
  <1>1. IsFiniteSet(r) /\ r \subseteq S /\ g \in [r -> Int]
    BY FS_Subset
  <1>2. \A x \in r : f[x] = g[x]
    OBVIOUS
  <1>3. Iter(f)[S] = f[y] + Iter(f)[r]
    BY IterPeel
  <1>4. DOMAIN g = r
    OBVIOUS
  <1> HIDE DEF g
  <1>5. Iter(f)[r] = Iter(g)[r]
    BY <1>1, <1>2, IterLocal
  <1>6. SumOf(f) = Iter(f)[S] /\ SumOf(g) = Iter(g)[r]
    BY <1>4, SumUnfold
  <1>. QED
    BY <1>3, <1>5, <1>6 DEF g

\* A term is replaced.
LEMMA SumUpdate ==
  ASSUME NEW S, IsFiniteSet(S), NEW f \in [S -> Int], NEW y \in S, NEW b \in Int
  PROVE  SumOf([f EXCEPT ![y] = b]) = SumOf(f) - f[y] + b
  <1> DEFINE g == [f EXCEPT ![y] = b]
             r == [x \in S \ {y} |-> f[x]]
  <1>1. g \in [S -> Int] /\ g[y] = b
    OBVIOUS
  <1>2. r = [x \in S \ {y} |-> g[x]]
    OBVIOUS
  <1>3. r \in [S \ {y} -> Int] /\ IsFiniteSet(S \ {y}) /\ f[y] \in Int
    BY FS_Subset
  <1> HIDE DEF g, r
  <1>4. SumOf(g) = g[y] + SumOf(r)
    <2>1. SumOf(g) = g[y] + SumOf([x \in S \ {y} |-> g[x]])
      BY <1>1, SumPeel
    <2>. QED
      BY <1>2, <2>1
  <1>5. SumOf(f) = f[y] + SumOf(r)
    BY SumPeel DEF r
  <1>6. SumOf(r) \in Int
    BY <1>3, SumType
  <1>. QED
    BY <1>1, <1>3, <1>4, <1>5, <1>6 DEF g

LEMMA SumZero ==
  ASSUME NEW S, IsFiniteSet(S), NEW f \in [S -> Int], \A x \in S : f[x] = 0
  PROVE  SumOf(f) = 0
  <1> DEFINE T == {s \in SUBSET S : Iter(f)[s] = 0}
  <1>1. {} \in T
    BY IterEquation
  <1>2. ASSUME NEW s \in SUBSET S, NEW x \in s, s \ {x} \in T
        PROVE  s \in T
    <2>1. Iter(f)[s] = f[x] + Iter(f)[s \ {x}]
      BY IterPeel
    <2>. QED
      BY <1>2, <2>1
  <1> HIDE DEF T
  <1>3. SUBSET S \subseteq T
    BY <1>1, <1>2, SubsetInductive
  <1>. QED
    BY <1>3, SumUnfold DEF T

LEMMA SumMonotone ==
  ASSUME NEW S, IsFiniteSet(S), NEW f \in [S -> Int], NEW g \in [S -> Int],
         \A x \in S : f[x] <= g[x]
  PROVE  SumOf(f) <= SumOf(g)
  <1> DEFINE T == {s \in SUBSET S : Iter(f)[s] <= Iter(g)[s]}
  <1>1. {} \in T
    BY IterEquation
  <1>2. ASSUME NEW s \in SUBSET S, NEW x \in s, s \ {x} \in T
        PROVE  s \in T
    <2>1. Iter(f)[s] = f[x] + Iter(f)[s \ {x}]
      BY IterPeel
    <2>2. Iter(g)[s] = g[x] + Iter(g)[s \ {x}]
      BY IterPeel
    <2>3. Iter(f)[s \ {x}] \in Int /\ Iter(g)[s \ {x}] \in Int
      BY IterEquation
    <2>4. f[x] \in Int /\ g[x] \in Int /\ f[x] <= g[x]
      OBVIOUS
    <2>. QED
      BY <1>2, <2>1, <2>2, <2>3, <2>4
  <1> HIDE DEF T
  <1>3. SUBSET S \subseteq T
    BY <1>1, <1>2, SubsetInductive
  <1>. QED
    BY <1>3, SumUnfold DEF T

LEMMA SumNat ==
  ASSUME NEW S, IsFiniteSet(S), NEW f \in [S -> Nat]
  PROVE  SumOf(f) \in Nat
  <1> DEFINE z == [x \in S |-> 0]
  <1>1. z \in [S -> Int] /\ f \in [S -> Int] /\ \A x \in S : z[x] = 0
    OBVIOUS
  <1>2. \A x \in S : z[x] <= f[x]
    OBVIOUS
  <1> HIDE DEF z
  <1>3. SumOf(z) = 0 /\ SumOf(z) <= SumOf(f)
    BY <1>1, <1>2, SumZero, SumMonotone
  <1>. QED
    BY <1>1, <1>3, SumType

LEMMA SumTerm ==
  ASSUME NEW S, IsFiniteSet(S), NEW f \in [S -> Nat], NEW y \in S
  PROVE  f[y] <= SumOf(f)
  <1>1. SumOf(f) = f[y] + SumOf([x \in S \ {y} |-> f[x]])
    BY SumPeel
  <1>2. SumOf([x \in S \ {y} |-> f[x]]) \in Nat
    BY SumNat, FS_Subset
  <1>. QED
    BY <1>1, <1>2

\* Arguments whose terms are 0 can be left out.
LEMMA SumRestrict ==
  ASSUME NEW S, IsFiniteSet(S), NEW f \in [S -> Int],
         NEW R, R \subseteq S, \A x \in S \ R : f[x] = 0
  PROVE  SumOf(f) = SumOf([x \in R |-> f[x]])
  <1> DEFINE T == {s \in SUBSET S : Iter(f)[s] = Iter(f)[s \cap R]}
             g == [x \in R |-> f[x]]
  <1>1. {} \in T
    OBVIOUS
  <1>2. ASSUME NEW s \in SUBSET S, NEW x \in s, s \ {x} \in T
        PROVE  s \in T
    <2>1. Iter(f)[s] = f[x] + Iter(f)[s \ {x}]
      BY IterPeel
    <2>2. CASE x \in R
      <3>1. (s \ {x}) \cap R = (s \cap R) \ {x}
        OBVIOUS
      <3>2. s \cap R \in SUBSET S /\ x \in s \cap R
        BY <2>2
      <3>3. Iter(f)[s \cap R] = f[x] + Iter(f)[(s \cap R) \ {x}]
        BY <3>2, IterPeel
      <3>. QED
        BY <1>2, <2>1, <3>1, <3>3
    <2>3. CASE x \notin R
      <3>1. (s \ {x}) \cap R = s \cap R
        BY <2>3
      <3>2. f[x] = 0 /\ Iter(f)[s \ {x}] \in Int
        BY <2>3, IterEquation
      <3>. QED
        BY <1>2, <2>1, <3>1, <3>2
    <2>. QED
      BY <2>2, <2>3
  <1> HIDE DEF T
  <1>3. SUBSET S \subseteq T
    BY <1>1, <1>2, SubsetInductive
  <1>4. S \cap R = R
    OBVIOUS
  <1>5. Iter(f)[S] = Iter(f)[R]
    BY <1>3, <1>4 DEF T
  <1>6. g \in [R -> Int] /\ IsFiniteSet(R) /\ DOMAIN g = R /\ \A x \in R : f[x] = g[x]
    BY FS_Subset
  <1> HIDE DEF g
  <1>7. Iter(f)[R] = Iter(g)[R]
    BY <1>6, IterLocal
  <1>8. SumOf(f) = Iter(f)[S] /\ SumOf(g) = Iter(g)[R]
    BY <1>6, SumUnfold
  <1>. QED
    BY <1>5, <1>7, <1>8 DEF g

LEMMA SumSingle ==
  ASSUME NEW x, NEW f \in [{x} -> Int]
  PROVE  SumOf(f) = f[x]
  <1>1. IsFiniteSet({x})
    BY FS_Singleton
  <1>2. SumOf(f) = f[x] + SumOf([y \in {x} \ {x} |-> f[y]])
    BY <1>1, SumPeel
  <1>3. [y \in {x} \ {x} |-> f[y]] \in [{} -> Int]
    OBVIOUS
  <1>4. SumOf([y \in {x} \ {x} |-> f[y]]) = 0
    BY <1>3, SumEmpty
  <1>. QED
    BY <1>2, <1>4

\* Some arguments, listed without repetition by h, are left out: g is the
\* rest of f, and e is what is left out.
Splits(h, f, g, e) ==
  /\ DOMAIN h = DOMAIN e /\ DOMAIN g \subseteq DOMAIN f
  /\ \A i, j \in DOMAIN h : h[i] = h[j] => i = j
  /\ \A x \in DOMAIN f : x \notin DOMAIN g <=> \E i \in DOMAIN h : h[i] = x
  /\ \A x \in DOMAIN g : g[x] = f[x]
  /\ \A i \in DOMAIN h : h[i] \in DOMAIN f /\ e[i] = f[h[i]]

LEMMA SumWithout ==
  ASSUME NEW S, IsFiniteSet(S), NEW f \in [S -> Int],
         NEW R, IsFiniteSet(R), NEW e \in [R -> Int],
         NEW Q, NEW g \in [Q -> Int],
         NEW h, Splits(h, f, g, e)
  PROVE  SumOf(g) = SumOf(f) - SumOf(e)
  <1> DEFINE Rest(s) == {x \in S : ~ \E i \in s : h[i] = x}
             T == {s \in SUBSET R : Iter(f)[S] = Iter(f)[Rest(s)] + Iter(e)[s]}
  <1>0. IsFiniteSet(S) /\ f \in [S -> Int]
    OBVIOUS
  <1>a. /\ \A i, j \in R : h[i] = h[j] => i = j
        /\ Q \subseteq S /\ \A x \in S : x \notin Q <=> \E i \in R : h[i] = x
        /\ \A x \in Q : g[x] = f[x]
        /\ \A i \in R : h[i] \in S /\ e[i] = f[h[i]]
    BY DEF Splits
  <1>1. \A s \in SUBSET S : Iter(f)[s] \in Int
    BY IterEquation
  <1>2. (\A s \in SUBSET R : Iter(e)[s] \in Int) /\ Iter(e)[{}] = 0
    BY IterEquation
  <1>3. {} \in T
    <2>1. Rest({}) = S
      OBVIOUS
    <2>2. Iter(f)[S] \in Int
      BY <1>1
    <2>3. Iter(f)[S] = Iter(f)[S] + 0
      BY <2>2
    <2> HIDE DEF Rest
    <2>. QED
      BY <1>2, <2>1, <2>3
  <1>4. ASSUME NEW s \in SUBSET R, NEW x \in s, s \ {x} \in T
        PROVE  s \in T
    <2> DEFINE r == Rest(s \ {x})
    <2>1. Rest(s) = r \ {h[x]} /\ h[x] \in r /\ r \in SUBSET S
      BY <1>a
    <2> HIDE DEF r
    <2>2. Iter(f)[r] = f[h[x]] + Iter(f)[r \ {h[x]}]
      <3>1. h[x] \in r /\ r \in SUBSET S
        BY <2>1
      <3>2. \A y \in r : Iter(f)[r] = f[y] + Iter(f)[r \ {y}]
        BY ONLY <1>0, <3>1, IterPeel
      <3>. QED
        BY <3>1, <3>2
    <2>3. Iter(e)[s] = e[x] + Iter(e)[s \ {x}] /\ e[x] = f[h[x]]
      <3>1. Iter(e)[s] = e[x] + Iter(e)[s \ {x}]
        BY IterPeel
      <3>. QED
        BY <1>a, <3>1
    <2>4. Iter(f)[S] = Iter(f)[r] + Iter(e)[s \ {x}]
      BY <1>4 DEF r
    <2>5. Iter(f)[r \ {h[x]}] \in Int /\ Iter(e)[s \ {x}] \in Int /\ f[h[x]] \in Int
      BY <1>1, <1>2, <2>1
    <2>6. Iter(f)[S] = Iter(f)[r \ {h[x]}] + Iter(e)[s]
      BY <2>2, <2>3, <2>4, <2>5
    <2>. QED
      BY <2>1, <2>6
  <1> HIDE DEF T
  <1>5. SUBSET R \subseteq T
    BY <1>3, <1>4, SubsetInductive
  <1>6. Rest(R) = Q
    BY <1>a
  <1>7. Iter(f)[S] = Iter(f)[Q] + Iter(e)[R]
    BY <1>5, <1>6 DEF T
  <1>8. IsFiniteSet(Q)
    BY <1>a, FS_Subset
  <1>9. Iter(f)[Q] = Iter(g)[Q]
    BY <1>a, <1>8, IterLocal
  <1>10. SumOf(f) = Iter(f)[S] /\ SumOf(e) = Iter(e)[R] /\ SumOf(g) = Iter(g)[Q]
    BY SumUnfold
  <1>11. Iter(e)[R] \in Int /\ Iter(f)[Q] \in Int
    BY <1>a, <1>1, <1>2
  <1>. QED
    BY <1>7, <1>9, <1>10, <1>11

-----------------------------------------------------------------------------
(* Sequences: the weights of their elements. *)

Weight(w, s) == SumOf([i \in DOMAIN s |-> w[s[i]]])

LEMMA WeightType ==
  ASSUME NEW X, NEW w \in [X -> Nat], NEW s \in Seq(X)
  PROVE  Weight(w, s) \in Nat
  <1>1. [i \in DOMAIN s |-> w[s[i]]] \in [DOMAIN s -> Nat]
    BY LenProperties
  <1>2. IsFiniteSet(DOMAIN s)
    BY FS_Interval, LenProperties
  <1>. QED
    BY <1>1, <1>2, SumNat DEF Weight

LEMMA WeightConcat ==
  ASSUME NEW X, NEW w \in [X -> Nat], NEW s \in Seq(X), NEW t \in Seq(X)
  PROVE  Weight(w, s \o t) = Weight(w, s) + Weight(w, t)
  <1> DEFINE a == Len(s)
             b == Len(t)
             c == s \o t
             f == [i \in DOMAIN c |-> w[c[i]]]
             d == [i \in DOMAIN s |-> w[s[i]]]
             e == [i \in DOMAIN t |-> w[t[i]]]
             h == [i \in 1 .. b |-> a + i]
  <1>1. /\ a \in Nat /\ b \in Nat /\ c \in Seq(X) /\ Len(c) = a + b
        /\ DOMAIN s = 1 .. a /\ DOMAIN t = 1 .. b /\ DOMAIN c = 1 .. (a + b)
        /\ \A i \in 1 .. a : c[i] = s[i]
        /\ \A i \in 1 .. b : c[a + i] = t[i]
    BY LenProperties, ConcatProperties
  <1>2. /\ \A i \in DOMAIN s : s[i] \in X
        /\ \A i \in DOMAIN t : t[i] \in X
        /\ \A i \in DOMAIN c : c[i] \in X
    BY <1>1
  <1> HIDE DEF a, b, c
  <1>3. f \in [1 .. (a + b) -> Int] /\ d \in [1 .. a -> Int] /\ e \in [1 .. b -> Int]
    BY <1>1, <1>2
  <1>4. h \in [1 .. b -> 1 .. (a + b)] /\ \A i, j \in 1 .. b : h[i] = h[j] => i = j
    BY <1>1
  <1>5. IsFiniteSet(1 .. (a + b)) /\ IsFiniteSet(1 .. b) /\ IsFiniteSet(1 .. a)
    BY <1>1, FS_Interval
  <1>6. \A k \in 1 .. (a + b) : k \notin 1 .. a <=> \E i \in 1 .. b : h[i] = k
    <2>1. ASSUME NEW k \in 1 .. (a + b), k \notin 1 .. a
          PROVE  \E i \in 1 .. b : h[i] = k
      <3>1. k - a \in 1 .. b /\ h[k - a] = k
        BY <1>1, <2>1
      <3> HIDE DEF h
      <3>. QED
        BY <3>1
    <2>2. ASSUME NEW i \in 1 .. b PROVE h[i] \notin 1 .. a
      BY <1>1
    <2> HIDE DEF h
    <2>. QED
      BY <2>1, <2>2
  <1>7. \A k \in 1 .. a : k \in 1 .. (a + b)
    BY <1>1
  <1>8. \A x \in 1 .. a : d[x] = f[x]
    BY <1>1, <1>7
  <1>9. \A i \in 1 .. b : e[i] = f[h[i]]
    BY <1>1, <1>4
  <1>10. 1 .. a \subseteq 1 .. (a + b)
    BY <1>7
  <1> HIDE DEF f, d, e, h
  <1>11. SumOf(d) = SumOf(f) - SumOf(e)
    <2>1. Splits(h, f, d, e)
      BY <1>3, <1>4, <1>6, <1>8, <1>9, <1>10, ZenonT(60) DEF Splits
    <2>. QED
      BY <1>3, <1>5, <2>1, SumWithout
  <1>12. SumOf(f) \in Int /\ SumOf(e) \in Int
    BY <1>3, <1>5, SumType
  <1>13. Weight(w, s) = SumOf(d)
    BY DEF Weight, d
  <1>14. Weight(w, t) = SumOf(e)
    BY DEF Weight, e
  <1>15. Weight(w, s \o t) = SumOf(f)
    BY DEF Weight, f, c
  <1>. QED
    BY <1>11, <1>12, <1>13, <1>14, <1>15

\* Term for term no less, a sum is no less by what one term is more.
LEMMA SumExceeds ==
  ASSUME NEW S, IsFiniteSet(S), NEW f \in [S -> Int], NEW g \in [S -> Int],
         \A x \in S : f[x] <= g[x], NEW y \in S
  PROVE  SumOf(f) + (g[y] - f[y]) <= SumOf(g)
  <1> DEFINE h == [g EXCEPT ![y] = f[y]]
  <1>1. h \in [S -> Int] /\ \A x \in S : f[x] <= h[x]
    OBVIOUS
  <1>2. f[y] \in Int /\ g[y] \in Int
    OBVIOUS
  <1>3. SumOf(h) = SumOf(g) - g[y] + f[y]
    BY <1>2, SumUpdate
  <1> HIDE DEF h
  <1>4. SumOf(f) <= SumOf(h)
    BY <1>1, SumMonotone
  <1>5. SumOf(f) \in Int /\ SumOf(g) \in Int
    BY SumType
  <1>. QED
    BY <1>2, <1>3, <1>4, <1>5

\* The sequences of ss up to the i-th, one after another.
Flattened(g, ss, i) == IF i = 1 THEN ss[i] ELSE g[i - 1] \o ss[i]

IsFlat(g, ss) == g = [i \in 1 .. Len(ss) |-> Flattened(g, ss, i)]

Flat(ss) == CHOOSE g : IsFlat(g, ss)

LEMMA FlattenUnfold ==
  ASSUME NEW ss
  PROVE  FlattenSeq(ss) = IF Len(ss) = 0 THEN ss ELSE Flat(ss)[Len(ss)]
  BY DEF FlattenSeq, Flat, IsFlat, Flattened

LEMMA FlatExists ==
  ASSUME NEW X, NEW ss \in Seq(Seq(X))
  PROVE  \E g : IsFlat(g, ss)
  <1> DEFINE UpTo(g, n) == \A i \in 1 .. n : g[i] = Flattened(g, ss, i)
             T == {n \in Nat : \E g : DOMAIN g = 1 .. n
                                      /\ g = [i \in 1 .. n |-> g[i]] /\ UpTo(g, n)}
  <1>1. 0 \in T
    <2> DEFINE g == [i \in 1 .. 0 |-> 0]
    <2>1. DOMAIN g = 1 .. 0 /\ g = [i \in 1 .. 0 |-> g[i]] /\ UpTo(g, 0)
      OBVIOUS
    <2> HIDE DEF g
    <2>. QED
      BY <2>1
  <1>2. ASSUME NEW n \in Nat, n \in T PROVE n + 1 \in T
    <2>1. PICK g : DOMAIN g = 1 .. n /\ g = [i \in 1 .. n |-> g[i]] /\ UpTo(g, n)
      BY <1>2
    <2> DEFINE h == [i \in 1 .. (n + 1) |->
                       IF i <= n THEN g[i] ELSE Flattened(g, ss, i)]
    <2>2. DOMAIN h = 1 .. (n + 1) /\ h = [i \in 1 .. (n + 1) |-> h[i]]
      OBVIOUS
    <2>3. \A i \in 1 .. n : h[i] = g[i]
      OBVIOUS
    <2>4. \A i \in 1 .. (n + 1) : h[i] = Flattened(g, ss, i)
      BY <2>1
    <2>5. \A i \in 1 .. (n + 1) : i # 1 => i - 1 \in 1 .. n
      OBVIOUS
    <2> HIDE DEF h
    <2>6. \A i \in 1 .. (n + 1) : Flattened(g, ss, i) = Flattened(h, ss, i)
      BY <2>3, <2>5 DEF Flattened
    <2>7. UpTo(h, n + 1)
      BY <2>4, <2>6
    <2>. QED
      BY <2>2, <2>7
  <1> HIDE DEF T
  <1>3. Len(ss) \in T
    BY <1>1, <1>2, NatInductive, LenProperties
  <1>4. PICK g : g = [i \in 1 .. Len(ss) |-> g[i]] /\ UpTo(g, Len(ss))
    BY <1>3 DEF T
  <1>5. g = [i \in 1 .. Len(ss) |-> Flattened(g, ss, i)]
    BY <1>4
  <1>. QED
    BY <1>5 DEF IsFlat

\* What sequences weigh one after another is what they weigh together.
LEMMA FlattenWeight ==
  ASSUME NEW X, NEW w \in [X -> Nat], NEW ss \in Seq(Seq(X))
  PROVE  /\ FlattenSeq(ss) \in Seq(X)
         /\ Weight(w, FlattenSeq(ss)) = SumOf([i \in DOMAIN ss |-> Weight(w, ss[i])])
  <1> DEFINE n == Len(ss)
             g == Flat(ss)
             e == [i \in DOMAIN ss |-> Weight(w, ss[i])]
             T == {k \in Nat : k + 1 <= n =>
                     /\ g[k + 1] \in Seq(X)
                     /\ Weight(w, g[k + 1]) = Iter(e)[1 .. (k + 1)]}
  <1>1. n \in Nat /\ DOMAIN ss = 1 .. n /\ \A i \in 1 .. n : ss[i] \in Seq(X)
    BY LenProperties
  <1>2. IsFlat(g, ss)
    BY FlatExists DEF Flat
  <1>3. \A i \in 1 .. n : g[i] = IF i = 1 THEN ss[i] ELSE g[i - 1] \o ss[i]
    BY <1>2 DEF IsFlat, Flattened
  <1>4. \A i \in 1 .. n : Weight(w, ss[i]) \in Nat
    BY <1>1, WeightType
  <1>5. e \in [1 .. n -> Int] /\ \A i \in 1 .. n : e[i] = Weight(w, ss[i])
    BY <1>1, <1>4
  <1>6. IsFiniteSet(1 .. n)
    BY <1>1, FS_Interval
  <1>7. e = [i \in DOMAIN ss |-> Weight(w, ss[i])]
    OBVIOUS
  <1> HIDE DEF n, g, e
  <1>8. Iter(e)[{}] = 0 /\ \A s \in SUBSET (1 .. n) : Iter(e)[s] \in Int
    BY <1>5, <1>6, IterEquation
  <1>9. ASSUME NEW k \in Nat, k + 1 <= n
        PROVE  /\ Iter(e)[1 .. (k + 1)] = Weight(w, ss[k + 1]) + Iter(e)[1 .. k]
               /\ Iter(e)[1 .. k] \in Int
    <2>1. (1 .. (k + 1)) \ {k + 1} = 1 .. k /\ k + 1 \in 1 .. (k + 1)
      OBVIOUS
    <2>2. (\A i \in 1 .. (k + 1) : i \in 1 .. n) /\ \A i \in 1 .. k : i \in 1 .. n
      BY <1>1, <1>9
    <2>3. 1 .. (k + 1) \in SUBSET (1 .. n) /\ 1 .. k \in SUBSET (1 .. n)
      BY <2>2
    <2>4. \A y \in 1 .. (k + 1) :
            Iter(e)[1 .. (k + 1)] = e[y] + Iter(e)[(1 .. (k + 1)) \ {y}]
      <3> DEFINE S == 1 .. n
                 s == 1 .. (k + 1)
      <3>1. IsFiniteSet(S) /\ e \in [S -> Int] /\ s \in SUBSET S
        BY <1>5, <1>6, <2>3
      <3> HIDE DEF S, s
      <3>2. \A y \in s : Iter(e)[s] = e[y] + Iter(e)[s \ {y}]
        BY ONLY <3>1, IterPeel
      <3>. QED
        BY <3>2 DEF s
    <2>. QED
      BY <1>5, <1>8, <2>1, <2>2, <2>3, <2>4
  <1>10. 0 \in T
    <2> SUFFICES ASSUME 1 <= n
                 PROVE  g[1] \in Seq(X) /\ Weight(w, g[1]) = Iter(e)[1 .. 1]
      OBVIOUS
    <2>1. g[1] = ss[1] /\ ss[1] \in Seq(X) /\ Weight(w, ss[1]) \in Nat
      BY <1>1, <1>3, <1>4
    <2>2. 1 .. 0 = {} /\ 0 + 1 = 1
      OBVIOUS
    <2>3. Iter(e)[1 .. (0 + 1)] = Weight(w, ss[0 + 1]) + Iter(e)[1 .. 0]
      <3>1. 0 \in Nat /\ 0 + 1 <= n
        OBVIOUS
      <3>. QED
        BY ONLY <1>9, <3>1
    <2>. QED
      BY <1>8, <2>1, <2>2, <2>3
  <1>11. ASSUME NEW k \in Nat, k \in T PROVE k + 1 \in T
    <2> DEFINE m == k + 1
    <2> SUFFICES ASSUME m + 1 <= n
                 PROVE  /\ g[m + 1] \in Seq(X)
                        /\ Weight(w, g[m + 1]) = Iter(e)[1 .. (m + 1)]
      OBVIOUS
    <2>1. /\ m \in Nat /\ m + 1 \in 1 .. n /\ m + 1 # 1 /\ (m + 1) - 1 = m
          /\ k + 1 <= n
      BY <1>1
    <2>2. g[m] \in Seq(X) /\ Weight(w, g[m]) = Iter(e)[1 .. m]
      BY <1>11, <2>1
    <2> HIDE DEF m
    <2>3. g[m + 1] = g[m] \o ss[m + 1]
      BY <1>3, <2>1
    <2>4. ss[m + 1] \in Seq(X) /\ Weight(w, ss[m + 1]) \in Nat
      BY <1>1, <1>4, <2>1
    <2>5. Weight(w, g[m] \o ss[m + 1]) = Weight(w, g[m]) + Weight(w, ss[m + 1])
      <3>1. w \in [X -> Nat] /\ g[m] \in Seq(X) /\ ss[m + 1] \in Seq(X)
        BY <2>2, <2>4
      <3>. QED
        BY ONLY <3>1, WeightConcat
    <2>6. g[m] \o ss[m + 1] \in Seq(X)
      BY <2>2, <2>4, ConcatProperties
    <2>7. /\ Iter(e)[1 .. (m + 1)] = Weight(w, ss[m + 1]) + Iter(e)[1 .. m]
          /\ Iter(e)[1 .. m] \in Int
      BY <1>9, <2>1
    <2>. QED
      BY <2>2, <2>3, <2>4, <2>5, <2>6, <2>7
  <1> HIDE DEF T
  <1>12. Nat \subseteq T
    BY <1>10, <1>11, NatInductive
  <1>13. CASE n = 0
    <2>1. ss = <<>> /\ FlattenSeq(ss) = ss
      BY <1>13, FlattenUnfold, EmptySeq DEF n
    <2>2. <<>> \in Seq(X) /\ DOMAIN ss = {}
      BY <1>1, <1>13, EmptySeq
    <2>3. [i \in DOMAIN ss |-> w[ss[i]]] \in [{} -> Int] /\ e \in [{} -> Int]
      BY <1>5, <1>13, <2>2
    <2>4. Weight(w, ss) = 0 /\ SumOf(e) = 0
      BY <2>3, SumEmpty DEF Weight
    <2>. QED
      BY <2>1, <2>2, <2>4 DEF e
  <1>14. CASE n # 0
    <2>1. n - 1 \in Nat /\ (n - 1) + 1 = n
      BY <1>1, <1>14
    <2>2. n - 1 \in T
      BY <1>12, <2>1
    <2>3. g[n] \in Seq(X) /\ Weight(w, g[n]) = Iter(e)[1 .. n]
      BY <2>1, <2>2 DEF T
    <2>4. FlattenSeq(ss) = g[n]
      BY <1>14, FlattenUnfold DEF g, n
    <2>5. SumOf(e) = Iter(e)[1 .. n]
      BY <1>5, SumUnfold
    <2>. QED
      BY <2>3, <2>4, <2>5 DEF e
  <1>. QED
    BY <1>13, <1>14

\* A set of naturals that is not empty has a least member.
LEMMA NatLeast ==
  ASSUME NEW A \in SUBSET Nat, A # {}
  PROVE  \E m \in A : \A k \in A : m <= k
  <1> SUFFICES ASSUME \A m \in A : \E k \in A : k < m PROVE FALSE
    OBVIOUS
  <1> DEFINE T == {n \in Nat : \A k \in 0 .. n : k \notin A}
  <1>1. 0 \in T
    OBVIOUS
  <1>2. ASSUME NEW n \in Nat, n \in T PROVE n + 1 \in T
    <2>1. ASSUME n + 1 \in A PROVE FALSE
      <3>1. PICK k \in A : k < n + 1
        BY <2>1
      <3>. QED
        BY <1>2, <3>1
    <2>. QED
      BY <1>2, <2>1
  <1> HIDE DEF T
  <1>3. \A n \in Nat : n \in T
    BY <1>1, <1>2, NatInductive
  <1>4. PICK a \in A : TRUE
    OBVIOUS
  <1>5. a \in Nat /\ a \in 0 .. a
    BY <1>4
  <1>. QED
    BY <1>3, <1>4, <1>5 DEF T

\* A function on 1 .. n is a sequence of length n.
LEMMA SeqIs ==
  ASSUME NEW X, NEW s, NEW n \in Nat, s = [k \in 1 .. n |-> s[k]],
         \A k \in 1 .. n : s[k] \in X
  PROVE  s \in Seq(X) /\ Len(s) = n /\ DOMAIN s = 1 .. n
  <1>1. s \in [1 .. n -> X]
    OBVIOUS
  <1>2. s \in Seq(X)
    BY <1>1
  <1>. QED
    BY <1>1, <1>2, LenProperties

\* A sequence of sequences is flattened one at a time.
LEMMA FlattenRec ==
  ASSUME NEW X, NEW ss \in Seq(Seq(X)), NEW s \in Seq(X)
  PROVE  /\ FlattenSeq(<<>>) = <<>>
         /\ FlattenSeq(Append(ss, s)) = FlattenSeq(ss) \o s
  <1>1. Len(<<>>) = 0 /\ FlattenSeq(<<>>) = <<>>
    BY FlattenUnfold, EmptySeq
  <1> DEFINE n == Len(ss)
             tt == Append(ss, s)
  <1>2. /\ n \in Nat /\ tt \in Seq(Seq(X)) /\ Len(tt) = n + 1 /\ tt[n + 1] = s
        /\ \A i \in 1 .. n : tt[i] = ss[i]
    BY AppendProperties, LenProperties
  <1>3. IsFlat(Flat(tt), tt) /\ IsFlat(Flat(ss), ss)
    BY <1>2, FlatExists DEF Flat
  <1> DEFINE g == Flat(tt)
             h == Flat(ss)
  <1>4. \A i \in 1 .. (n + 1) : g[i] = IF i = 1 THEN tt[i] ELSE g[i - 1] \o tt[i]
    BY <1>2, <1>3 DEF IsFlat, Flattened
  <1>5. \A i \in 1 .. n : h[i] = IF i = 1 THEN ss[i] ELSE h[i - 1] \o ss[i]
    BY <1>3 DEF IsFlat, Flattened
  <1>6. FlattenSeq(tt) = IF Len(tt) = 0 THEN tt ELSE g[Len(tt)]
    BY FlattenUnfold
  <1>7. FlattenSeq(ss) = IF n = 0 THEN ss ELSE h[n]
    BY FlattenUnfold
  <1> HIDE DEF n, tt, g, h
  <1> DEFINE T == {k \in Nat : k + 1 <= n => g[k + 1] = h[k + 1]}
  <1>8. 0 \in T
    <2>1. 1 <= n => g[1] = tt[1] /\ h[1] = ss[1] /\ tt[1] = ss[1]
      BY <1>2, <1>4, <1>5
    <2>. QED
      BY <2>1
  <1>9. ASSUME NEW k \in Nat, k \in T PROVE k + 1 \in T
    <2> SUFFICES ASSUME (k + 1) + 1 <= n PROVE g[(k + 1) + 1] = h[(k + 1) + 1]
      OBVIOUS
    <2>1. /\ (k + 1) + 1 \in 1 .. n /\ (k + 1) + 1 \in 1 .. (n + 1) /\ (k + 1) + 1 # 1
          /\ ((k + 1) + 1) - 1 = k + 1 /\ k + 1 <= n
      BY <1>2
    <2>2. g[k + 1] = h[k + 1] /\ tt[(k + 1) + 1] = ss[(k + 1) + 1]
      BY <1>2, <1>9, <2>1
    <2>3. g[(k + 1) + 1] = g[k + 1] \o tt[(k + 1) + 1]
      BY <1>4, <2>1
    <2>4. h[(k + 1) + 1] = h[k + 1] \o ss[(k + 1) + 1]
      BY <1>5, <2>1
    <2>. QED
      BY <2>2, <2>3, <2>4
  <1> HIDE DEF T
  <1>10. \A k \in Nat : k \in T
    BY <1>8, <1>9, NatInductive
  <1>11. CASE n = 0
    <2>1. ss = <<>> /\ FlattenSeq(tt) = s
      BY <1>2, <1>4, <1>6, <1>11, EmptySeq DEF n
    <2>2. FlattenSeq(ss) \o s = s
      BY <1>1, <2>1, ConcatEmptySeq
    <2>. QED
      BY <1>1, <2>1, <2>2 DEF tt
  <1>12. CASE n # 0
    <2>1. n - 1 \in Nat /\ (n - 1) + 1 = n /\ n + 1 \in 1 .. (n + 1) /\ n + 1 # 1 /\ (n + 1) - 1 = n
      BY <1>2, <1>12
    <2>2. g[n] = h[n]
      <3>1. (n - 1) + 1 <= n => g[(n - 1) + 1] = h[(n - 1) + 1]
        BY <1>10, <2>1 DEF T
      <3>. QED
        BY <1>2, <2>1, <3>1
    <2>3. g[n + 1] = g[n] \o tt[n + 1]
      BY <1>4, <2>1
    <2>. QED
      BY <1>1, <1>2, <1>6, <1>7, <1>12, <2>2, <2>3 DEF tt
  <1>. QED
    BY <1>2, <1>11, <1>12

\* Sequences are built by Append: a set of them that holds the empty one and
\* is closed under Append holds all.
LEMMA SeqInductive ==
  ASSUME NEW Y, NEW U, <<>> \in U,
         \A s \in Seq(Y), e \in Y : s \in U => Append(s, e) \in U
  PROVE  Seq(Y) \subseteq U
  <1> DEFINE T == {n \in Nat : \A s \in Seq(Y) : Len(s) = n => s \in U}
  <1>1. 0 \in T
    BY EmptySeq
  <1>2. ASSUME NEW n \in Nat, n \in T PROVE n + 1 \in T
    <2> SUFFICES ASSUME NEW s \in Seq(Y), Len(s) = n + 1 PROVE s \in U
      OBVIOUS
    <2>1. s # <<>>
      BY EmptySeq
    <2>2. PICK r \in Seq(Y), e \in Y : s = Append(r, e)
      BY <2>1, SequenceEmptyOrAppend
    <2>3. Len(r) = n
      BY <2>2, AppendProperties, LenProperties
    <2>. QED
      BY <1>2, <2>2, <2>3
  <1> HIDE DEF T
  <1>3. \A n \in Nat : n \in T
    BY <1>1, <1>2, NatInductive
  <1>. QED
    BY <1>3, LenProperties DEF T

\* What is flattened keeps its type.
LEMMA FlattenType ==
  ASSUME NEW X, NEW ss \in Seq(Seq(X))
  PROVE  FlattenSeq(ss) \in Seq(X)
  <1> DEFINE U == {tt \in Seq(Seq(X)) : FlattenSeq(tt) \in Seq(X)}
  <1>1. <<>> \in U
    BY FlattenRec, EmptySeq
  <1>2. ASSUME NEW tt \in Seq(Seq(X)), NEW s \in Seq(X), tt \in U PROVE Append(tt, s) \in U
    BY <1>2, FlattenRec, AppendProperties, ConcatProperties
  <1> HIDE DEF U
  <1>3. ss \in U
    BY <1>1, <1>2, SeqInductive
  <1>. QED
    BY <1>3 DEF U

-----------------------------------------------------------------------------
(* Recursion over sequences. *)

\* What holds of a sequence when it holds of all shorter ones holds of all.
LEMMA LengthInductive ==
  ASSUME NEW B, NEW U,
         \A s \in Seq(B) : (\A t \in Seq(B) : Len(t) < Len(s) => t \in U) => s \in U
  PROVE  Seq(B) \subseteq U
  <1> DEFINE T == {n \in Nat : \A s \in Seq(B) : Len(s) < n => s \in U}
  <1>1. 0 \in T
    BY LenProperties
  <1>2. ASSUME NEW n \in Nat, n \in T PROVE n + 1 \in T
    <2> SUFFICES ASSUME NEW s \in Seq(B), Len(s) < n + 1 PROVE s \in U
      OBVIOUS
    <2>1. ASSUME NEW t \in Seq(B), Len(t) < Len(s) PROVE t \in U
      <3>1. Len(t) \in Nat /\ Len(s) \in Nat
        BY LenProperties
      <3>2. Len(t) < n
        BY <2>1, <3>1
      <3>. QED
        BY <1>2, <3>2
    <2>. QED
      BY <2>1
  <1> HIDE DEF T
  <1>3. \A n \in Nat : n \in T
    BY <1>1, <1>2, NatInductive
  <1>4. ASSUME NEW s \in Seq(B) PROVE s \in U
    <2>1. Len(s) \in Nat /\ Len(s) + 1 \in Nat /\ Len(s) < Len(s) + 1
      BY LenProperties
    <2>2. Len(s) + 1 \in T
      BY <1>3, <2>1
    <2>. QED
      BY <2>1, <2>2 DEF T
  <1>. QED
    BY <1>4

\* The sequences up to a length.
Up(B, n) == {s \in Seq(B) : Len(s) <= n}

\* f satisfies the equation of a recursion over sequences, up to a length.
Solves(f, n, B, V, D, base, d, c) ==
  /\ f \in [Up(B, n) -> V]
  /\ \A s \in Up(B, n) : f[s] = IF s \in D THEN c[<<s, f[d[s]]>>] ELSE base[s]

\* The recursion goes from the sequences of D to shorter ones.
Descends(B, V, D, base, d, c) ==
  /\ D \in SUBSET Seq(B) /\ base \in [Seq(B) -> V] /\ d \in [D -> Seq(B)]
  /\ \A s \in D : Len(d[s]) < Len(s)
  /\ c \in [Seq(B) \X V -> V]

\* There is a solution up to every length.
LEMMA SolvesUp ==
  ASSUME NEW B, NEW V, NEW D, NEW base, NEW d, NEW c, Descends(B, V, D, base, d, c)
  PROVE  \A n \in Nat : \E f : Solves(f, n, B, V, D, base, d, c)
  <1> USE DEF Descends
  <1> DEFINE T == {n \in Nat : \E f : Solves(f, n, B, V, D, base, d, c)}
  <1>1. 0 \in T
    <2> DEFINE f == [s \in Up(B, 0) |-> base[s]]
    <2>1. \A s \in Up(B, 0) : s \notin D
      <3> SUFFICES ASSUME NEW s \in Up(B, 0), s \in D PROVE FALSE
        OBVIOUS
      <3>1. Len(s) <= 0 /\ Len(d[s]) < Len(s) /\ Len(s) \in Nat /\ Len(d[s]) \in Nat
        BY LenProperties DEF Up
      <3>. QED
        BY <3>1
    <2>2. Solves(f, 0, B, V, D, base, d, c)
      BY <2>1 DEF Solves, Up
    <2>. QED
      BY <2>2
  <1>2. ASSUME NEW n \in Nat, n \in T PROVE n + 1 \in T
    <2>1. PICK f : Solves(f, n, B, V, D, base, d, c)
      BY <1>2
    <2> DEFINE g == [s \in Up(B, n + 1) |-> IF s \in D THEN c[<<s, f[d[s]]>>] ELSE base[s]]
    <2>2. \A s \in Up(B, n + 1) : s \in Seq(B) /\ Len(s) \in Nat /\ Len(s) <= n + 1
      BY LenProperties DEF Up
    <2>3. ASSUME NEW s \in Up(B, n + 1), s \in D
          PROVE  d[s] \in Up(B, n) /\ d[s] \in Up(B, n + 1)
      <3>1. d[s] \in Seq(B) /\ Len(d[s]) < Len(s) /\ Len(d[s]) \in Nat
        BY <2>3, LenProperties
      <3>2. Len(d[s]) <= n /\ Len(d[s]) <= n + 1
        BY <2>2, <3>1
      <3>. QED
        BY <3>1, <3>2 DEF Up
    <2>4. \A s \in Up(B, n) : f[s] \in V /\ f[s] = IF s \in D THEN c[<<s, f[d[s]]>>] ELSE base[s]
      BY <2>1 DEF Solves
    <2>5. g \in [Up(B, n + 1) -> V]
      <3>1. ASSUME NEW s \in Up(B, n + 1), s \in D PROVE c[<<s, f[d[s]]>>] \in V
        <4>1. f[d[s]] \in V /\ s \in Seq(B)
          BY <2>2, <2>3, <2>4, <3>1
        <4>. QED
          BY <4>1
      <3>2. \A s \in Up(B, n + 1) : base[s] \in V
        BY <2>2
      <3>. QED
        BY <3>1, <3>2
    <2>6. ASSUME NEW s \in Up(B, n + 1), s \in D PROVE g[s] = c[<<s, g[d[s]]>>]
      <3>1. g[d[s]] = f[d[s]]
        BY <2>3, <2>4, <2>6
      <3>. QED
        BY <2>6, <3>1
    <2>7. ASSUME NEW s \in Up(B, n + 1), s \notin D PROVE g[s] = base[s]
      BY <2>7
    <2> HIDE DEF g
    <2>8. Solves(g, n + 1, B, V, D, base, d, c)
      BY <2>5, <2>6, <2>7 DEF Solves
    <2>. QED
      BY <2>8
  <1> HIDE DEF T
  <1>3. \A n \in Nat : n \in T
    BY <1>1, <1>2, NatInductive
  <1>. QED
    BY <1>3 DEF T

\* Two solutions agree wherever both are defined.
LEMMA SolvesSame ==
  ASSUME NEW B, NEW V, NEW D, NEW base, NEW d, NEW c, Descends(B, V, D, base, d, c)
  PROVE  \A f, g : \A n, m \in Nat :
           Solves(f, n, B, V, D, base, d, c) /\ Solves(g, m, B, V, D, base, d, c)
             => \A s \in Seq(B) : Len(s) <= n /\ Len(s) <= m => f[s] = g[s]
  <1> SUFFICES ASSUME NEW f, NEW g, NEW n \in Nat, NEW m \in Nat,
                      Solves(f, n, B, V, D, base, d, c), Solves(g, m, B, V, D, base, d, c)
               PROVE  \A s \in Seq(B) : Len(s) <= n /\ Len(s) <= m => f[s] = g[s]
    OBVIOUS
  <1> USE DEF Descends
  <1> DEFINE U == {s \in Seq(B) : Len(s) <= n /\ Len(s) <= m => f[s] = g[s]}
  <1>1. ASSUME NEW s \in Seq(B), \A t \in Seq(B) : Len(t) < Len(s) => t \in U
        PROVE  s \in U
    <2> SUFFICES ASSUME Len(s) <= n, Len(s) <= m PROVE f[s] = g[s]
      OBVIOUS
    <2>1. s \in Up(B, n) /\ s \in Up(B, m)
      BY DEF Up
    <2>2. /\ f[s] = IF s \in D THEN c[<<s, f[d[s]]>>] ELSE base[s]
          /\ g[s] = IF s \in D THEN c[<<s, g[d[s]]>>] ELSE base[s]
      BY <2>1 DEF Solves
    <2>3. ASSUME s \in D PROVE f[d[s]] = g[d[s]]
      <3>1. d[s] \in Seq(B) /\ Len(d[s]) < Len(s) /\ Len(d[s]) \in Nat /\ Len(s) \in Nat
        BY <2>3, LenProperties
      <3>2. Len(d[s]) <= n /\ Len(d[s]) <= m
        BY <3>1
      <3>. QED
        BY <1>1, <3>1, <3>2
    <2>. QED
      BY <2>2, <2>3
  <1> HIDE DEF U
  <1>2. Seq(B) \subseteq U
    BY <1>1, LengthInductive
  <1>. QED
    BY <1>2 DEF U

\* A recursion over sequences that goes to shorter ones has a solution on
\* all of them: what the loops over texts (emit_valid_utf8, push,
\* load_snippet) need in order to be functions.
LEMMA RecursionExists ==
  ASSUME NEW B, NEW V, NEW D, NEW base, NEW d, NEW c, Descends(B, V, D, base, d, c)
  PROVE  \E f \in [Seq(B) -> V] :
           \A s \in Seq(B) : f[s] = IF s \in D THEN c[<<s, f[d[s]]>>] ELSE base[s]
  <1>same. \A f, g : \A n, m \in Nat :
           Solves(f, n, B, V, D, base, d, c) /\ Solves(g, m, B, V, D, base, d, c)
             => \A s \in Seq(B) : Len(s) <= n /\ Len(s) <= m => f[s] = g[s]
    BY SolvesSame
  <1>up. \A n \in Nat : \E f : Solves(f, n, B, V, D, base, d, c)
    BY SolvesUp
  <1> USE DEF Descends
  <1> DEFINE F(n) == CHOOSE f : Solves(f, n, B, V, D, base, d, c)
             h == [s \in Seq(B) |-> F(Len(s))[s]]
  <1>1. \A n \in Nat : Solves(F(n), n, B, V, D, base, d, c)
    BY <1>up
  <1> HIDE DEF F
  <1>2. ASSUME NEW s \in Seq(B)
        PROVE  /\ Len(s) \in Nat /\ h[s] \in V
               /\ h[s] = IF s \in D THEN c[<<s, F(Len(s))[d[s]]>>] ELSE base[s]
    <2>1. Len(s) \in Nat /\ s \in Up(B, Len(s))
      BY LenProperties DEF Up
    <2>2. h[s] = F(Len(s))[s]
      OBVIOUS
    <2>. QED
      BY <1>1, <2>1, <2>2 DEF Solves
  <1>3. ASSUME NEW s \in D PROVE F(Len(s))[d[s]] = h[d[s]]
    <2>1. /\ d[s] \in Seq(B) /\ Len(d[s]) < Len(s) /\ Len(d[s]) \in Nat /\ Len(s) \in Nat
          /\ s \in Seq(B)
      BY <1>3, LenProperties
    <2>2. Solves(F(Len(s)), Len(s), B, V, D, base, d, c) /\ Solves(F(Len(d[s])), Len(d[s]), B, V, D, base, d, c)
      BY <1>1, <2>1
    <2>3. Len(d[s]) <= Len(s) /\ Len(d[s]) <= Len(d[s])
      BY <2>1
    <2>4. F(Len(s))[d[s]] = F(Len(d[s]))[d[s]]
      <3> DEFINE n == Len(s)
                 m == Len(d[s])
                 f == F(n)
                 g == F(m)
      <3>1. n \in Nat /\ m \in Nat /\ Solves(f, n, B, V, D, base, d, c) /\ Solves(g, m, B, V, D, base, d, c)
        BY <2>1, <2>2
      <3> HIDE DEF n, m, f, g
      <3>2. \A t \in Seq(B) : Len(t) <= n /\ Len(t) <= m => f[t] = g[t]
        BY ONLY <1>same, <3>1
      <3>. QED
        BY <2>1, <2>3, <3>2 DEF n, m, f, g
    <2>. QED
      BY <2>1, <2>4
  <1>4. h \in [Seq(B) -> V]
    BY <1>2
  <1> HIDE DEF h
  <1>5. \A s \in Seq(B) : h[s] = IF s \in D THEN c[<<s, h[d[s]]>>] ELSE base[s]
    BY <1>2, <1>3
  <1>. QED
    BY <1>4, <1>5

\* A sequence is what precedes its last element, and that element.
LEMMA FrontIs ==
  ASSUME NEW B, NEW t \in Seq(B), t # <<>>
  PROVE  /\ Front(t) \in Seq(B) /\ Last(t) \in B /\ Len(Front(t)) < Len(t)
         /\ t = Append(Front(t), Last(t))
  <1>1. PICK r \in Seq(B), e \in B : t = Append(r, e)
    BY SequenceEmptyOrAppend
  <1>2. Len(t) = Len(r) + 1 /\ Len(r) \in Nat /\ t[Len(t)] = e
    BY <1>1, AppendProperties, LenProperties
  <1>3. Len(t) - 1 = Len(r)
    BY <1>2
  <1>4. SubSeq(t, 1, Len(r)) = r
    <2> DEFINE n == Len(r)
               p == SubSeq(t, 1, n)
    <2>1. \A k \in 1 .. n : t[k] = r[k] /\ t[k] \in B
      BY <1>1, AppendProperties, LenProperties
    <2>2. n \in Nat /\ r \in Seq(B)
      BY <1>2
    <2>3. t \in Seq(B) /\ 1 \in Int /\ n \in Int /\ n - 1 + 1 = n
      BY <2>2
    <2> HIDE DEF n
    <2>4. /\ p \in Seq(B) /\ Len(p) = IF 1 <= n THEN n - 1 + 1 ELSE 0
          /\ \A k \in 1 .. n - 1 + 1 : p[k] = t[1 + k - 1]
      BY ONLY <2>1, <2>3, SubSeqProperties
    <2>5. Len(p) = n /\ \A k \in 1 .. n : p[k] = t[k]
      BY ONLY <2>2, <2>3, <2>4
    <2> HIDE DEF p
    <2>6. p = r
      <3>1. Len(p) = Len(r) /\ \A k \in 1 .. Len(p) : p[k] = r[k]
        BY <2>1, <2>5 DEF n
      <3>. QED
        BY <2>2, <2>4, <3>1, SeqEqual
    <2>. QED
      BY <2>6 DEF p, n
  <1>5. Front(t) = r /\ Last(t) = e
    BY <1>2, <1>3, <1>4 DEF Front, Last
  <1>. QED
    BY <1>1, <1>2, <1>5

\* What an element is appended to, and the element.
LEMMA FrontAppend ==
  ASSUME NEW B, NEW r \in Seq(B), NEW e \in B
  PROVE  Front(Append(r, e)) = r /\ Last(Append(r, e)) = e
  <1>1. Append(r, e) \in Seq(B) /\ Append(r, e) # <<>>
    BY AppendProperties
  <1>2. /\ Front(Append(r, e)) \in Seq(B) /\ Last(Append(r, e)) \in B
        /\ Append(r, e) = Append(Front(Append(r, e)), Last(Append(r, e)))
    BY <1>1, FrontIs
  <1>. QED
    BY <1>2, AppendInjective
=============================================================================
