------------------------------ MODULE PoolProofs ------------------------------
(***************************************************************************)
(* Proofs about pools: induction over finite sets, sums over them,         *)
(* integers in order, the arithmetic of a swap, and the points of a chart, *)
(* from which its types and its truth follow.                              *)
(***************************************************************************)
EXTENDS Cetus, MarketChart, TLAPS, FiniteSetTheorems, WellFoundedInduction, SequenceTheorems

------------------------------------------------------------------------------
(* Least and greatest elements, and induction from them.                   *)

LEMMA LeastNat ==
  ASSUME NEW N \in SUBSET Nat, N # {}
  PROVE  \E n \in N : \A m \in N : n <= m
<1> DEFINE less == OpToRel(<, Nat)
<1>1. IsWellFoundedOn(less, Nat)
  BY NatLessThanWellFounded
<1>2. \A x, y \in Nat : x < y => <<x, y>> \in less
  BY DEF OpToRel
<1> HIDE DEF less
<1>3. PICK n \in N : \A y \in N : ~(<<y, n>> \in less)
  BY <1>1, WFMin
<1>4. \A m \in N : ~(m < n)
  BY <1>2, <1>3
<1> QED
  BY <1>4

\* A set of naturals with nought and every successor has them all.
LEMMA FromNought ==
  ASSUME NEW N \in SUBSET Nat, 0 \in N, \A n \in N : n + 1 \in N
  PROVE  N = Nat
<1> SUFFICES ASSUME N # Nat PROVE FALSE
  OBVIOUS
<1>1. PICK n \in Nat \ N : \A m \in Nat \ N : n <= m
  BY LeastNat
<1>2. n # 0 /\ n - 1 \in Nat /\ n - 1 \in N
  BY <1>1
<1> QED
  BY <1>1, <1>2

\* What holds of no elements, and of a set when it holds of each with one less, holds
\* of them all.
LEMMA OneByOne ==
  ASSUME NEW S, IsFiniteSet(S), NEW Good, {} \in Good,
         \A T \in SUBSET S : T # {} /\ (\A x \in T : T \ {x} \in Good) => T \in Good
  PROVE  \A T \in SUBSET S : T \in Good
<1> DEFINE N == {n \in Nat : \A T \in SUBSET S : Cardinality(T) = n => T \in Good}
<1>1. \A T \in SUBSET S : IsFiniteSet(T) /\ Cardinality(T) \in Nat
  BY FS_Subset, FS_CardinalityType
<1>2. 0 \in N
  BY <1>1, FS_EmptySet
<1>3. ASSUME NEW n \in N
      PROVE  n + 1 \in N
  <2>1. n \in Nat
    OBVIOUS
  <2> SUFFICES ASSUME NEW T \in SUBSET S, Cardinality(T) = n + 1
               PROVE  T \in Good
    BY <2>1
  <2> HIDE DEF N
  <2>2. Cardinality(T) # 0 /\ Cardinality(T) - 1 = n
    BY <2>1
  <2>3. Cardinality({}) = 0
    BY FS_EmptySet
  <2>4. ASSUME NEW x \in T
        PROVE  T \ {x} \in Good
    <3>1. IsFiniteSet(T)
      BY <1>1
    <3>2. Cardinality(T \ {x}) = Cardinality(T) - 1
      BY <3>1, FS_RemoveElement
    <3>3. Cardinality(T \ {x}) = n /\ T \ {x} \in SUBSET S
      BY <2>2, <3>2
    <3> QED
      BY <3>3 DEF N
  <2> QED
    BY <2>2, <2>3, <2>4
<1>4. N = Nat
  <2> HIDE DEF N
  <2>1. N \in SUBSET Nat
    BY DEF N
  <2> QED
    BY <1>2, <1>3, <2>1, FromNought
<1> QED
  BY <1>1, <1>4

\* A finite set of integers has a least and a greatest element.
LEMMA Extremes ==
  ASSUME NEW S \in SUBSET Int, IsFiniteSet(S), S # {}
  PROVE  /\ Min(S) \in S /\ \A x \in S : Min(S) <= x
         /\ Max(S) \in S /\ \A x \in S : x <= Max(S)
<1> DEFINE Good == {T \in SUBSET S : T # {} => /\ \E m \in T : \A x \in T : m <= x
                                              /\ \E m \in T : \A x \in T : x <= m}
<1>1. {} \in Good
  OBVIOUS
<1>2. ASSUME NEW T \in SUBSET S, T # {}, \A x \in T : T \ {x} \in Good
      PROVE  T \in Good
  <2>1. PICK y \in T : TRUE
    BY <1>2
  <2> DEFINE U == T \ {y}
  <2>2. U \in Good /\ \A x \in T : x \in U \/ x = y
    BY <1>2, <2>1
  <2>3. CASE U = {}
    BY <2>1, <2>2, <2>3
  <2>4. CASE U # {}
    <3>1. PICK a \in U : \A x \in U : a <= x
      BY <2>2, <2>4
    <3>2. PICK b \in U : \A x \in U : x <= b
      BY <2>2, <2>4
    <3>3. \A x \in T : (IF a <= y THEN a ELSE y) <= x
      BY <2>2, <3>1
    <3>4. \A x \in T : x <= (IF b <= y THEN y ELSE b)
      BY <2>2, <3>2
    <3> QED
      BY <2>1, <3>1, <3>2, <3>3, <3>4
  <2> QED
    BY <2>3, <2>4
<1>3. S \in Good
  <2> HIDE DEF Good
  <2> QED
    BY <1>1, <1>2, OneByOne
<1> QED
  BY <1>3 DEF Min, Max

LEMMA FiniteImage ==
  ASSUME NEW S, IsFiniteSet(S), NEW f
  PROVE  IsFiniteSet({f[x] : x \in S})
<1> DEFINE T == {f[x] : x \in S}
           g == [x \in S |-> f[x]]
<1>1. g \in Surjection(S, T)
  BY DEF Surjection
<1> HIDE DEF g, T
<1>2. IsFiniteSet(T)
  BY <1>1, FS_Surjection
<1> QED
  BY <1>2 DEF T

LEMMA PairIsFinite ==
  ASSUME NEW a, NEW b
  PROVE  IsFiniteSet({a, b})
<1>1. IsFiniteSet({} \cup {a})
  BY FS_EmptySet, FS_AddElement
<1>2. IsFiniteSet(({} \cup {a}) \cup {b})
  BY <1>1, FS_AddElement
<1>3. ({} \cup {a}) \cup {b} = {a, b}
  OBVIOUS
<1> QED
  BY <1>2, <1>3

\* Of two integers.
LEMMA OfTwo ==
  ASSUME NEW a \in Int, NEW b \in Int
  PROVE  /\ Min({a, b}) = IF a <= b THEN a ELSE b
         /\ Max({a, b}) = IF a <= b THEN b ELSE a
<1>1. IsFiniteSet({a, b}) /\ {a, b} \in SUBSET Int /\ {a, b} # {}
  BY PairIsFinite
<1>2. /\ Min({a, b}) \in {a, b} /\ Max({a, b}) \in {a, b}
      /\ Min({a, b}) <= a /\ Min({a, b}) <= b /\ a <= Max({a, b}) /\ b <= Max({a, b})
  BY <1>1, Extremes
<1> QED
  BY <1>2

\* A function over 1 .. n is a sequence of length n.
LEMMA ListIs ==
  ASSUME NEW n \in Nat, NEW S, NEW s, s = [i \in 1 .. n |-> s[i]], \A i \in 1 .. n : s[i] \in S
  PROVE  s \in Seq(S) /\ Len(s) = n
<1>1. s \in [1 .. n -> S]
  OBVIOUS
<1>2. s \in Seq(S)
  BY <1>1, SeqDef
<1>3. Len(s) \in Nat /\ DOMAIN s = 1 .. Len(s)
  BY <1>2, LenProperties
<1>4. 1 .. Len(s) = 1 .. n
  BY <1>1, <1>3
<1>5. Len(s) = n
  BY <1>3, <1>4
<1> QED
  BY <1>2, <1>5

------------------------------------------------------------------------------
(* Sums over finite sets.                                                  *)

Part(w, S, h) ==
  h = [s \in SUBSET S |-> IF s = {} THEN 0 ELSE LET x == CHOOSE x \in s : TRUE IN w[x] + h[s \ {x}]]

\* The recursion of a fold has a solution.
LEMMA PartExists ==
  ASSUME NEW w, NEW S, IsFiniteSet(S)
  PROVE  \E h : Part(w, S, h)
<1> DEFINE Rec(h, s) == IF s = {} THEN 0 ELSE w[CHOOSE x \in s : TRUE] + h[s \ {CHOOSE x \in s : TRUE}]
           Upto(n, h) == \A s \in SUBSET S : Cardinality(s) <= n => h[s] = Rec(h, s)
           N == {n \in Nat : \E h : h = [s \in SUBSET S |-> h[s]] /\ Upto(n, h)}
<1>1. \A T \in SUBSET S : IsFiniteSet(T) /\ Cardinality(T) \in Nat
  BY FS_Subset, FS_CardinalityType
<1>2. 0 \in N
  <2> DEFINE h == [s \in SUBSET S |-> 0]
  <2>1. Upto(0, h)
    BY <1>1, FS_EmptySet
  <2>2. h = [s \in SUBSET S |-> h[s]]
    OBVIOUS
  <2> HIDE DEF h
  <2> QED
    BY <2>1, <2>2
<1>3. ASSUME NEW n \in N
      PROVE  n + 1 \in N
  <2>1. n \in Nat
    OBVIOUS
  <2>2. PICK h : h = [s \in SUBSET S |-> h[s]] /\ Upto(n, h)
    OBVIOUS
  <2> DEFINE g == [s \in SUBSET S |-> Rec(h, s)]
  <2>3. ASSUME NEW s \in SUBSET S, Cardinality(s) <= n + 1
        PROVE  g[s] = Rec(g, s)
    <3>1. CASE s = {}
      BY <3>1
    <3>2. CASE s # {}
      <4> DEFINE x == CHOOSE x \in s : TRUE
                 t == s \ {x}
      <4>1. x \in s
        BY <3>2
      <4>2. t \in SUBSET S /\ Cardinality(t) <= n
        <5> HIDE DEF x
        <5> QED
          BY <1>1, <2>1, <2>3, <4>1, FS_RemoveElement
      <4>3. h[t] = Rec(h, t)
        BY <2>2, <4>2
      <4>4. g[t] = h[t]
        BY <4>2, <4>3
      <4>5. g[s] = w[x] + h[t]
        BY <3>2
      <4>6. Rec(g, s) = w[x] + g[t]
        BY <3>2
      <4> QED
        BY <4>4, <4>5, <4>6
    <3> QED
      BY <3>1, <3>2
  <2>4. Upto(n + 1, g)
    BY <2>3
  <2>5. g = [s \in SUBSET S |-> g[s]]
    OBVIOUS
  <2>6. \E f : f = [s \in SUBSET S |-> f[s]] /\ Upto(n + 1, f)
    <3> HIDE DEF g, Upto
    <3> QED
      BY <2>4, <2>5
  <2> HIDE DEF g, Upto
  <2> QED
    BY <2>1, <2>6
<1>4. N = Nat
  <2> HIDE DEF N
  <2>1. N \in SUBSET Nat
    BY DEF N
  <2> QED
    BY <1>2, <1>3, <2>1, FromNought
<1>5. Cardinality(S) \in N
  BY <1>1, <1>4
<1>6. PICK h : h = [s \in SUBSET S |-> h[s]] /\ Upto(Cardinality(S), h)
  BY <1>5
<1>7. \A s \in SUBSET S : h[s] = Rec(h, s)
  BY <1>6, FS_Subset
<1>8. h = [s \in SUBSET S |-> Rec(h, s)]
  BY <1>6, <1>7
<1>9. Part(w, S, h)
  BY <1>8 DEF Part
<1> QED
  BY <1>9

\* SumFunctionOnSet is such a solution.
LEMMA SumIsPart ==
  ASSUME NEW w, NEW S, IsFiniteSet(S)
  PROVE  \E h : SumFunctionOnSet(w, S) = h[S] /\ Part(w, S, h)
<1> DEFINE h == CHOOSE h : Part(w, S, h)
<1>1. Part(w, S, h)
  <2>1. \E g : Part(w, S, g)
    BY PartExists
  <2> HIDE DEF Part
  <2> QED
    BY <2>1
<1>2. SumFunctionOnSet(w, S) = h[S]
  BY DEF SumFunctionOnSet, FoldFunctionOnSet, MapThenFoldSet, Part
<1> QED
  BY <1>1, <1>2

LEMMA PartUnique ==
  ASSUME NEW w, NEW S, IsFiniteSet(S)
  PROVE  \A h : Part(w, S, h) =>
           \A T \in SUBSET S : \A g : Part(w, T, g) => g[T] = h[T]
<1> SUFFICES ASSUME NEW h, Part(w, S, h), NEW T \in SUBSET S, NEW g, Part(w, T, g)
             PROVE  g[T] = h[T]
  OBVIOUS
<1> DEFINE Good == {U \in SUBSET T : g[U] = h[U]}
<1>1. {} \in Good
  BY DEF Part
<1>2. ASSUME NEW U \in SUBSET T, U # {}, \A x \in U : U \ {x} \in Good
      PROVE  U \in Good
  <2> DEFINE x == CHOOSE x \in U : TRUE
  <2>1. g[U] = w[x] + g[U \ {x}] /\ h[U] = w[x] + h[U \ {x}]
    BY <1>2 DEF Part
  <2>2. x \in U
    BY <1>2
  <2> HIDE DEF x
  <2> QED
    BY <1>2, <2>1, <2>2
<1>3. IsFiniteSet(T)
  BY FS_Subset
<1>4. \A U \in SUBSET T : U \in Good
  <2> HIDE DEF Good
  <2> QED
    BY <1>1, <1>2, <1>3, OneByOne
<1> QED
  BY <1>4

LEMMA SumEmpty ==
  ASSUME NEW w
  PROVE  SumFunctionOnSet(w, {}) = 0
<1>1. PICK h : SumFunctionOnSet(w, {}) = h[{}] /\ Part(w, {}, h)
  BY SumIsPart, FS_EmptySet
<1> QED
  BY <1>1 DEF Part

\* Sums are integers, whatever element is taken out first.
LEMMA SumElements ==
  ASSUME NEW w, NEW S, IsFiniteSet(S), \A x \in S : w[x] \in Int
  PROVE  /\ SumFunctionOnSet(w, S) \in Int
         /\ \A x \in S : SumFunctionOnSet(w, S) = w[x] + SumFunctionOnSet(w, S \ {x})
<1>1. PICK h : SumFunctionOnSet(w, S) = h[S] /\ Part(w, S, h)
  BY SumIsPart
<1>0. \A T \in SUBSET S : h[T] \in Int
  <2> DEFINE Good == {T \in SUBSET S : h[T] \in Int}
  <2>1. {} \in Good
    BY <1>1 DEF Part
  <2>2. ASSUME NEW T \in SUBSET S, T # {}, \A x \in T : T \ {x} \in Good
        PROVE  T \in Good
    <3> DEFINE c == CHOOSE x \in T : TRUE
    <3>1. h[T] = w[c] + h[T \ {c}]
      BY <1>1, <2>2 DEF Part
    <3>2. c \in T
      BY <2>2
    <3> HIDE DEF c
    <3>3. h[T \ {c}] \in Int /\ w[c] \in Int
      BY <2>2, <3>2
    <3> QED
      BY <3>1, <3>3
  <2>3. \A T \in SUBSET S : T \in Good
    <3> HIDE DEF Good
    <3> QED
      BY <2>1, <2>2, OneByOne
  <2> QED
    BY <2>3
<1> DEFINE Good == {T \in SUBSET S : \A x \in T : h[T] = w[x] + h[T \ {x}]}
<1>2. {} \in Good
  OBVIOUS
<1>3. ASSUME NEW T \in SUBSET S, T # {}, \A x \in T : T \ {x} \in Good
      PROVE  T \in Good
  <2>1. PICK c \in T : h[T] = w[c] + h[T \ {c}]
    <3> DEFINE c == CHOOSE x \in T : TRUE
    <3>1. h[T] = w[c] + h[T \ {c}]
      BY <1>1, <1>3 DEF Part
    <3>2. c \in T
      BY <1>3
    <3> HIDE DEF c
    <3> QED
      BY <3>1, <3>2
  <2>2. \A x \in T : w[x] \in Int /\ h[T \ {x}] \in Int
    BY <1>0
  <2>3. ASSUME NEW x \in T
        PROVE  h[T] = w[x] + h[T \ {x}]
    <3>1. CASE x = c
      BY <2>1, <3>1
    <3>2. CASE x # c
      <4> DEFINE U == (T \ {c}) \ {x}
      <4>1. h[T \ {c}] = w[x] + h[U]
        BY <1>3, <3>2
      <4>2. (T \ {x}) \ {c} = U
        OBVIOUS
      <4>3. h[T \ {x}] = w[c] + h[U]
        BY <1>3, <3>2, <4>2
      <4>4. U \in SUBSET S /\ h[U] \in Int
        BY <1>0
      <4> HIDE DEF U
      <4> QED
        BY <2>1, <2>2, <4>1, <4>3, <4>4
    <3> QED
      BY <3>1, <3>2
  <2> QED
    BY <2>3
<1>4. \A T \in SUBSET S : T \in Good
  <2> HIDE DEF Good
  <2> QED
    BY <1>2, <1>3, OneByOne
<1> HIDE DEF Good
<1>5. ASSUME NEW T \in SUBSET S
      PROVE  h[T] = SumFunctionOnSet(w, T)
  <2>1. IsFiniteSet(T)
    BY FS_Subset
  <2>2. PICK g : SumFunctionOnSet(w, T) = g[T] /\ Part(w, T, g)
    BY <2>1, SumIsPart
  <2>3. Part(w, S, h)
    BY <1>1
  <2>4. g[T] = h[T]
    BY <2>2, <2>3, PartUnique
  <2> QED
    BY <2>2, <2>4
<1>6. \A x \in S : h[S] = w[x] + h[S \ {x}]
  BY <1>4 DEF Good
<1>7. \A x \in S : S \ {x} \in SUBSET S
  OBVIOUS
<1> QED
  BY <1>1, <1>0, <1>5, <1>6, <1>7

LEMMA SumLess ==
  ASSUME NEW S, IsFiniteSet(S), NEW w, NEW v,
         \A x \in S : w[x] \in Int /\ v[x] \in Int /\ w[x] <= v[x]
  PROVE  SumFunctionOnSet(w, S) <= SumFunctionOnSet(v, S)
<1> DEFINE Good == {T \in SUBSET S : SumFunctionOnSet(w, T) <= SumFunctionOnSet(v, T)}
<1>1. {} \in Good
  BY SumEmpty
<1>2. ASSUME NEW T \in SUBSET S, T # {}, \A x \in T : T \ {x} \in Good
      PROVE  T \in Good
  <2>1. PICK x \in T : TRUE
    BY <1>2
  <2>2. IsFiniteSet(T) /\ IsFiniteSet(T \ {x})
    BY FS_Subset
  <2>3. /\ SumFunctionOnSet(w, T) = w[x] + SumFunctionOnSet(w, T \ {x})
        /\ SumFunctionOnSet(v, T) = v[x] + SumFunctionOnSet(v, T \ {x})
        /\ SumFunctionOnSet(w, T \ {x}) \in Int /\ SumFunctionOnSet(v, T \ {x}) \in Int
    BY <2>2, SumElements
  <2> QED
    BY <1>2, <2>3
<1>3. \A T \in SUBSET S : T \in Good
  <2> HIDE DEF Good
  <2> QED
    BY <1>1, <1>2, OneByOne
<1> QED
  BY <1>3

LEMMA SumLinear ==
  ASSUME NEW S, IsFiniteSet(S), NEW w, NEW u, NEW v, NEW c \in Int,
         \A x \in S : w[x] \in Int /\ u[x] \in Int /\ v[x] \in Int /\ w[x] = u[x] + c * v[x]
  PROVE  SumFunctionOnSet(w, S) = SumFunctionOnSet(u, S) + c * SumFunctionOnSet(v, S)
<1> DEFINE Good == {T \in SUBSET S : SumFunctionOnSet(w, T)
                      = SumFunctionOnSet(u, T) + c * SumFunctionOnSet(v, T)}
<1>1. {} \in Good
  BY SumEmpty
<1>2. ASSUME NEW T \in SUBSET S, T # {}, \A x \in T : T \ {x} \in Good
      PROVE  T \in Good
  <2>1. PICK x \in T : TRUE
    BY <1>2
  <2>2. IsFiniteSet(T) /\ IsFiniteSet(T \ {x})
    BY FS_Subset
  <2>3. /\ SumFunctionOnSet(w, T) = w[x] + SumFunctionOnSet(w, T \ {x})
        /\ SumFunctionOnSet(u, T) = u[x] + SumFunctionOnSet(u, T \ {x})
        /\ SumFunctionOnSet(v, T) = v[x] + SumFunctionOnSet(v, T \ {x})
        /\ SumFunctionOnSet(u, T \ {x}) \in Int /\ SumFunctionOnSet(v, T \ {x}) \in Int
    BY <2>2, SumElements
  <2>4. SumFunctionOnSet(w, T \ {x})
          = SumFunctionOnSet(u, T \ {x}) + c * SumFunctionOnSet(v, T \ {x})
    BY <1>2
  <2>5. \A a, b, p, q \in Int : (p + c * q) + (a + c * b) = (p + a) + c * (q + b)
    OBVIOUS
  <2> QED
    BY <2>3, <2>4, <2>5
<1>3. \A T \in SUBSET S : T \in Good
  <2> HIDE DEF Good
  <2> QED
    BY <1>1, <1>2, OneByOne
<1> QED
  BY <1>3

\* Elements of no weight may be left out.
LEMMA SumSubset ==
  ASSUME NEW S, IsFiniteSet(S), NEW w, NEW U \in SUBSET S,
         \A x \in S : w[x] \in Int, \A x \in S \ U : w[x] = 0
  PROVE  SumFunctionOnSet(w, S) = SumFunctionOnSet(w, U)
<1> DEFINE Good == {T \in SUBSET S : SumFunctionOnSet(w, T) = SumFunctionOnSet(w, T \cap U)}
<1>1. {} \in Good
  <2>1. {} \cap U = {}
    OBVIOUS
  <2> QED
    BY <2>1
<1>2. ASSUME NEW T \in SUBSET S, T # {}, \A x \in T : T \ {x} \in Good
      PROVE  T \in Good
  <2>1. PICK x \in T : TRUE
    BY <1>2
  <2>2. IsFiniteSet(T) /\ IsFiniteSet(T \cap U)
    BY FS_Subset
  <2>3. SumFunctionOnSet(w, T) = w[x] + SumFunctionOnSet(w, T \ {x})
    BY <2>2, SumElements
  <2>4. SumFunctionOnSet(w, T \ {x}) = SumFunctionOnSet(w, (T \ {x}) \cap U)
    BY <1>2
  <2>5. CASE x \in U
    <3>1. (T \ {x}) \cap U = (T \cap U) \ {x} /\ x \in T \cap U
      BY <2>5
    <3>2. SumFunctionOnSet(w, T \cap U) = w[x] + SumFunctionOnSet(w, (T \cap U) \ {x})
      BY <2>2, <3>1, SumElements
    <3> QED
      BY <2>3, <2>4, <3>1, <3>2
  <2>6. CASE x \notin U
    <3>1. (T \ {x}) \cap U = T \cap U /\ w[x] = 0
      BY <2>6
    <3>2. SumFunctionOnSet(w, T \cap U) \in Int
      BY <2>2, SumElements
    <3>3. SumFunctionOnSet(w, T \ {x}) = SumFunctionOnSet(w, T \cap U)
      BY <2>4, <3>1
    <3> QED
      BY <2>3, <3>1, <3>2, <3>3
  <2> QED
    BY <2>5, <2>6
<1>3. \A T \in SUBSET S : T \in Good
  <2> HIDE DEF Good
  <2> QED
    BY <1>1, <1>2, OneByOne
<1>4. S \cap U = U
  OBVIOUS
<1> QED
  BY <1>3, <1>4

LEMMA SumZero ==
  ASSUME NEW S, IsFiniteSet(S), NEW w, \A x \in S : w[x] = 0
  PROVE  SumFunctionOnSet(w, S) = 0
<1>1. {} \in SUBSET S /\ \A x \in S : w[x] \in Int
  OBVIOUS
<1> QED
  BY <1>1, SumSubset, SumEmpty

\* Only what is summed up matters.
LEMMA SumSame ==
  ASSUME NEW S, IsFiniteSet(S), NEW w, NEW v, \A x \in S : w[x] \in Int /\ w[x] = v[x]
  PROVE  SumFunctionOnSet(w, S) = SumFunctionOnSet(v, S)
<1>1. /\ SumFunctionOnSet(w, S) \in Int /\ SumFunctionOnSet(v, S) \in Int
      /\ SumFunctionOnSet(w, S) <= SumFunctionOnSet(v, S)
      /\ SumFunctionOnSet(v, S) <= SumFunctionOnSet(w, S)
  BY SumElements, SumLess
<1> QED
  BY <1>1

LEMMA SumNat ==
  ASSUME NEW S, IsFiniteSet(S), NEW w, \A x \in S : w[x] \in Nat
  PROVE  SumFunctionOnSet(w, S) \in Nat
<1> DEFINE zero == [x \in S |-> 0]
<1>1. SumFunctionOnSet(w, S) \in Int
  BY SumElements
<1>2. \A x \in S : zero[x] \in Int /\ w[x] \in Int /\ zero[x] <= w[x] /\ zero[x] = 0
  OBVIOUS
<1> HIDE DEF zero
<1>3. SumFunctionOnSet(zero, S) = 0
  BY <1>2, SumZero
<1>4. SumFunctionOnSet(zero, S) <= SumFunctionOnSet(w, S)
  BY <1>2, SumLess
<1> QED
  BY <1>1, <1>3, <1>4

------------------------------------------------------------------------------
(* A finite set of integers in order.                                      *)

Lower(S, x) == {y \in S : y < x}

LEMMA LowerIsFinite ==
  ASSUME NEW S \in SUBSET Int, IsFiniteSet(S), NEW x \in Int
  PROVE  IsFiniteSet(Lower(S, x)) /\ Cardinality(Lower(S, x)) \in Nat
<1>1. Lower(S, x) \in SUBSET S
  BY DEF Lower
<1> QED
  BY <1>1, FS_Subset, FS_CardinalityType

LEMMA RankGrows ==
  ASSUME NEW S \in SUBSET Int, IsFiniteSet(S), NEW x \in S, NEW y \in S, x < y
  PROVE  Cardinality(Lower(S, x)) < Cardinality(Lower(S, y))
<1> DEFINE L == Lower(S, x)
           U == L \cup {x}
<1>1. IsFiniteSet(L) /\ Cardinality(L) \in Nat /\ IsFiniteSet(Lower(S, y)) /\ Cardinality(Lower(S, y)) \in Nat
  BY LowerIsFinite
<1>2. x \notin L /\ U \subseteq Lower(S, y)
  <2>1. x \in Int /\ y \in Int /\ \A z \in S : z \in Int
    OBVIOUS
  <2>2. x \notin L
    BY <2>1 DEF Lower
  <2>3. \A z \in L : z \in S /\ z < y
    BY <2>1 DEF Lower
  <2> QED
    BY <2>2, <2>3 DEF Lower
<1> HIDE DEF L
<1>3. Cardinality(U) = Cardinality(L) + 1 /\ IsFiniteSet(U)
  BY <1>1, <1>2, FS_AddElement
<1>4. Cardinality(U) <= Cardinality(Lower(S, y))
  <2> HIDE DEF U
  <2> QED
    BY <1>1, <1>2, FS_Subset
<1>5. Cardinality(L) < Cardinality(Lower(S, y))
  BY <1>1, <1>3, <1>4
<1> QED
  BY <1>5 DEF L

LEMMA EveryRank ==
  ASSUME NEW S \in SUBSET Int, IsFiniteSet(S)
  PROVE  \A i \in 1 .. Cardinality(S) : \E x \in S : Cardinality(Lower(S, x)) = i - 1
<1> DEFINE Good == {T \in SUBSET S :
                      \A i \in 1 .. Cardinality(T) : \E x \in T : Cardinality(Lower(T, x)) = i - 1}
<1>1. {} \in Good
  BY FS_EmptySet
<1>2. ASSUME NEW T \in SUBSET S, T # {}, \A x \in T : T \ {x} \in Good
      PROVE  T \in Good
  <2> DEFINE m == Max(T)
             U == T \ {m}
  <2>1. IsFiniteSet(T) /\ Cardinality(T) \in Nat /\ T \in SUBSET Int
    BY FS_Subset, FS_CardinalityType
  <2>2. m \in T /\ \A x \in T : x <= m
    BY <1>2, <2>1, Extremes
  <2> HIDE DEF m
  <2>3. U \in Good
    BY <1>2, <2>2
  <2>4. Cardinality(U) = Cardinality(T) - 1
    BY <2>1, <2>2, FS_RemoveElement
  <2>5. Lower(T, m) = U
    <3>1. \A x \in T : x < m <=> x # m
      BY <2>1, <2>2
    <3> QED
      BY <3>1 DEF Lower
  <2>6. \A x \in U : Lower(T, x) = Lower(U, x)
    BY <2>1, <2>2 DEF Lower
  <2>7. ASSUME NEW i \in 1 .. Cardinality(T)
        PROVE  \E x \in T : Cardinality(Lower(T, x)) = i - 1
    <3>1. CASE i = Cardinality(T)
      BY <2>2, <2>4, <2>5, <3>1
    <3>2. CASE i # Cardinality(T)
      <4>1. i \in 1 .. Cardinality(U)
        BY <2>1, <2>4, <3>2
      <4>2. PICK x \in U : Cardinality(Lower(U, x)) = i - 1
        BY <2>3, <4>1
      <4> QED
        BY <2>6, <4>2
    <3> QED
      BY <3>1, <3>2
  <2> QED
    BY <2>7
<1>3. S \in Good
  <2>1. S \in SUBSET S
    OBVIOUS
  <2> HIDE DEF Good
  <2> QED
    BY <1>1, <1>2, <2>1, OneByOne
<1> QED
  BY <1>3

\* InOrder lists every element once, the lower ones first.
LEMMA InOrderIs ==
  ASSUME NEW S \in SUBSET Int, IsFiniteSet(S)
  PROVE  /\ Cardinality(S) \in Nat
         /\ \A i \in 1 .. Cardinality(S) : InOrder(S)[i] \in S
         /\ \A i, j \in 1 .. Cardinality(S) : i < j => InOrder(S)[i] < InOrder(S)[j]
         /\ \A x \in S : \E i \in 1 .. Cardinality(S) : InOrder(S)[i] = x
<1> DEFINE n == Cardinality(S)
           f == InOrder(S)
<1>0. n \in Nat
  BY FS_CardinalityType
<1>1. \A i \in 1 .. n : f[i] \in S /\ Cardinality(Lower(S, f[i])) = i - 1
  <2> SUFFICES ASSUME NEW i \in 1 .. n
               PROVE  f[i] \in S /\ Cardinality(Lower(S, f[i])) = i - 1
    OBVIOUS
  <2>1. f[i] = CHOOSE x \in S : Cardinality(Lower(S, x)) = i - 1
    BY DEF InOrder, Lower
  <2>2. \E x \in S : Cardinality(Lower(S, x)) = i - 1
    BY EveryRank
  <2> HIDE DEF f
  <2> QED
    BY <2>1, <2>2
<1> HIDE DEF f
<1>2. ASSUME NEW i \in 1 .. n, NEW j \in 1 .. n, i < j
      PROVE  f[i] < f[j]
  <2>1. ~(f[j] < f[i])
    <3> SUFFICES ASSUME f[j] < f[i] PROVE FALSE
      OBVIOUS
    <3>1. Cardinality(Lower(S, f[j])) < Cardinality(Lower(S, f[i]))
      BY <1>1, RankGrows
    <3> QED
      BY <1>0, <1>1, <1>2, <3>1
  <2>2. f[j] # f[i]
    BY <1>0, <1>1, <1>2
  <2>3. f[i] \in Int /\ f[j] \in Int
    BY <1>1
  <2> QED
    BY <2>1, <2>2, <2>3
<1>3. ASSUME NEW x \in S
      PROVE  \E i \in 1 .. n : f[i] = x
  <2> DEFINE r == Cardinality(Lower(S, x))
  <2>1. r \in Nat
    BY LowerIsFinite
  <2>2. r < n
    <3>1. Lower(S, x) \subseteq S \ {x}
      BY DEF Lower
    <3>2. Cardinality(S \ {x}) = n - 1 /\ IsFiniteSet(S \ {x})
      BY FS_RemoveElement
    <3>3. r <= n - 1
      BY <3>1, <3>2, FS_Subset
    <3> QED
      BY <1>0, <2>1, <3>3
  <2>3. r + 1 \in 1 .. n /\ (r + 1) - 1 = r
    BY <1>0, <2>1, <2>2
  <2> DEFINE y == f[r + 1]
  <2>4. y \in S /\ Cardinality(Lower(S, y)) = r
    BY <1>1, <2>3
  <2> HIDE DEF y
  <2>5. ~(x < y) /\ ~(y < x)
    <3>1. x < y => r < Cardinality(Lower(S, y))
      <4> HIDE DEF r
      <4> QED
        BY <2>4, RankGrows DEF r
    <3>2. y < x => Cardinality(Lower(S, y)) < r
      BY <2>4, RankGrows
    <3> QED
      BY <2>1, <2>4, <3>1, <3>2
  <2>6. x = y
    BY <2>4, <2>5
  <2> QED
    BY <2>3, <2>6 DEF y
<1> QED
  BY <1>0, <1>1, <1>2, <1>3 DEF f

\* A sum over some is a sum over all in which the others weigh nothing.
LEMMA SumOfSome ==
  ASSUME NEW S, IsFiniteSet(S), NEW U \in SUBSET S, NEW w, \A x \in S : w[x] \in Int
  PROVE  SumFunctionOnSet(w, U) = SumFunctionOnSet([x \in S |-> IF x \in U THEN w[x] ELSE 0], S)
<1> DEFINE v == [x \in S |-> IF x \in U THEN w[x] ELSE 0]
<1>1. /\ \A x \in S : v[x] \in Int
      /\ \A x \in S \ U : v[x] = 0
      /\ \A x \in U : v[x] = w[x] /\ v[x] \in Int
  OBVIOUS
<1>2. IsFiniteSet(U)
  BY FS_Subset
<1> HIDE DEF v
<1>3. SumFunctionOnSet(v, S) = SumFunctionOnSet(v, U)
  BY <1>1, SumSubset
<1>4. SumFunctionOnSet(v, U) = SumFunctionOnSet(w, U)
  BY <1>1, <1>2, SumSame
<1> QED
  BY <1>3, <1>4 DEF v

\* A sum may be taken over what its elements stand for.
LEMMA SumThrough ==
  ASSUME NEW S, IsFiniteSet(S), NEW f, NEW w, NEW v,
         \A x \in S : w[x] \in Int /\ w[x] = v[f[x]],
         \A x, y \in S : f[x] = f[y] => x = y
  PROVE  SumFunctionOnSet(w, S) = SumFunctionOnSet(v, {f[x] : x \in S})
<1> DEFINE Good == {T \in SUBSET S : SumFunctionOnSet(w, T) = SumFunctionOnSet(v, {f[x] : x \in T})}
<1>1. {} \in Good
  <2>1. {f[x] : x \in {}} = {}
    OBVIOUS
  <2> QED
    BY <2>1, SumEmpty
<1>2. ASSUME NEW T \in SUBSET S, T # {}, \A x \in T : T \ {x} \in Good
      PROVE  T \in Good
  <2>1. PICK x \in T : TRUE
    BY <1>2
  <2> DEFINE U == {f[y] : y \in T}
             V == {f[y] : y \in T \ {x}}
  <2>2. IsFiniteSet(T) /\ IsFiniteSet(U)
    <3>1. IsFiniteSet(T)
      BY FS_Subset
    <3> QED
      BY <3>1, FiniteImage
  <2>3. SumFunctionOnSet(w, T) = w[x] + SumFunctionOnSet(w, T \ {x})
    BY <2>2, SumElements
  <2>4. f[x] \in U /\ \A u \in U : v[u] \in Int
    OBVIOUS
  <2>5. U \ {f[x]} = V
    OBVIOUS
  <2>6. SumFunctionOnSet(w, T \ {x}) = SumFunctionOnSet(v, V)
    BY <1>2
  <2> HIDE DEF U, V
  <2>7. SumFunctionOnSet(v, U) = v[f[x]] + SumFunctionOnSet(v, U \ {f[x]})
    BY <2>2, <2>4, SumElements
  <2>8. SumFunctionOnSet(w, T) = SumFunctionOnSet(v, U)
    BY <2>3, <2>5, <2>6, <2>7
  <2> QED
    BY <2>8 DEF U
<1>3. S \in Good
  <2>1. S \in SUBSET S
    OBVIOUS
  <2> HIDE DEF Good
  <2> QED
    BY <1>1, <1>2, <2>1, OneByOne
<1> QED
  BY <1>3

------------------------------------------------------------------------------
(* A pool as its contract keeps it, and the arithmetic of a swap.          *)

\* The liquidity of a pool has 128 bits, its nets are integers, and its ticks are ticks.
LEMMA PoolIs ==
  ASSUME NEW state, ValidPool(state)
  PROVE  /\ \A t : LiquidityAt(state, t) \in Nat /\ NetAt(state, t) \in Int
         /\ LiquidityAt(state, state.tick) \in 0 .. U128 - 1
         /\ state.sqrt_price \in MIN_SQRT_PRICE .. MAX_SQRT_PRICE
         /\ state.fee \in 0 .. FEE_RATE_DENOMINATOR - 1
         /\ InitializedTicks(state) \subseteq Tick
<1>1. /\ IsFiniteSet(state.positions)
      /\ \A p \in state.positions : p.lo \in Tick /\ p.hi \in Tick /\ p.size \in Nat
  BY DEF ValidPool
<1>2. ASSUME NEW t
      PROVE  LiquidityAt(state, t) \in Nat
  <2> DEFINE w == [p \in state.positions |-> p.size]
             S == {p \in state.positions : p.lo <= t /\ t < p.hi}
  <2>1. \A x \in S : w[x] \in Nat
    BY <1>1
  <2>2. IsFiniteSet(S)
    <3>1. S \in SUBSET state.positions
      OBVIOUS
    <3> QED
      BY <1>1, <3>1, FS_Subset
  <2> HIDE DEF w, S
  <2>3. SumFunctionOnSet(w, S) \in Nat
    BY <2>1, <2>2, SumNat
  <2> QED
    BY <2>3 DEF LiquidityAt, w, S
<1>3. ASSUME NEW t
      PROVE  NetAt(state, t) \in Int
  <2> DEFINE w == [p \in state.positions |-> (IF p.lo = t THEN p.size ELSE 0)
                                               - (IF p.hi = t THEN p.size ELSE 0)]
  <2>1. \A x \in state.positions : w[x] \in Int
    BY <1>1
  <2> HIDE DEF w
  <2>2. SumFunctionOnSet(w, state.positions) \in Int
    BY <1>1, <2>1, SumElements
  <2>3. NetAt(state, t) = state.upward * SumFunctionOnSet(w, state.positions)
    BY DEF NetAt, w
  <2>4. state.upward \in {1, -1}
    BY DEF ValidPool
  <2> QED
    BY <2>2, <2>3, <2>4
<1>4. state.sqrt_price \in MIN_SQRT_PRICE .. MAX_SQRT_PRICE
  <2>1. state.tick \in Tick /\ state.tick + 1 \in Tick
        /\ state.sqrt_price \in TickPrice[state.tick] .. TickPrice[state.tick + 1]
    BY DEF ValidPool
  <2>2. \A t \in Tick : TickPrice[t] \in MIN_SQRT_PRICE .. MAX_SQRT_PRICE
    BY CetusAssumption
  <2>3. MIN_SQRT_PRICE \in Nat /\ MAX_SQRT_PRICE \in Nat
    BY CetusAssumption
  <2>4. TickPrice[state.tick] \in MIN_SQRT_PRICE .. MAX_SQRT_PRICE
        /\ TickPrice[state.tick + 1] \in MIN_SQRT_PRICE .. MAX_SQRT_PRICE
    BY <2>1, <2>2
  <2> QED
    BY <2>1, <2>3, <2>4
<1>5. InitializedTicks(state) \subseteq Tick
  BY <1>1 DEF InitializedTicks
<1>6. U128 \in Nat
  BY CetusAssumption
<1>7. LiquidityAt(state, state.tick) < U128 /\ state.fee \in 0 .. FEE_RATE_DENOMINATOR - 1
  BY DEF ValidPool
<1> QED
  BY <1>2, <1>3, <1>4, <1>5, <1>6, <1>7

LEMMA Quotient ==
  ASSUME NEW a \in Nat, NEW b \in Nat \ {0}
  PROVE  /\ a \div b \in Nat /\ (a \div b) * b <= a /\ a < (a \div b + 1) * b
         /\ \A c \in Nat : c * b <= a => c <= a \div b
OBVIOUS

LEMMA RoundedUp ==
  ASSUME NEW a \in Nat, NEW b \in Nat \ {0}
  PROVE  CeilDiv(a, b) \in Nat /\ CeilDiv(a, b) * b >= a /\ CeilDiv(a, b) * b < a + b
<1>1. a + b - 1 \in Nat
  OBVIOUS
<1> DEFINE n == a + b - 1
           q == n \div b
<1>2. q \in Nat /\ q * b <= n /\ n < (q + 1) * b
  BY <1>1, Quotient
<1>3. (q + 1) * b = q * b + b
  BY <1>2
<1>4. q * b \in Nat
  BY <1>2
<1> HIDE DEF q
<1>5. q * b >= a /\ q * b < a + b
  BY <1>2, <1>3, <1>4
<1> QED
  BY <1>2, <1>5 DEF CeilDiv, q

\* What is left for the pool is no more than the amount, and is one less for a fee.
LEMMA AfterFeeIs ==
  ASSUME NEW amount \in Nat, NEW fee \in 0 .. FEE_RATE_DENOMINATOR - 1
  PROVE  /\ AfterFee(amount, fee) \in 0 .. amount
         /\ AfterFee(amount, fee) * FEE_RATE_DENOMINATOR <= amount * (FEE_RATE_DENOMINATOR - fee)
<1> DEFINE d == FEE_RATE_DENOMINATOR
           k == d - fee
           n == amount * k
           q == n \div d
<1>1. d \in Nat \ {0} /\ k \in Nat /\ k <= d
  BY CetusAssumption
<1> HIDE DEF d, k
<1>2. n \in Nat /\ n <= amount * d
  BY <1>1
<1> HIDE DEF n
<1>3. q \in Nat /\ q * d <= n
  BY <1>1, <1>2, Quotient
<1> HIDE DEF q
<1>4. q * d <= amount * d
  <2>1. q * d \in Int /\ amount * d \in Int
    BY <1>1, <1>3
  <2> QED
    BY <1>2, <1>3, <2>1
<1>5. q <= amount
  BY <1>1, <1>3, <1>4
<1> QED
  BY <1>3, <1>5 DEF AfterFee, q, n, k, d

------------------------------------------------------------------------------
(* The chart: types, and what is read of a pool as long as it stays the same. *)

LEMMA NetIs ==
  ASSUME ValidIndex(index), NEW p \in {index.forward, index.reverse} \ {None}
  PROVE  \A t : NetLiquidity(p, t) \in Int
<1>1. IsFiniteSet(p.positions) /\ \A q \in p.positions : q.lo \in Int /\ q.hi \in Int /\ q.size \in Nat
  BY ChartAssumption DEF ValidIndex
<1> SUFFICES ASSUME NEW t PROVE NetLiquidity(p, t) \in Int
  OBVIOUS
<1> DEFINE w == [q \in p.positions |-> (IF q.lo = t THEN q.size ELSE 0)
                                            - (IF q.hi = t THEN q.size ELSE 0)]
<1>2. \A q \in p.positions : w[q] \in Int
  BY <1>1
<1> HIDE DEF w
<1>3. SumFunctionOnSet(w, p.positions) \in Int
  BY <1>1, <1>2, SumElements
<1> QED
  BY <1>3 DEF NetLiquidity, w

\* What is read of a pool, and what is found of its ticks.
LEMMA FoundIs ==
  ASSUME ValidIndex(index), PoolRead
  PROVE  /\ SidePool \in {index.forward, index.reverse} \ {None}
         /\ IsFiniteSet(Found) /\ Found \in SUBSET Int /\ Cardinality(Found) \in Nat
         /\ \A t \in Found : TickOf(t) \in TickRecord
<1>1. SidePool \in {index.forward, index.reverse} \ {None}
  BY DEF PoolRead, SidePool
<1>2. Found \subseteq DOMAIN PairPrice
  BY DEF Found
<1>3. IsFiniteSet(Found) /\ Found \in SUBSET Int /\ Cardinality(Found) \in Nat
  BY <1>2, ChartAssumption, FS_Subset, FS_CardinalityType
<1>4. ASSUME NEW t \in Found
      PROVE  TickOf(t) \in TickRecord
  <2>1. NetLiquidity(SidePool, t) \in Int \ {0}
    BY <1>1, NetIs DEF Found
  <2>2. t \in DOMAIN PairPrice /\ -t \in DOMAIN PairPrice
    BY <1>2, ChartAssumption
  <2>3. UsdAt(t) \in Int
    BY <2>2, ChartAssumption DEF UsdAt, PriceAt, PoolRead
  <2> QED
    BY <2>1, <2>2, <2>3 DEF TickOf, TickRecord
<1> QED
  BY <1>1, <1>3, <1>4

ChartHolds == ChartOK /\ ChartTypes

LEMMA DashboardMarketTypes ==
  ASSUME ChartHolds, dashboard_market
  PROVE  ChartHolds'
<1>1. /\ chart_pc = "asked" /\ chart_pc' \in {"answered", "state"}
      /\ UNCHANGED <<chart_request, index, blocks, pool, ticks>>
  BY DEF dashboard_market, Answer
<1>2. chart' = chart \/ chart' \in {[status |-> "not_found"], [status |-> "unsupported"]}
  BY DEF dashboard_market, Answer
<1>3. level_prices' = level_prices \/ level_prices' = {l.trigger : l \in {l \in levels : ~l.filled}}
  BY DEF dashboard_market
<1>4. IsFiniteSet(level_prices') /\ level_prices' \subseteq Int
  <2> DEFINE open == {l \in levels : ~l.filled}
             trigger == [l \in open |-> l.trigger]
  <2>1. IsFiniteSet(open) /\ \A l \in open : l.trigger \in Int
    BY FS_Subset DEF ChartHolds, ChartOK
  <2>2. IsFiniteSet({trigger[l] : l \in open})
    <3> HIDE DEF open, trigger
    <3> QED
      BY <2>1, FiniteImage
  <2>3. {trigger[l] : l \in open} = {l.trigger : l \in open}
    OBVIOUS
  <2> QED
    BY <1>3, <2>1, <2>2, <2>3 DEF ChartHolds, ChartOK
<1>5. ChartOK'
  BY <1>1, <1>4 DEF ChartHolds, ChartOK, chart_request
<1>6. ChartTypes'
  <2>1. chart' # None => StatusCode' \in {200, 404, 422, 502}
    BY <1>2 DEF ChartHolds, ChartTypes, StatusCode
  <2> QED
    BY <1>1, <2>1 DEF ChartHolds, ChartTypes
<1> QED
  BY <1>5, <1>6 DEF ChartHolds

\* Of the candles of an index: a finite set of prices.
LEMMA CandlesAre ==
  ASSUME ValidIndex(index)
  PROVE  LET prices == UNION {{c.low, c.high} : c \in parse_prices}
         IN  IsFiniteSet(prices) /\ prices \subseteq Int
<1> DEFINE ends == [c \in parse_prices |-> {c.low, c.high}]
<1>1. parse_prices \subseteq index.candles
  BY DEF parse_prices
<1>2. IsFiniteSet(parse_prices) /\ \A c \in parse_prices : c.low \in Int /\ c.high \in Int
  BY <1>1, FS_Subset DEF ValidIndex
<1>3. IsFiniteSet({ends[c] : c \in parse_prices})
  <2> HIDE DEF ends
  <2> QED
    BY <1>2, FiniteImage
<1>4. {ends[c] : c \in parse_prices} = {{c.low, c.high} : c \in parse_prices}
  OBVIOUS
<1>5. \A T \in {{c.low, c.high} : c \in parse_prices} : IsFiniteSet(T)
  BY PairIsFinite
<1>6. IsFiniteSet(UNION {{c.low, c.high} : c \in parse_prices})
  BY <1>3, <1>4, <1>5, FS_UNION
<1>7. UNION {{c.low, c.high} : c \in parse_prices} \subseteq Int
  BY <1>2
<1> QED
  BY <1>6, <1>7

LEMMA MarketStateTypes ==
  ASSUME ChartHolds, market_state
  PROVE  ChartHolds'
<1> DEFINE prices == UNION {{c.low, c.high} : c \in parse_prices}
           found  == best_pool
           now    == PriceAt(found.base_is_token0, found.state.tick)
           usd    == quote_usd(find_token(ChartChain, strategy.quote_token))
<1>1. /\ chart_pc = "state" /\ ticks = <<>> /\ ticks' = <<>> /\ ValidIndex(index)
      /\ UNCHANGED <<chart_request, index, blocks, level_prices, ticks>>
  BY DEF market_state, ChartHolds, ChartOK
<1>2. CASE chart_pc' = "answered"
  <2>1. chart' \in {[status |-> "unavailable"], [status |-> "no_pool"]} \/ chart' = chart
    BY <1>2 DEF market_state, Answer
  <2>2. chart' # None => StatusCode' \in {200, 404, 422, 502}
    BY <2>1 DEF ChartHolds, ChartTypes, StatusCode
  <2>3. ChartOK'
    BY <1>1, <1>2 DEF ChartHolds, ChartOK, chart_request
  <2>4. ChartTypes'
    BY <1>1, <1>2, <2>2 DEF ChartHolds, ChartTypes
  <2> QED
    BY <2>3, <2>4 DEF ChartHolds
<1>3. CASE chart_pc' # "answered"
  <2>1. /\ ~(index.forward = None /\ index.reverse = None)
        /\ usd # None /\ ~(\E p \in prices \cup level_prices : p <= 0)
        /\ chart_pc' = "ticks" /\ chart' = chart
        /\ pool' = [tick |-> found.state.tick, pair_price |-> now,
                    liquidity |-> Covering(found.state, found.state.tick),
                    base_is_token0 |-> found.base_is_token0, quote_usd |-> usd,
                    prices |-> parse_prices,
                    bounds |-> pair_price_bounds(prices \cup level_prices, now * usd)]
    <3> DEFINE base  == find_token(ChartChain, strategy.base_token)
               quote == find_token(ChartChain, strategy.quote_token)
    <3>1. ~Answer("unavailable") /\ ~Answer("no_pool")
      BY <1>3 DEF Answer
    <3>2. ~(base = None \/ quote = None \/ index.errors)
      BY <3>1 DEF market_state
    <3>3. ~(index.forward = None /\ index.reverse = None)
      BY <3>1, <3>2 DEF market_state
    <3>4. IF usd = None \/ (\E p \in prices \cup level_prices : p <= 0)
          THEN Answer("unavailable") /\ UNCHANGED pool
          ELSE /\ chart_pc' = "ticks" /\ UNCHANGED chart
               /\ pool' = [tick |-> found.state.tick, pair_price |-> now,
                           liquidity |-> Covering(found.state, found.state.tick),
                           base_is_token0 |-> found.base_is_token0, quote_usd |-> usd,
                           prices |-> parse_prices,
                           bounds |-> pair_price_bounds(prices \cup level_prices, now * usd)]
      BY <3>1, <3>2, <3>3 DEF market_state
    <3> QED
      BY <3>1, <3>3, <3>4
  <2>2. /\ found.base_is_token0 \in BOOLEAN
        /\ found.state = (IF found.base_is_token0 THEN index.forward ELSE index.reverse)
        /\ found.state \in {index.forward, index.reverse} \ {None}
    BY <2>1 DEF best_pool
  <2>3. found.state.tick \in DOMAIN PairPrice
    BY <1>1, <2>2 DEF ValidIndex
  <2>4. usd \in Nat \ {0}
    BY <1>1, <2>1 DEF quote_usd, ValidIndex
  <2> HIDE DEF found, usd
  <2>5. SidePool' = found.state
    BY <1>1, <2>1, <2>2 DEF SidePool
  <2>6. PoolRead'
    <3>1. IsFiniteSet(prices) /\ prices \cup level_prices \subseteq Nat \ {0}
      <4>1. IsFiniteSet(prices) /\ prices \subseteq Int
        BY <1>1, CandlesAre
      <4> HIDE DEF prices
      <4>2. level_prices \subseteq Int
        BY DEF ChartHolds, ChartOK
      <4> QED
        BY <2>1, <4>1, <4>2
    <3>2. Candles' = prices
      BY <2>1 DEF Candles
    <3> HIDE DEF prices
    <3>4. /\ pool'.base_is_token0 = found.base_is_token0 /\ pool'.quote_usd = usd
          /\ pool'.tick = found.state.tick /\ pool'.pair_price = now
          /\ pool'.bounds = pair_price_bounds(prices \cup level_prices, now * usd)
      BY <2>1
    <3>5. PriceAt(pool.base_is_token0, pool.tick)' = now
      BY <3>4 DEF PriceAt
    <3>6. pair_price_bounds(Candles \cup level_prices, pool.pair_price * pool.quote_usd)'
            = pair_price_bounds(prices \cup level_prices, now * usd)
      BY <1>1, <3>2, <3>4 DEF pair_price_bounds
    <3> HIDE DEF now
    <3> QED
      BY <1>1, <2>2, <2>3, <2>4, <2>5, <3>1, <3>2, <3>4, <3>5, <3>6 DEF PoolRead
  <2>7. AsIndexed'
    <3>1. /\ pool'.tick = SidePool'.tick
          /\ pool'.liquidity = Covering(found.state, found.state.tick)
      BY <2>1, <2>5
    <3>2. Covering(SidePool, SidePool.tick)' = Covering(found.state, found.state.tick)
      BY <2>5 DEF Covering
    <3>3. Len(ticks') = 0
      BY <1>1, EmptySeq
    <3>4. Found' \subseteq DOMAIN PairPrice
      BY DEF Found
    <3>5. Cardinality(Found') \in Nat
      BY <3>4, ChartAssumption, FS_Subset, FS_CardinalityType
    <3> QED
      BY <2>1, <3>1, <3>2, <3>3, <3>5 DEF AsIndexed
  <2>8. ChartOK'
    BY <1>1, <2>1, <2>6, <2>7 DEF ChartHolds, ChartOK, chart_request
  <2>9. ChartTypes'
    BY <1>1, <2>1 DEF ChartHolds, ChartTypes, StatusCode
  <2> QED
    BY <2>8, <2>9 DEF ChartHolds
<1> QED
  BY <1>2, <1>3

LEMMA FetchPageTypes ==
  ASSUME ChartHolds, FetchPage
  PROVE  ChartHolds'
<1>1. /\ chart_pc = "ticks" /\ ValidIndex(index) /\ PoolRead /\ ticks \in Seq(TickRecord)
      /\ UNCHANGED <<chart_request, index, blocks, level_prices, pool>>
  BY DEF FetchPage, ChartHolds, ChartOK
<1>2. CASE Answer("unavailable") /\ UNCHANGED ticks
  <2>1. ChartOK'
    BY <1>1, <1>2 DEF Answer, ChartHolds, ChartOK, chart_request
  <2>2. ChartTypes'
    BY <1>1, <1>2 DEF Answer, ChartHolds, ChartTypes, StatusCode
  <2> QED
    BY <2>1, <2>2 DEF ChartHolds
<1>3. CASE ~(Answer("unavailable") /\ UNCHANGED ticks)
  <2> DEFINE n == Cardinality(Found)
             left == Min({TICK_PAGE_SIZE, n - Len(ticks)})
             count == IF left < 0 THEN 0 ELSE left
  <2>1. /\ ticks' = ticks \o Page /\ chart' = chart
        /\ chart_pc' = IF Len(Page) < TICK_PAGE_SIZE THEN "points" ELSE "ticks"
    BY <1>3 DEF FetchPage
  <2>2. /\ n \in Nat /\ IsFiniteSet(Found) /\ Found \in SUBSET Int
        /\ \A t \in Found : TickOf(t) \in TickRecord
    BY <1>1, FoundIs
  <2>3. Len(ticks) \in Nat
    BY <1>1, LenProperties
  <2>4. /\ left \in Int /\ left <= TICK_PAGE_SIZE /\ left <= n - Len(ticks)
        /\ left \in {TICK_PAGE_SIZE, n - Len(ticks)}
    <3>1. TICK_PAGE_SIZE \in Int /\ n - Len(ticks) \in Int
      BY <2>2, <2>3, ChartAssumption
    <3> QED
      BY <3>1, OfTwo
  <2>5. Page = [i \in 1 .. left |-> TickOf(InOrder(Found)[Len(ticks) + i])]
    BY DEF Page
  <2> HIDE DEF n, left
  <2>6. count \in Nat /\ 1 .. left = 1 .. count /\ \A i \in 1 .. count : Len(ticks) + i \in 1 .. n
    BY <2>2, <2>3, <2>4
  <2>7. /\ Page = [i \in 1 .. count |-> Page[i]]
        /\ \A i \in 1 .. count : Page[i] = TickOf(InOrder(Found)[Len(ticks) + i])
    BY <2>5, <2>6
  <2>8. \A i \in 1 .. count : Page[i] \in TickRecord
    <3>1. \A j \in 1 .. n : InOrder(Found)[j] \in Found
      BY <2>2, InOrderIs DEF n
    <3> QED
      BY <2>2, <2>6, <2>7, <3>1
  <2>9. Page \in Seq(TickRecord) /\ Len(Page) = count
    BY <2>6, <2>7, <2>8, ListIs
  <2> HIDE DEF count
  <2>10. /\ ticks' \in Seq(TickRecord) /\ Len(ticks') = Len(ticks) + count
         /\ \A i \in 1 .. Len(ticks) + count :
              ticks'[i] = IF i <= Len(ticks) THEN ticks[i] ELSE Page[i - Len(ticks)]
    BY <1>1, <2>1, <2>9, ConcatProperties
  <2>11. PoolRead'
    BY <1>1 DEF PoolRead, SidePool, PriceAt, Candles, pair_price_bounds
  <2>12. ASSUME blocks = 0
         PROVE  AsIndexed'
    <3>1. AsIndexed
      BY <1>1, <2>12 DEF ChartHolds, ChartOK
    <3>2. SidePool' = SidePool /\ Found' = Found
      BY <1>1 DEF SidePool, Found, UsdAt, PriceAt
    <3>3. \A t : TickOf(t)' = TickOf(t)
      BY <1>1, <3>2 DEF TickOf, UsdAt, PriceAt
    <3>4. count <= n - Len(ticks) /\ Len(ticks) <= n
      BY <2>2, <2>3, <2>4, <3>1 DEF AsIndexed, n, count
    <3>5. Len(ticks') <= Cardinality(Found')
      BY <2>2, <2>3, <2>6, <2>10, <3>2, <3>4 DEF n
    <3>6. ASSUME NEW i \in 1 .. Len(ticks')
          PROVE  ticks'[i] = TickOf(InOrder(Found)[i])'
      <4>1. i \in 1 .. Len(ticks) + count
        BY <2>10
      <4>2. CASE i <= Len(ticks)
        BY <2>3, <2>10, <3>1, <3>2, <3>3, <4>1, <4>2 DEF AsIndexed
      <4>3. CASE ~(i <= Len(ticks))
        <5>1. i - Len(ticks) \in 1 .. count /\ Len(ticks) + (i - Len(ticks)) = i
          BY <2>3, <2>6, <4>1, <4>3
        <5>2. Page[i - Len(ticks)] = TickOf(InOrder(Found)[i])
          BY <2>7, <5>1
        <5> QED
          BY <2>10, <3>2, <3>3, <4>1, <4>3, <5>2
      <4> QED
        BY <4>2, <4>3
    <3>7. chart_pc' = "points" => Len(ticks') = Cardinality(Found')
      <4> SUFFICES ASSUME chart_pc' = "points" PROVE Len(ticks') = Cardinality(Found')
        OBVIOUS
      <4>1. count < TICK_PAGE_SIZE
        BY <2>1, <2>9
      <4>2. left = n - Len(ticks)
        BY <2>2, <2>3, <2>4, <3>4, <4>1, ChartAssumption DEF count
      <4>3. count = n - Len(ticks)
        BY <2>2, <2>3, <3>4, <4>2 DEF count
      <4> QED
        BY <2>2, <2>3, <2>10, <3>2, <4>3 DEF n
    <3>8. pool'.tick = SidePool'.tick /\ pool'.liquidity = Covering(SidePool, SidePool.tick)'
      BY <1>1, <3>1, <3>2 DEF AsIndexed, Covering
    <3> QED
      BY <3>5, <3>6, <3>7, <3>8 DEF AsIndexed
  <2>13. ChartOK'
    BY <1>1, <2>1, <2>10, <2>11, <2>12 DEF ChartHolds, ChartOK, chart_request
  <2>14. ChartTypes'
    <3>1. \A i \in DOMAIN ticks' : ticks'[i] \in TickRecord
      BY <2>10, LenProperties, ElementOfSeq
    <3>2. UNCHANGED <<chart_request, level_prices, pool, chart>>
      BY <1>1, <2>1
    <3>3. \A i \in DOMAIN ticks' : ticks'[i].index \in DOMAIN PairPrice /\ ticks'[i].net # 0
      BY <3>1 DEF TickRecord
    <3>4. chart # None => StatusCode \in {200, 404, 422, 502}
      BY DEF ChartHolds, ChartTypes
    <3>5. (chart # None => StatusCode \in {200, 404, 422, 502})'
      BY <3>2, <3>4 DEF StatusCode
    <3>6. blocks' \in 0 .. MaxBlocks
      BY <1>1, <2>1 DEF ChartHolds, ChartTypes
    <3> QED
      BY <1>1, <2>1, <3>3, <3>5, <3>6 DEF ChartTypes
  <2> QED
    BY <2>13, <2>14 DEF ChartHolds
<1> QED
  BY <1>2, <1>3

LEMMA LiquidityPointsTypes ==
  ASSUME ChartHolds, liquidity_points
  PROVE  ChartHolds'
<1>1. /\ chart_pc' = "answered" /\ UNCHANGED <<chart_request, index, blocks, level_prices, pool, ticks>>
      /\ chart'.status \in {"unavailable", "ok"}
  BY DEF liquidity_points
<1>2. ChartOK'
  BY <1>1 DEF ChartHolds, ChartOK, chart_request, liquidity_points
<1>3. ChartTypes'
  BY <1>1 DEF ChartHolds, ChartTypes, StatusCode
<1> QED
  BY <1>2, <1>3 DEF ChartHolds

LEMMA IndexBlockTypes ==
  ASSUME ChartHolds, IndexBlock
  PROVE  ChartHolds'
<1>1. /\ UNCHANGED <<chart_request, chart_pc, level_prices, pool, ticks, chart>>
      /\ blocks < MaxBlocks /\ blocks' = blocks + 1 /\ index' \in IndexStates
      /\ (index'.forward = None) = (index.forward = None)
      /\ (index'.reverse = None) = (index.reverse = None)
  BY DEF IndexBlock
<1>2. ValidIndex(index')
  BY <1>1, ChartAssumption
<1>3. blocks' \in 1 .. MaxBlocks
  BY <1>1, ChartAssumption DEF ChartHolds, ChartTypes
<1>4. PoolRead => PoolRead'
  <2>1. SidePool # None => SidePool' # None
    BY <1>1 DEF SidePool
  <2> QED
    BY <1>1, <2>1 DEF PoolRead, PriceAt, Candles, pair_price_bounds
<1>5. ChartOK'
  BY <1>1, <1>2, <1>3, <1>4 DEF ChartHolds, ChartOK, chart_request
<1>6. ChartTypes'
  BY <1>1, <1>3 DEF ChartHolds, ChartTypes, StatusCode
<1> QED
  BY <1>5, <1>6 DEF ChartHolds

LEMMA ChartStays ==
  ASSUME ChartHolds, UNCHANGED chart_vars
  PROVE  ChartHolds'
<1>1. SidePool' = SidePool /\ Found' = Found
  BY DEF SidePool, Found, UsdAt, PriceAt, chart_vars
<1>2. \A t : TickOf(t)' = TickOf(t)
  BY <1>1 DEF TickOf, UsdAt, PriceAt, chart_vars
<1>3. PoolRead => PoolRead'
  BY <1>1 DEF PoolRead, PriceAt, Candles, pair_price_bounds, chart_vars
<1>4. AsIndexed => AsIndexed'
  BY <1>1, <1>2 DEF AsIndexed, Covering, chart_vars
<1>5. ChartOK'
  BY <1>3, <1>4 DEF ChartHolds, ChartOK, chart_vars, chart_request
<1>6. ChartTypes'
  BY DEF ChartHolds, ChartTypes, StatusCode, chart_vars
<1> QED
  BY <1>5, <1>6 DEF ChartHolds

LEMMA ChartKeeps ==
  ASSUME ChartHolds, ChartNext \/ IndexBlock \/ UNCHANGED chart_vars
  PROVE  ChartHolds'
BY DashboardMarketTypes, MarketStateTypes, FetchPageTypes, LiquidityPointsTypes, IndexBlockTypes,
   ChartStays DEF ChartNext

------------------------------------------------------------------------------
(* The points of a chart are true.                                         *)

Positions(p) ==
  /\ IsFiniteSet(p.positions)
  /\ \A q \in p.positions :
       q.lo \in DOMAIN PairPrice /\ q.hi \in DOMAIN PairPrice /\ q.lo < q.hi /\ q.size \in Nat

LEMMA CoverIs ==
  ASSUME NEW p, Positions(p), NEW t \in Int
  PROVE  /\ Covering(p, t) \in Int /\ NetLiquidity(p, t) \in Int
         /\ Covering(p, t) = Covering(p, t - 1) + NetLiquidity(p, t)
         /\ NetLiquidity(p, t) # 0 => t \in DOMAIN PairPrice
<1> DEFINE size == [q \in p.positions |-> q.size]
           at_(u) == {q \in p.positions : q.lo <= u /\ u < q.hi}
           w(u) == [q \in p.positions |-> IF q \in at_(u) THEN size[q] ELSE 0]
           net == [q \in p.positions |-> (IF q.lo = t THEN q.size ELSE 0)
                                            - (IF q.hi = t THEN q.size ELSE 0)]
<1>1. IsFiniteSet(p.positions) /\ \A q \in p.positions : q.lo \in Int /\ q.hi \in Int /\ q.lo < q.hi /\ q.size \in Int
  BY ChartAssumption DEF Positions
<1>2. /\ \A q \in p.positions : size[q] \in Int /\ net[q] \in Int /\ w(t)[q] \in Int /\ w(t - 1)[q] \in Int
      /\ at_(t) \in SUBSET p.positions /\ at_(t - 1) \in SUBSET p.positions
  BY <1>1
<1>3. \A q \in p.positions : w(t)[q] = w(t - 1)[q] + 1 * net[q]
  BY <1>1
<1>4. NetLiquidity(p, t) = SumFunctionOnSet(net, p.positions)
  BY DEF NetLiquidity
<1>5. Covering(p, t) = SumFunctionOnSet(size, at_(t)) /\ Covering(p, t - 1) = SumFunctionOnSet(size, at_(t - 1))
  BY DEF Covering
<1>6. ASSUME t \notin DOMAIN PairPrice
      PROVE  \A q \in p.positions : net[q] = 0
  BY <1>1, <1>6 DEF Positions
<1> HIDE DEF size, at_, net
<1>7. Covering(p, t) = SumFunctionOnSet(w(t), p.positions)
  BY <1>1, <1>2, <1>5, SumOfSome
<1>8. Covering(p, t - 1) = SumFunctionOnSet(w(t - 1), p.positions)
  BY <1>1, <1>2, <1>5, SumOfSome
<1> DEFINE now == w(t)
           before == w(t - 1)
<1>9. /\ SumFunctionOnSet(now, p.positions) \in Int /\ SumFunctionOnSet(before, p.positions) \in Int
      /\ SumFunctionOnSet(net, p.positions) \in Int
  <2> HIDE DEF now, before, w
  <2>1. \A q \in p.positions : net[q] \in Int
    BY <1>2
  <2>2. \A q \in p.positions : now[q] \in Int /\ before[q] \in Int
    BY <1>2 DEF now, before
  <2> QED
    BY <1>1, <2>1, <2>2, SumElements
<1>10. SumFunctionOnSet(now, p.positions) = SumFunctionOnSet(before, p.positions) + 1 * SumFunctionOnSet(net, p.positions)
  <2>1. \A q \in p.positions : now[q] \in Int /\ before[q] \in Int /\ net[q] \in Int /\ now[q] = before[q] + 1 * net[q]
    BY <1>2, <1>3
  <2> HIDE DEF now, before, w
  <2> QED
    BY <1>1, <2>1, SumLinear
<1>11. NetLiquidity(p, t) # 0 => t \in DOMAIN PairPrice
  BY <1>1, <1>4, <1>6, SumZero
<1> HIDE DEF w
<1>12. Covering(p, t) = Covering(p, t - 1) + NetLiquidity(p, t)
  <2> DEFINE a == SumFunctionOnSet(now, p.positions)
             b == SumFunctionOnSet(before, p.positions)
             c == SumFunctionOnSet(net, p.positions)
  <2>1. Covering(p, t) = a /\ Covering(p, t - 1) = b /\ NetLiquidity(p, t) = c
    BY <1>4, <1>7, <1>8
  <2>2. a \in Int /\ b \in Int /\ c \in Int /\ a = b + 1 * c
    BY <1>9, <1>10
  <2> HIDE DEF a, b, c
  <2> QED
    BY <2>1, <2>2
<1> QED
  BY <1>4, <1>7, <1>9, <1>11, <1>12 DEF now

\* From one tick up to another the liquidity changes by what the ticks on the way add.
LEMMA CoverThrough ==
  ASSUME NEW p, Positions(p), NEW a \in Int, NEW b \in Int, a <= b,
         NEW F \in SUBSET Int, IsFiniteSet(F),
         \A t \in Int : a < t /\ t <= b /\ NetLiquidity(p, t) # 0 => t \in F
  PROVE  Covering(p, b)
           = Covering(p, a) + SumFunctionOnSet([t \in F |-> NetLiquidity(p, t)], {t \in F : a < t /\ t <= b})
<1> DEFINE net == [t \in F |-> NetLiquidity(p, t)]
           upto(m) == {t \in F : a < t /\ t <= a + m}
           Holds(m) == Covering(p, a + m) = Covering(p, a) + SumFunctionOnSet(net, upto(m))
           N == {m \in Nat : m <= b - a => Holds(m)}
<1>1. \A t \in Int : /\ Covering(p, t) \in Int /\ NetLiquidity(p, t) \in Int
                     /\ Covering(p, t) = Covering(p, t - 1) + NetLiquidity(p, t)
  BY CoverIs
<1>2. \A t \in F : net[t] \in Int /\ net[t] = NetLiquidity(p, t)
  BY <1>1
<1> HIDE DEF net
<1>3. 0 \in N
  <2>1. upto(0) = {} /\ a + 0 = a
    <3>1. \A t \in F : ~(a < t /\ t <= a + 0)
      OBVIOUS
    <3>2. a + 0 = a
      OBVIOUS
    <3> QED
      BY <3>1, <3>2
  <2>2. SumFunctionOnSet(net, upto(0)) = 0
    BY <2>1, SumEmpty
  <2> HIDE DEF upto
  <2> QED
    BY <1>1, <2>1, <2>2
<1>4. ASSUME NEW m \in N
      PROVE  m + 1 \in N
  <2>1. m \in Nat
    OBVIOUS
  <2> SUFFICES ASSUME m + 1 <= b - a PROVE Holds(m + 1)
    BY <2>1
  <2> DEFINE t == a + (m + 1)
  <2>2. Holds(m) /\ t \in Int /\ t - 1 = a + m /\ a < t /\ t <= b
    BY <2>1
  <2>3. Covering(p, t) = Covering(p, a + m) + NetLiquidity(p, t)
    <3> HIDE DEF t
    <3> QED
      BY <1>1, <2>2
  <2>4. IsFiniteSet(upto(m + 1)) /\ \A x \in upto(m + 1) : net[x] \in Int
    <3>1. upto(m + 1) \in SUBSET F
      OBVIOUS
    <3> QED
      BY <1>2, <3>1, FS_Subset
  <2>5. IsFiniteSet(upto(m)) /\ \A x \in upto(m) : net[x] \in Int
    <3>1. upto(m) \in SUBSET F
      OBVIOUS
    <3> QED
      BY <1>2, <3>1, FS_Subset
  <2>6. SumFunctionOnSet(net, upto(m)) \in Int
    <3> HIDE DEF upto
    <3> QED
      BY <2>5, SumElements
  <2>7. CASE t \in F
    <3>1. t \in upto(m + 1) /\ upto(m + 1) \ {t} = upto(m)
      <4>1. \A x \in F : x <= a + (m + 1) /\ x # t <=> x <= a + m
        BY <2>1
      <4>2. a < t /\ t <= a + (m + 1)
        BY <2>1
      <4> HIDE DEF t
      <4> QED
        BY <2>7, <4>1, <4>2
    <3> HIDE DEF upto, t
    <3>2. SumFunctionOnSet(net, upto(m + 1)) = net[t] + SumFunctionOnSet(net, upto(m + 1) \ {t})
      BY <2>4, <3>1, SumElements
    <3>3. Covering(p, t) = Covering(p, a) + SumFunctionOnSet(net, upto(m + 1))
      <4> DEFINE all == SumFunctionOnSet(net, upto(m + 1))
                 some == SumFunctionOnSet(net, upto(m))
      <4>1. all = NetLiquidity(p, t) + some
        BY <1>2, <2>7, <3>1, <3>2
      <4>2. Covering(p, t) = (Covering(p, a) + some) + NetLiquidity(p, t)
        BY <2>2, <2>3
      <4>3. Covering(p, a) \in Int /\ NetLiquidity(p, t) \in Int /\ some \in Int
        BY <1>1, <2>2, <2>6
      <4> HIDE DEF all, some
      <4>4. Covering(p, t) = Covering(p, a) + all
        BY <4>1, <4>2, <4>3
      <4> QED
        BY <4>4 DEF all
    <3> QED
      BY <3>3 DEF t
  <2>8. CASE t \notin F
    <3>1. upto(m + 1) = upto(m)
      <4>1. \A x \in F : x # t
        BY <2>8
      <4>2. \A x \in F : x <= a + (m + 1) <=> x <= a + m
        BY <2>1, <4>1
      <4> HIDE DEF t
      <4> QED
        BY <4>2
    <3>2. NetLiquidity(p, t) = 0
      <4> HIDE DEF t
      <4> QED
        BY <2>2, <2>8
    <3> HIDE DEF upto
    <3>3. Covering(p, t) = Covering(p, a) + SumFunctionOnSet(net, upto(m + 1))
      <4> HIDE DEF t
      <4> QED
        BY <1>1, <2>2, <2>3, <2>6, <3>1, <3>2
    <3> QED
      BY <3>3
  <2> QED
    BY <2>7, <2>8
<1>5. b - a \in N
  <2>1. N \in SUBSET Nat
    OBVIOUS
  <2>2. N = Nat
    <3> HIDE DEF N
    <3> QED
      BY <1>3, <1>4, <2>1, FromNought
  <2> HIDE DEF N
  <2> QED
    BY <2>2
<1>6. Holds(b - a)
  BY <1>5
<1>7. a + (b - a) = b
  OBVIOUS
<1> QED
  BY <1>6, <1>7 DEF net

Shown == (Candles \cup level_prices) \cup {pool.pair_price * pool.quote_usd}

\* The prices asked for hold all that are shown, the current one among them.
LEMMA BoundsAre ==
  ASSUME PoolRead, IsFiniteSet(level_prices)
  PROVE  /\ Min(Shown) \in Nat \ {0} /\ Max(Shown) \in Nat /\ UsdAt(pool.tick) \in Shown
         /\ \A x \in Shown : x \in Nat /\ Min(Shown) <= x /\ x <= Max(Shown)
         /\ pool.bounds[1] = Min(Shown) * 95 /\ pool.bounds[2] = Max(Shown) * 105
<1> DEFINE current == pool.pair_price * pool.quote_usd
<1>1. pool.pair_price \in Nat \ {0} /\ pool.quote_usd \in Nat \ {0}
  BY ChartAssumption DEF PoolRead, PriceAt
<1>2. current \in Nat \ {0}
  BY <1>1
<1>3. UsdAt(pool.tick) = current
  BY DEF PoolRead, UsdAt
<1> HIDE DEF current
<1>4. IsFiniteSet(Candles \cup level_prices)
  BY FS_Union DEF PoolRead
<1>5. IsFiniteSet((Candles \cup level_prices) \cup {current})
  BY <1>4, FS_AddElement
<1>6. Shown = (Candles \cup level_prices) \cup {current}
  BY DEF Shown, current
<1>7. IsFiniteSet(Shown) /\ Shown \subseteq Nat \ {0} /\ Shown # {}
  BY <1>2, <1>5, <1>6 DEF PoolRead
<1>8. Shown \in SUBSET Int
  BY <1>7
<1>9. /\ Min(Shown) \in Shown /\ Max(Shown) \in Shown
      /\ \A x \in Shown : Min(Shown) <= x /\ x <= Max(Shown)
  BY <1>7, <1>8, Extremes
<1>10. pool.bounds = <<Min(Shown) * 95, Max(Shown) * 105>>
  BY DEF PoolRead, pair_price_bounds, Shown
<1>11. pool.bounds[1] = Min(Shown) * 95 /\ pool.bounds[2] = Max(Shown) * 105
  BY <1>10
<1>12. UsdAt(pool.tick) \in Shown
  BY <1>3, <1>6
<1>13. \A x \in Shown : x \in Nat \ {0}
  BY <1>7
<1> QED
  BY <1>9, <1>11, <1>12, <1>13

\* Prices go one way through the ticks.
LEMMA BetweenTicks ==
  ASSUME PoolRead, NEW a \in DOMAIN PairPrice, NEW b \in DOMAIN PairPrice,
         NEW t \in DOMAIN PairPrice, a <= t, t <= b
  PROVE  /\ UsdAt(a) \in Nat /\ UsdAt(b) \in Nat /\ UsdAt(t) \in Nat
         /\ \/ UsdAt(a) <= UsdAt(t) /\ UsdAt(t) <= UsdAt(b)
            \/ UsdAt(b) <= UsdAt(t) /\ UsdAt(t) <= UsdAt(a)
<1> DEFINE is0 == pool.base_is_token0
           x == PriceAt(is0, a)
           y == PriceAt(is0, t)
           z == PriceAt(is0, b)
           usd == pool.quote_usd
<1>1. is0 \in BOOLEAN /\ usd \in Nat
  BY DEF PoolRead
<1>2. a \in Int /\ b \in Int /\ t \in Int
  BY ChartAssumption
<1>3. \A u \in DOMAIN PairPrice : -u \in DOMAIN PairPrice /\ PairPrice[u] \in Nat
  BY ChartAssumption
<1>4. \A u, v \in DOMAIN PairPrice : u <= v => PairPrice[u] <= PairPrice[v]
  <2>1. \A u, v \in DOMAIN PairPrice : u <= v => u = v \/ u < v
    BY ChartAssumption
  <2> QED
    BY <1>3, <2>1, ChartAssumption
<1>5. -t <= -a /\ -b <= -t
  BY <1>2
<1>6. /\ x \in Nat /\ y \in Nat /\ z \in Nat
      /\ \/ x <= y /\ y <= z
         \/ z <= y /\ y <= x
  <2>1. CASE is0
    BY <1>3, <1>4, <2>1 DEF PriceAt
  <2>2. CASE ~is0
    BY <1>3, <1>4, <1>5, <2>2 DEF PriceAt
  <2> QED
    BY <1>1, <2>1, <2>2
<1>7. UsdAt(a) = x * usd /\ UsdAt(t) = y * usd /\ UsdAt(b) = z * usd
  BY DEF UsdAt
<1> HIDE DEF x, y, z, usd
<1>8. x * usd \in Nat /\ y * usd \in Nat /\ z * usd \in Nat
  BY <1>1, <1>6
<1>9. /\ x <= y => x * usd <= y * usd
      /\ y <= z => y * usd <= z * usd
      /\ z <= y => z * usd <= y * usd
      /\ y <= x => y * usd <= x * usd
  BY <1>1, <1>6
<1> QED
  BY <1>6, <1>7, <1>8, <1>9

\* Nothing that changes the liquidity is left out between a tick found and the pool's.
LEMMA FoundBetween ==
  ASSUME PoolRead, IsFiniteSet(level_prices), ValidIndex(index), NEW a \in Found
  PROVE  \A t \in Int : /\ NetLiquidity(SidePool, t) # 0
                        /\ (a <= t /\ t <= pool.tick) \/ (pool.tick <= t /\ t <= a)
                        => t \in Found
<1> SUFFICES ASSUME NEW t \in Int, NetLiquidity(SidePool, t) # 0,
                    (a <= t /\ t <= pool.tick) \/ (pool.tick <= t /\ t <= a)
             PROVE  t \in Found
  OBVIOUS
<1>1. SidePool \in {index.forward, index.reverse} \ {None}
  BY FoundIs
<1>2. Positions(SidePool)
  BY <1>1 DEF ValidIndex, Positions
<1>3. t \in DOMAIN PairPrice
  BY <1>2, CoverIs
<1>4. a \in DOMAIN PairPrice /\ pool.tick \in DOMAIN PairPrice
  BY DEF Found, PoolRead
<1>5. /\ UsdAt(a) \in Nat /\ UsdAt(pool.tick) \in Nat /\ UsdAt(t) \in Nat
      /\ \/ UsdAt(a) <= UsdAt(t) /\ UsdAt(t) <= UsdAt(pool.tick)
         \/ UsdAt(pool.tick) <= UsdAt(t) /\ UsdAt(t) <= UsdAt(a)
  BY <1>3, <1>4, BetweenTicks
<1>6. UsdAt(a) * 100 \in pool.bounds[1] .. pool.bounds[2]
  BY DEF Found
<1>7. UsdAt(pool.tick) * 100 \in pool.bounds[1] .. pool.bounds[2]
  BY <1>5, BoundsAre
<1>8. UsdAt(t) * 100 \in pool.bounds[1] .. pool.bounds[2]
  <2>1. pool.bounds[1] \in Int /\ pool.bounds[2] \in Int
    BY BoundsAre
  <2> QED
    BY <1>5, <1>6, <1>7, <2>1
<1> QED
  BY <1>3, <1>8 DEF Found

\* The ticks are those found, in their order.
LEMMA TicksAre ==
  ASSUME ChartHolds, chart_pc = "points", blocks = 0
  PROVE  /\ ValidIndex(index) /\ PoolRead /\ AsIndexed /\ IsFiniteSet(level_prices)
         /\ Positions(SidePool)
         /\ IsFiniteSet(Found) /\ Found \in SUBSET Int
         /\ IsFiniteSet(DOMAIN ticks)
         /\ \A k \in DOMAIN ticks : /\ ticks[k].index \in Found
                                    /\ ticks[k] = TickOf(ticks[k].index)
         /\ \A j, k \in DOMAIN ticks : /\ j \in Int /\ k \in Int
                                       /\ (j <= k) = (ticks[j].index <= ticks[k].index)
         /\ \A t \in Found : \E k \in DOMAIN ticks : ticks[k].index = t
<1>1. ValidIndex(index) /\ PoolRead /\ AsIndexed /\ IsFiniteSet(level_prices) /\ ticks \in Seq(TickRecord)
  BY DEF ChartHolds, ChartOK
<1>2. Positions(SidePool)
  <2>1. SidePool \in {index.forward, index.reverse} \ {None}
    BY <1>1, FoundIs
  <2> QED
    BY <1>1, <2>1 DEF ValidIndex, Positions
<1> DEFINE n == Cardinality(Found)
           f == InOrder(Found)
<1>3. IsFiniteSet(Found) /\ Found \in SUBSET Int /\ n \in Nat
  BY <1>1, FoundIs
<1>4. DOMAIN ticks = 1 .. n /\ \A i \in 1 .. n : ticks[i] = TickOf(f[i])
  BY <1>1, LenProperties DEF AsIndexed
<1>5. /\ \A i \in 1 .. n : f[i] \in Found
      /\ \A i, j \in 1 .. n : i < j => f[i] < f[j]
      /\ \A x \in Found : \E i \in 1 .. n : f[i] = x
  BY <1>3, InOrderIs
<1> HIDE DEF n, f
<1>6. \A i \in 1 .. n : ticks[i].index = f[i]
  <2>1. \A i \in 1 .. n : TickOf(f[i]).index = f[i]
    BY DEF TickOf
  <2> QED
    BY <1>4, <2>1
<1>7. IsFiniteSet(1 .. n)
  BY <1>3, FS_Interval
<1>8. ASSUME NEW j \in 1 .. n, NEW k \in 1 .. n
      PROVE  (j <= k) = (f[j] <= f[k])
  <2>1. f[j] \in Int /\ f[k] \in Int /\ j \in Int /\ k \in Int
    <3>1. f[j] \in Found /\ f[k] \in Found
      BY <1>5
    <3>2. \A x \in Found : x \in Int
      BY <1>3
    <3>3. j \in Int /\ k \in Int
      BY <1>3
    <3> QED
      BY <3>1, <3>2, <3>3
  <2>2. j < k \/ j = k \/ k < j
    BY <2>1
  <2>3. CASE j < k
    <3>1. f[j] < f[k] /\ j <= k
      BY <1>5, <2>1, <2>3
    <3>2. f[j] <= f[k]
      BY <2>1, <3>1
    <3> QED
      BY <3>1, <3>2
  <2>4. CASE k < j
    <3>1. f[k] < f[j] /\ ~(j <= k)
      BY <1>5, <2>1, <2>4
    <3>2. ~(f[j] <= f[k])
      BY <2>1, <3>1
    <3> QED
      BY <3>1, <3>2
  <2>5. CASE j = k
    BY <2>1, <2>5
  <2> QED
    BY <2>2, <2>3, <2>4, <2>5
<1> QED
  BY <1>1, <1>2, <1>3, <1>4, <1>5, <1>6, <1>7, <1>8

\* What ticks add up to is a sum over their indices.
LEMMA NetsAre ==
  ASSUME ChartHolds, chart_pc = "points", blocks = 0, NEW places \in SUBSET DOMAIN ticks
  PROVE  /\ Nets(places) = SumFunctionOnSet([t \in Found |-> NetLiquidity(SidePool, t)],
                                            {ticks[k].index : k \in places})
         /\ Nets(places) \in Int
<1> DEFINE w == [k \in DOMAIN ticks |-> ticks[k].net]
           v == [t \in Found |-> NetLiquidity(SidePool, t)]
           f == [k \in DOMAIN ticks |-> ticks[k].index]
<1>1. IsFiniteSet(places)
  BY TicksAre, FS_Subset
<1>2. ASSUME NEW k \in places
      PROVE  w[k] \in Int /\ w[k] = v[f[k]]
  <2>1. ticks[k].index \in Found /\ ticks[k] = TickOf(ticks[k].index) /\ ticks[k].index \in Int
        /\ Positions(SidePool)
    BY TicksAre
  <2>2. ticks[k].net = NetLiquidity(SidePool, ticks[k].index)
    BY <2>1 DEF TickOf
  <2> QED
    BY <2>1, <2>2, CoverIs
<1>3. \A j, k \in places : f[j] = f[k] => j = k
  <2>1. ASSUME NEW j \in places, NEW k \in places, f[j] = f[k]
        PROVE  j = k
    <3>1. /\ ticks[j].index = ticks[k].index /\ ticks[j].index \in Int /\ j \in Int /\ k \in Int
          /\ (j <= k) = (ticks[j].index <= ticks[k].index)
          /\ (k <= j) = (ticks[k].index <= ticks[j].index)
      BY <2>1, TicksAre
    <3> QED
      BY <3>1
  <2> QED
    BY <2>1
<1>4. {f[k] : k \in places} = {ticks[k].index : k \in places}
  OBVIOUS
<1>5. Nets(places) = SumFunctionOnSet(w, places)
  BY DEF Nets
<1> HIDE DEF w, v, f
<1>6. SumFunctionOnSet(w, places) = SumFunctionOnSet(v, {f[k] : k \in places})
  BY <1>1, <1>2, <1>3, SumThrough
<1>7. SumFunctionOnSet(w, places) \in Int
  BY <1>1, <1>2, SumElements
<1> QED
  BY <1>4, <1>5, <1>6, <1>7 DEF v

LEMMA BelowIsTrue ==
  ASSUME ChartHolds, chart_pc = "points", blocks = 0
  PROVE  \A x \in Below : x.active = Covering(SidePool, x.index - 1)
<1> DEFINE down == {k \in DOMAIN ticks : ticks[k].index <= pool.tick}
           net == [t \in Found |-> NetLiquidity(SidePool, t)]
           from(k) == {j \in down : k <= j}
<1>1. /\ ValidIndex(index) /\ PoolRead /\ AsIndexed /\ IsFiniteSet(level_prices)
      /\ Positions(SidePool) /\ IsFiniteSet(Found) /\ Found \in SUBSET Int
  BY TicksAre
<1> SUFFICES ASSUME NEW k \in down
             PROVE  pool.liquidity - Nets(from(k)) = Covering(SidePool, ticks[k].index - 1)
  <2> SUFFICES ASSUME NEW x \in Below PROVE x.active = Covering(SidePool, x.index - 1)
    OBVIOUS
  <2>1. PICK k \in down : x = Point(k, pool.liquidity - Nets(from(k)))
    BY DEF Below
  <2>2. x.index = ticks[k].index /\ x.active = pool.liquidity - Nets(from(k))
    BY <2>1 DEF Point
  <2> QED
    BY <2>2
<1> DEFINE a == ticks[k].index - 1
           b == pool.tick
<1>2. a + 1 \in Found /\ a + 1 = ticks[k].index /\ a \in Int /\ b \in Int /\ a <= b
  <2>1. ticks[k].index \in Found
    BY TicksAre
  <2>2. ticks[k].index \in Int /\ b \in Int
    BY <1>1, <2>1, ChartAssumption DEF PoolRead
  <2> QED
    BY <2>1, <2>2
<1>3. {ticks[j].index : j \in from(k)} = {t \in Found : a < t /\ t <= b}
  <2>1. ASSUME NEW j \in from(k)
        PROVE  /\ ticks[j].index \in Found /\ a < ticks[j].index
               /\ ticks[j].index <= b
    <3>1. ticks[j].index \in Found /\ ticks[k].index <= ticks[j].index /\ ticks[j].index \in Int
      BY <1>1, TicksAre
    <3> QED
      BY <1>2, <3>1
  <2>2. ASSUME NEW t \in Found, a < t, t <= b
        PROVE  \E j \in from(k) : ticks[j].index = t
    <3>1. PICK j \in DOMAIN ticks : ticks[j].index = t
      BY TicksAre
    <3>2. ticks[k].index <= t
      BY <1>1, <1>2, <2>2
    <3>3. k <= j
      BY <3>1, <3>2, TicksAre
    <3> QED
      BY <2>2, <3>1, <3>3
  <2> HIDE DEF from, a, b
  <2> QED
    BY <2>1, <2>2
<1>4. \A t \in Int : a < t /\ t <= b /\ NetLiquidity(SidePool, t) # 0 => t \in Found
  <2> SUFFICES ASSUME NEW t \in Int, a < t, t <= b, NetLiquidity(SidePool, t) # 0 PROVE t \in Found
    OBVIOUS
  <2>1. a + 1 <= t
    BY <1>2
  <2> HIDE DEF a
  <2> QED
    BY <1>1, <1>2, <2>1, FoundBetween
<1>5. Nets(from(k)) = SumFunctionOnSet(net, {ticks[j].index : j \in from(k)}) /\ Nets(from(k)) \in Int
  <2>1. from(k) \in SUBSET DOMAIN ticks
    OBVIOUS
  <2> HIDE DEF from
  <2> QED
    BY <2>1, NetsAre
<1> HIDE DEF a, b, from
<1>6. Covering(SidePool, b) = Covering(SidePool, a) + SumFunctionOnSet(net, {t \in Found : a < t /\ t <= b})
  BY <1>1, <1>2, <1>4, CoverThrough
<1>7. pool.liquidity = Covering(SidePool, b)
  BY <1>1 DEF AsIndexed, b
<1>8. Covering(SidePool, a) \in Int /\ Covering(SidePool, b) \in Int
  BY <1>1, <1>2, CoverIs
<1> HIDE DEF net
<1> DEFINE sum == SumFunctionOnSet(net, {t \in Found : a < t /\ t <= b})
<1>9. Nets(from(k)) = sum /\ sum \in Int
  BY <1>3, <1>5
<1> HIDE DEF sum
<1>10. Covering(SidePool, b) = Covering(SidePool, a) + sum
  BY <1>6 DEF sum
<1>11. pool.liquidity - Nets(from(k)) = Covering(SidePool, a)
  BY <1>7, <1>8, <1>9, <1>10
<1> QED
  BY <1>11 DEF a

LEMMA AboveIsTrue ==
  ASSUME ChartHolds, chart_pc = "points", blocks = 0
  PROVE  \A x \in Above : x.active = Covering(SidePool, x.index)
<1> DEFINE up == {k \in DOMAIN ticks : ticks[k].index > pool.tick}
           net == [t \in Found |-> NetLiquidity(SidePool, t)]
           to(k) == {j \in up : j <= k}
<1>1. /\ ValidIndex(index) /\ PoolRead /\ AsIndexed /\ IsFiniteSet(level_prices)
      /\ Positions(SidePool) /\ IsFiniteSet(Found) /\ Found \in SUBSET Int
  BY TicksAre
<1> SUFFICES ASSUME NEW k \in up
             PROVE  pool.liquidity + Nets(to(k)) = Covering(SidePool, ticks[k].index)
  <2> SUFFICES ASSUME NEW x \in Above PROVE x.active = Covering(SidePool, x.index)
    OBVIOUS
  <2>1. PICK k \in up : x = Point(k, pool.liquidity + Nets(to(k)))
    BY DEF Above
  <2>2. x.index = ticks[k].index /\ x.active = pool.liquidity + Nets(to(k))
    BY <2>1 DEF Point
  <2> QED
    BY <2>2
<1> DEFINE a == pool.tick
           b == ticks[k].index
<1>2. b \in Found /\ a \in Int /\ b \in Int /\ a < b
  <2>1. b \in Found
    BY TicksAre
  <2>2. b \in Int /\ a \in Int
    BY <1>1, <2>1, ChartAssumption DEF PoolRead
  <2> QED
    BY <2>1, <2>2
<1>3. {ticks[j].index : j \in to(k)} = {t \in Found : a < t /\ t <= b}
  <2>1. ASSUME NEW j \in to(k)
        PROVE  ticks[j].index \in Found /\ a < ticks[j].index /\ ticks[j].index <= b
    <3>1. ticks[j].index \in Found /\ ticks[j].index <= ticks[k].index /\ ticks[j].index \in Int
      BY <1>1, TicksAre
    <3> QED
      BY <1>2, <3>1
  <2>2. ASSUME NEW t \in Found, a < t, t <= b
        PROVE  \E j \in to(k) : ticks[j].index = t
    <3>1. PICK j \in DOMAIN ticks : ticks[j].index = t
      BY TicksAre
    <3>2. j <= k
      BY <2>2, <3>1, TicksAre
    <3>3. t \in Int
      BY <1>1
    <3>4. ticks[j].index > pool.tick
      BY <1>2, <2>2, <3>1, <3>3
    <3> QED
      BY <3>1, <3>2, <3>4
  <2> HIDE DEF to, a, b
  <2> QED
    BY <2>1, <2>2
<1>4. \A t \in Int : a < t /\ t <= b /\ NetLiquidity(SidePool, t) # 0 => t \in Found
  <2> SUFFICES ASSUME NEW t \in Int, a < t, t <= b, NetLiquidity(SidePool, t) # 0 PROVE t \in Found
    OBVIOUS
  <2>1. pool.tick <= t
    BY <1>2
  <2> HIDE DEF b
  <2> QED
    BY <1>1, <1>2, <2>1, FoundBetween
<1>5. Nets(to(k)) = SumFunctionOnSet(net, {ticks[j].index : j \in to(k)}) /\ Nets(to(k)) \in Int
  <2>1. to(k) \in SUBSET DOMAIN ticks
    OBVIOUS
  <2> HIDE DEF to
  <2> QED
    BY <2>1, NetsAre
<1>7. pool.liquidity = Covering(SidePool, a)
  BY <1>1 DEF AsIndexed
<1>8. a <= b
  BY <1>2
<1> HIDE DEF a, b, to
<1>6. Covering(SidePool, b) = Covering(SidePool, a) + SumFunctionOnSet(net, {t \in Found : a < t /\ t <= b})
  BY <1>1, <1>2, <1>4, <1>8, CoverThrough
<1>9. Covering(SidePool, a) \in Int /\ Covering(SidePool, b) \in Int
  BY <1>1, <1>2, CoverIs
<1> HIDE DEF net
<1> DEFINE sum == SumFunctionOnSet(net, {t \in Found : a < t /\ t <= b})
<1>10. Nets(to(k)) = sum /\ sum \in Int
  BY <1>3, <1>5
<1> HIDE DEF sum
<1>11. Covering(SidePool, b) = Covering(SidePool, a) + sum
  BY <1>6 DEF sum
<1>12. pool.liquidity + Nets(to(k)) = Covering(SidePool, b)
  BY <1>7, <1>9, <1>10, <1>11
<1> QED
  BY <1>12 DEF b

\* No tick that is shown was left out.
LEMMA NoneLeftOut ==
  ASSUME ChartHolds, chart_pc = "points", blocks = 0,
         NEW t \in DOMAIN PairPrice, NetLiquidity(SidePool, t) # 0,
         UsdAt(t) \in Min(Shown) .. Max(Shown)
  PROVE  t \in {x.index : x \in Below \cup Above}
<1>1. PoolRead /\ IsFiniteSet(level_prices) /\ Found \in SUBSET Int
  BY TicksAre
<1>2. /\ Min(Shown) \in Nat /\ Max(Shown) \in Nat
      /\ pool.bounds[1] = Min(Shown) * 95 /\ pool.bounds[2] = Max(Shown) * 105
  BY <1>1, BoundsAre
<1>3. UsdAt(t) * 100 \in pool.bounds[1] .. pool.bounds[2]
  BY <1>2
<1>4. t \in Found
  BY <1>3 DEF Found
<1>5. PICK k \in DOMAIN ticks : ticks[k].index = t
  BY <1>4, TicksAre
<1>6. t <= pool.tick \/ t > pool.tick
  BY <1>1, <1>4, ChartAssumption DEF PoolRead
<1>7. PICK x \in Below \cup Above : \E active : x = Point(k, active)
  BY <1>5, <1>6 DEF Below, Above
<1>8. x.index = t
  BY <1>5, <1>7 DEF Point
<1> QED
  BY <1>8

LEMMA PointsHold ==
  ASSUME ChartHolds, liquidity_points
  PROVE  PointsAreTrue'
<1>1. /\ chart_pc = "points" /\ UNCHANGED <<index, blocks, level_prices, pool, ticks>>
      /\ chart'.status = "ok" =>
           /\ chart'.prices = pool.prices /\ chart'.below = Below
           /\ chart'.current = Current /\ chart'.above = Above
  BY DEF liquidity_points
<1>2. SidePool' = SidePool /\ \A t : UsdAt(t)' = UsdAt(t)
  BY <1>1 DEF SidePool, UsdAt, PriceAt
<1> SUFFICES ASSUME chart'.status = "ok", blocks = 0
             PROVE  PointsAreTrue'
  BY <1>1 DEF PointsAreTrue
<1>3. AsIndexed
  BY <1>1, TicksAre
<1>4. level_prices \cup {chart'.current.price} \cup (UNION {{c.low, c.high} : c \in chart'.prices}) = Shown
  BY <1>1 DEF Current, Shown, Candles
<1> DEFINE drawn == {x.index : x \in Below \cup Above}
<1>5. \A t \in DOMAIN PairPrice :
        NetLiquidity(SidePool, t) # 0 /\ UsdAt(t) \in Min(Shown) .. Max(Shown) => t \in drawn
  BY <1>1, NoneLeftOut
<1>6. /\ \A x \in Below : x.active = Covering(SidePool, x.index - 1)
      /\ \A x \in Above : x.active = Covering(SidePool, x.index)
  BY <1>1, BelowIsTrue, AboveIsTrue
<1>7. chart'.current.active = Covering(SidePool, SidePool.tick)
  BY <1>1, <1>3 DEF Current, AsIndexed
<1>8. \A t : NetLiquidity(SidePool, t)' = NetLiquidity(SidePool, t) /\ Covering(SidePool, t)' = Covering(SidePool, t)
  BY <1>2 DEF NetLiquidity, Covering
<1> QED
  BY <1>1, <1>2, <1>4, <1>5, <1>6, <1>7 DEF PointsAreTrue

LEMMA PointsStay ==
  ASSUME ChartHolds, PointsAreTrue, ChartNext \/ IndexBlock \/ UNCHANGED chart_vars
  PROVE  PointsAreTrue'
<1>1. CASE liquidity_points
  BY <1>1, PointsHold
<1>2. CASE dashboard_market
  <2>1. chart_pc' # "answered" \/ chart' \in {[status |-> "not_found"], [status |-> "unsupported"]}
    BY <1>2 DEF dashboard_market, Answer
  <2> QED
    BY <2>1 DEF PointsAreTrue
<1>3. CASE market_state
  <2>1. chart_pc' # "answered" \/ chart' \in {[status |-> "unavailable"], [status |-> "no_pool"]}
    BY <1>3 DEF market_state, Answer
  <2> QED
    BY <2>1 DEF PointsAreTrue
<1>4. CASE FetchPage
  <2>1. chart_pc' # "answered" \/ chart' = [status |-> "unavailable"]
    BY <1>4 DEF FetchPage, Answer
  <2> QED
    BY <2>1 DEF PointsAreTrue
<1>5. CASE IndexBlock
  BY <1>5 DEF IndexBlock, PointsAreTrue
<1>6. CASE UNCHANGED chart_vars
  <2>1. SidePool' = SidePool /\ \A t : UsdAt(t)' = UsdAt(t)
    BY <1>6 DEF SidePool, UsdAt, PriceAt, chart_vars
  <2> QED
    BY <1>6, <2>1 DEF PointsAreTrue, chart_vars
<1> QED
  BY <1>1, <1>2, <1>3, <1>4, <1>5, <1>6 DEF ChartNext

------------------------------------------------------------------------------
(* Amounts between two prices: none leaves 128 bits as long as the liquidity
   has room.                                                               *)

LEMMA Grows ==
  ASSUME NEW a \in Nat, NEW b \in Nat, NEW k \in Nat, a <= b
  PROVE  a * k <= b * k /\ k * a <= k * b /\ a * k \in Nat /\ b * k \in Nat
OBVIOUS

LEMMA Cancels ==
  ASSUME NEW a \in Int, NEW b \in Int, NEW k \in Nat \ {0}
  PROVE  (a * k <= b * k => a <= b) /\ (a * k < b * k => a < b)
OBVIOUS

\* The least number that is enough.
LEMMA CeilLeast ==
  ASSUME NEW a \in Nat, NEW b \in Nat \ {0}, NEW c \in Nat, a <= c * b
  PROVE  CeilDiv(a, b) <= c
<1> DEFINE q == CeilDiv(a, b)
<1>1. q \in Nat /\ q * b < a + b
  BY RoundedUp
<1> HIDE DEF q
<1>2. q * b \in Int /\ c * b \in Int /\ (c + 1) * b = c * b + b
  BY <1>1
<1>3. q * b < (c + 1) * b
  BY <1>1, <1>2
<1>4. q < c + 1
  BY <1>1, <1>3, Cancels
<1> QED
  BY <1>1, <1>4 DEF q

\* Between two prices: no further than the highest, and by the lowest no more than both.
LEMMA DistanceIs ==
  ASSUME NEW s \in MIN_SQRT_PRICE .. MAX_SQRT_PRICE, NEW t \in MIN_SQRT_PRICE .. MAX_SQRT_PRICE
  PROVE  /\ s \in Nat \ {0} /\ t \in Nat \ {0} /\ s * t \in Nat \ {0}
         /\ Distance(s, t) \in 0 .. MAX_SQRT_PRICE /\ Distance(s, t) = Distance(t, s)
         /\ MIN_SQRT_PRICE * Distance(s, t) <= s * t
         /\ Distance(s, t) = 0 => s = t
         /\ s >= t => Distance(s, t) = s - t
         /\ s <= t => Distance(s, t) = t - s
<1> DEFINE d == Distance(s, t)
           l == MIN_SQRT_PRICE
<1>1. l \in Nat \ {0} /\ MAX_SQRT_PRICE \in Nat
  BY CetusAssumption
<1>2. s \in Nat \ {0} /\ t \in Nat \ {0} /\ l <= s /\ l <= t
  BY <1>1
<1>3. s * t \in Nat \ {0}
  BY <1>2
<1>4. /\ d \in 0 .. MAX_SQRT_PRICE /\ d = Distance(t, s) /\ (d = 0 => s = t)
      /\ (s >= t => d = s - t) /\ (s <= t => d = t - s)
  BY <1>1, <1>2 DEF Distance
<1>5. d \in Nat /\ (d <= s \/ d <= t)
  BY <1>1, <1>2, <1>4
<1> HIDE DEF d, l
<1>6. ASSUME d <= s PROVE l * d <= s * t
  <2>1. l * d <= l * s /\ l * d \in Nat /\ l * s \in Nat
    BY <1>1, <1>2, <1>5, <1>6, Grows
  <2>2. s * l <= s * t
    BY <1>1, <1>2, Grows
  <2>3. s * l = l * s /\ s * t \in Nat
    BY <1>1, <1>2
  <2> QED
    BY <2>1, <2>2, <2>3
<1>7. ASSUME d <= t PROVE l * d <= s * t
  <2>1. l * d <= l * t /\ l * d \in Nat /\ l * t \in Nat
    BY <1>1, <1>2, <1>5, <1>7, Grows
  <2>2. l * t <= s * t
    BY <1>1, <1>2
  <2>3. s * t \in Nat
    BY <1>2
  <2> QED
    BY <2>1, <2>2, <2>3
<1>8. l * d <= s * t
  BY <1>5, <1>6, <1>7
<1> QED
  BY <1>2, <1>3, <1>4, <1>8 DEF d, l

\* An amount of coin a, rounded up or down, has 128 bits.
LEMMA DeltaA ==
  ASSUME NEW s \in MIN_SQRT_PRICE .. MAX_SQRT_PRICE, NEW t \in MIN_SQRT_PRICE .. MAX_SQRT_PRICE,
         NEW L \in Nat, HasRoom(L)
  PROVE  /\ L * Distance(s, t) * R \in Nat
         /\ get_delta_a(s, t, L, TRUE) \in 0 .. U128 - 1
         /\ get_delta_a(s, t, L, TRUE) * (s * t) >= L * Distance(s, t) * R
         /\ \A c \in Nat : L * Distance(s, t) * R <= c * (s * t) => get_delta_a(s, t, L, TRUE) <= c
         /\ get_delta_a(s, t, L, FALSE) \in 0 .. U128 - 1
         /\ get_delta_a(s, t, L, FALSE) * (s * t) <= L * Distance(s, t) * R
         /\ L * Distance(s, t) * R <= (get_delta_a(s, t, L, FALSE) + 1) * (s * t)
<1> DEFINE d == Distance(s, t)
           n == L * d * R
           b == s * t
           u == U128 - 1
           up == get_delta_a(s, t, L, TRUE)
           down == get_delta_a(s, t, L, FALSE)
           h == MAX_SQRT_PRICE
           l == MIN_SQRT_PRICE
<1>1. /\ d \in Nat /\ d <= h /\ l * d <= b /\ b \in Nat \ {0}
      /\ u \in Nat /\ R \in Nat \ {0} /\ U128 \in Nat \ {0} /\ h \in Nat /\ l \in Nat
  BY DistanceIs, CetusAssumption
<1>2. L * h * R < U128 * U128 /\ L * R <= u * l
  BY DEF HasRoom
<1>3. up = CeilDiv(n % (U128 * U128), b) /\ down = (n % (U128 * U128)) \div b
  BY DEF get_delta_a, DivRoundUpIf
<1> HIDE DEF d, u, up, down, h, l, b
<1>4. n \in Nat /\ n < U128 * U128
  <2>1. L * d \in Nat /\ L * h \in Nat /\ L * d <= L * h
    BY <1>1, Grows
  <2>2. (L * d) * R <= (L * h) * R /\ (L * d) * R \in Nat /\ (L * h) * R \in Nat
    BY <1>1, <2>1, Grows
  <2>3. U128 * U128 \in Nat
    BY <1>1
  <2> QED
    BY <1>2, <2>2, <2>3
<1>5. n <= u * b
  <2>1. L * R \in Nat /\ u * l \in Nat /\ l * d \in Nat
    BY <1>1
  <2>2. (L * R) * d <= (u * l) * d /\ (L * R) * d \in Nat
    BY <1>1, <1>2, <2>1, Grows
  <2>3. u * (l * d) <= u * b /\ u * b \in Nat
    BY <1>1, <2>1, Grows
  <2>4. (L * R) * d = n /\ (u * l) * d = u * (l * d)
    BY <1>1
  <2> HIDE DEF n
  <2> DEFINE x == (L * R) * d
             y == u * (l * d)
  <2>5. x <= y /\ y <= u * b /\ x \in Nat /\ y \in Nat /\ u * b \in Nat /\ x = n
    BY <1>1, <2>1, <2>2, <2>3, <2>4
  <2> HIDE DEF x, y
  <2> QED
    BY <2>5
<1> HIDE DEF n
<1>6. n % (U128 * U128) = n
  <2> DEFINE m == U128 * U128
  <2>1. m \in Nat \ {0} /\ n < m
    BY <1>1, <1>4
  <2> HIDE DEF m
  <2>2. n % m = n
    BY <1>4, <2>1
  <2> QED
    BY <2>2 DEF m
<1>7. up = CeilDiv(n, b) /\ down = n \div b
  BY <1>3, <1>6
<1>8. up \in Nat /\ up * b >= n /\ up <= u /\ \A c \in Nat : n <= c * b => up <= c
  BY <1>1, <1>4, <1>5, <1>7, RoundedUp, CeilLeast
<1>9. down \in Nat /\ down * b <= n /\ n < (down + 1) * b
  BY <1>1, <1>4, <1>7, Quotient
<1>10. down * b \in Nat /\ u * b \in Nat /\ (down + 1) * b \in Nat
  BY <1>1, <1>9
<1>11. down <= u
  <2>1. down * b <= u * b
    BY <1>4, <1>5, <1>9, <1>10
  <2> QED
    BY <1>1, <1>9, <2>1, Cancels
<1>12. n <= (down + 1) * b
  BY <1>4, <1>9, <1>10
<1>13. up \in 0 .. u /\ down \in 0 .. u
  BY <1>1, <1>8, <1>9, <1>11
<1> QED
  BY <1>4, <1>8, <1>9, <1>12, <1>13 DEF n, b, d, u, up, down

\* And so has an amount of coin b.
LEMMA DeltaB ==
  ASSUME NEW s \in MIN_SQRT_PRICE .. MAX_SQRT_PRICE, NEW t \in MIN_SQRT_PRICE .. MAX_SQRT_PRICE,
         NEW L \in Nat, HasRoom(L)
  PROVE  /\ L * Distance(s, t) \in Nat
         /\ get_delta_b(s, t, L, TRUE) \in 0 .. U128 - 1
         /\ get_delta_b(s, t, L, TRUE) * R >= L * Distance(s, t)
         /\ \A c \in Nat : L * Distance(s, t) <= c * R => get_delta_b(s, t, L, TRUE) <= c
         /\ get_delta_b(s, t, L, FALSE) \in 0 .. U128 - 1
         /\ get_delta_b(s, t, L, FALSE) * R <= L * Distance(s, t)
         /\ L * Distance(s, t) <= (get_delta_b(s, t, L, FALSE) + 1) * R
<1> DEFINE d == Distance(s, t)
           n == L * d
           u == U128 - 1
           up == get_delta_b(s, t, L, TRUE)
           down == get_delta_b(s, t, L, FALSE)
           h == MAX_SQRT_PRICE
<1>1. d \in Nat /\ d <= h /\ u \in Nat /\ R \in Nat \ {0} /\ h \in Nat
  BY DistanceIs, CetusAssumption
<1>2. L * h <= u * R
  BY DEF HasRoom
<1>3. up = CeilDiv(n, R) /\ down = n \div R
  BY DEF get_delta_b, DivRoundUpIf
<1> HIDE DEF d, u, up, down, h
<1>4. n \in Nat /\ n <= u * R
  <2>1. L * d \in Nat /\ L * h \in Nat /\ L * d <= L * h /\ u * R \in Nat
    BY <1>1, Grows
  <2> QED
    BY <1>2, <2>1
<1> HIDE DEF n
<1>5. up \in Nat /\ up * R >= n /\ up <= u /\ \A c \in Nat : n <= c * R => up <= c
  BY <1>1, <1>3, <1>4, RoundedUp, CeilLeast
<1>6. down \in Nat /\ down * R <= n /\ n < (down + 1) * R
  BY <1>1, <1>3, <1>4, Quotient
<1>7. down * R \in Nat /\ u * R \in Nat /\ (down + 1) * R \in Nat
  BY <1>1, <1>6
<1>8. down <= u
  <2>1. down * R <= u * R
    BY <1>4, <1>6, <1>7
  <2> QED
    BY <1>1, <1>6, <2>1, Cancels
<1>9. n <= (down + 1) * R
  BY <1>4, <1>6, <1>7
<1>10. up \in 0 .. u /\ down \in 0 .. u
  BY <1>1, <1>5, <1>6, <1>8
<1> QED
  BY <1>4, <1>5, <1>6, <1>9, <1>10 DEF n, d, u, up, down

------------------------------------------------------------------------------
(* A step of compute_swap: the price it comes to, what it takes and what it
   pays.                                                                   *)

\* The price that an input of coin a brings the pool down to.
LEMMA PriceFalls ==
  ASSUME NEW s \in MIN_SQRT_PRICE .. MAX_SQRT_PRICE, NEW L \in Nat \ {0}, HasRoom(L), NEW amount \in Nat
  PROVE  /\ get_next_sqrt_price_a_up(s, L, amount) \in 0 .. s
         /\ L * (s - get_next_sqrt_price_a_up(s, L, amount)) * R
              <= amount * (s * get_next_sqrt_price_a_up(s, L, amount))
         /\ \A t \in 0 .. s :
              amount * (s * t) < L * (s - t) * R => t < get_next_sqrt_price_a_up(s, L, amount)
         /\ amount = 0 => get_next_sqrt_price_a_up(s, L, amount) = s
<1> DEFINE next == get_next_sqrt_price_a_up(s, L, amount)
           k == L * R + s * amount
           n == s * L * R
           x == L * R
           h == MAX_SQRT_PRICE
<1>1. s \in Nat \ {0} /\ s <= h /\ h \in Nat /\ R \in Nat \ {0} /\ U128 \in Nat \ {0}
  BY CetusAssumption
<1>2. L * h * R < U128 * U128
  BY DEF HasRoom
<1>3. amount # 0 => next = CeilDiv(n % (U128 * U128), k)
  BY DEF get_next_sqrt_price_a_up
<1>4. amount = 0 => next = s
  BY DEF get_next_sqrt_price_a_up
<1> HIDE DEF next, h
<1>5. x \in Nat \ {0} /\ n = s * x /\ n \in Nat /\ k = x + s * amount
  BY <1>1
<1>6. \A t \in Int : L * (s - t) * R = s * x - t * x
  BY <1>1
<1>7. n < U128 * U128
  <2>1. s * x <= h * x
    BY <1>1, <1>5, Grows
  <2>2. h * x = L * h * R
    BY <1>1
  <2>3. h * x \in Nat /\ U128 * U128 \in Nat
    BY <1>1, <1>5
  <2> QED
    BY <1>2, <1>5, <2>1, <2>2, <2>3
<1> HIDE DEF x, n, k
<1>8. CASE amount = 0
  <2>1. next = s /\ L * (s - next) * R = 0 /\ amount * (s * next) = 0
    BY <1>1, <1>4, <1>5, <1>6, <1>8
  <2>2. ASSUME NEW t \in 0 .. s, amount * (s * t) < L * (s - t) * R
        PROVE  t < s
    <3>1. t # s
      <4>1. amount * (s * t) = 0 /\ L * (s - t) * R = s * x - t * x
        BY <1>1, <1>6, <1>8
      <4> QED
        BY <1>1, <1>5, <2>2, <4>1
    <3> QED
      BY <1>1, <3>1
  <2> QED
    BY <1>1, <2>1, <2>2, <1>8 DEF next
<1>9. CASE amount # 0
  <2> DEFINE m == U128 * U128
  <2>1. n % m = n
    <3>1. m \in Nat \ {0} /\ n < m
      BY <1>1, <1>7
    <3> HIDE DEF m
    <3> QED
      BY <1>5, <3>1
  <2>2. next = CeilDiv(n, k)
    BY <1>3, <1>9, <2>1
  <2>3. s * amount \in Nat /\ k \in Nat \ {0} /\ n <= s * k
    <3>1. s * amount \in Nat /\ k \in Nat \ {0} /\ x <= k
      BY <1>1, <1>5
    <3>2. s * x <= s * k
      BY <1>1, <1>5, <3>1, Grows
    <3> QED
      BY <1>5, <3>1, <3>2
  <2>4. next \in Nat /\ next * k >= n /\ next <= s
    BY <1>1, <1>5, <2>2, <2>3, RoundedUp, CeilLeast
  <2>5. \A t \in Nat : t * k = t * x + amount * (s * t)
    BY <1>1, <1>5
  <2>6. L * (s - next) * R <= amount * (s * next)
    <3>1. /\ next * k = next * x + amount * (s * next) /\ L * (s - next) * R = s * x - next * x
          /\ next * x \in Nat /\ s * x \in Nat /\ amount * (s * next) \in Nat
      BY <1>1, <1>5, <1>6, <2>4, <2>5
    <3> DEFINE y == amount * (s * next)
    <3> HIDE DEF y
    <3> QED
      BY <1>5, <2>4, <3>1
  <2>7. ASSUME NEW t \in 0 .. s, amount * (s * t) < L * (s - t) * R
        PROVE  t < next
    <3>1. /\ t * k = t * x + amount * (s * t) /\ L * (s - t) * R = s * x - t * x
          /\ t * x \in Nat /\ s * x \in Nat /\ amount * (s * t) \in Nat /\ t \in Nat /\ t * k \in Nat
      BY <1>1, <1>5, <1>6, <2>3, <2>5
    <3>2. t * k < n
      BY <1>5, <2>7, <3>1
    <3>3. next * k \in Nat
      BY <2>3, <2>4
    <3>4. t * k < next * k
      BY <1>5, <2>4, <3>1, <3>2, <3>3
    <3> QED
      BY <2>3, <2>4, <3>1, <3>4, Cancels
  <2> QED
    BY <1>1, <1>9, <2>4, <2>6, <2>7 DEF next
<1> QED
  BY <1>8, <1>9

\* The price that an input of coin b brings the pool up to.
LEMMA PriceRises ==
  ASSUME NEW s \in MIN_SQRT_PRICE .. MAX_SQRT_PRICE, NEW L \in Nat \ {0}, NEW amount \in Nat
  PROVE  /\ get_next_sqrt_price_b_down(s, L, amount) \in Nat
         /\ s <= get_next_sqrt_price_b_down(s, L, amount)
         /\ L * (get_next_sqrt_price_b_down(s, L, amount) - s) <= amount * R
         /\ \A t \in Nat :
              amount * R < L * (t - s) => get_next_sqrt_price_b_down(s, L, amount) < t
         /\ amount = 0 => get_next_sqrt_price_b_down(s, L, amount) = s
<1> DEFINE next == get_next_sqrt_price_b_down(s, L, amount)
           n == amount * R
           q == n \div L
<1>1. s \in Nat \ {0} /\ R \in Nat \ {0} /\ n \in Nat
  BY CetusAssumption
<1>2. next = s + q
  BY DEF get_next_sqrt_price_b_down
<1>3. amount = 0 => n = 0
  BY <1>1
<1> HIDE DEF next, n
<1>4. q \in Nat /\ q * L <= n
  BY <1>1, Quotient
<1>5. n = 0 => q = 0
  <2>1. n = 0 => q * L <= 0 * L
    BY <1>4
  <2> HIDE DEF q
  <2> QED
    BY <1>4, <2>1, Cancels
<1> HIDE DEF q
<1>6. next \in Nat /\ s <= next /\ next - s = q /\ L * (next - s) <= n /\ (amount = 0 => next = s)
  BY <1>1, <1>2, <1>3, <1>4, <1>5
<1>7. ASSUME NEW t \in Nat, n < L * (t - s)
      PROVE  next < t
  <2>1. q * L \in Int /\ (t - s) * L \in Int /\ q * L < (t - s) * L
    BY <1>1, <1>4, <1>7
  <2>2. q < t - s
    BY <1>1, <1>4, <2>1, Cancels
  <2> QED
    BY <1>1, <1>2, <1>4, <2>2
<1> QED
  BY <1>6, <1>7 DEF next, n

\* What is taken besides the input is the fee, whether a step goes all the way or not.
LEMMA FeeIs ==
  ASSUME NEW amount \in Nat, NEW fee \in 0 .. FEE_RATE_DENOMINATOR - 1
  PROVE  /\ AfterFee(amount, fee) \in 0 .. amount
         /\ (amount - AfterFee(amount, fee)) * FEE_RATE_DENOMINATOR >= amount * fee
         /\ \A most \in 0 .. AfterFee(amount, fee) :
              LET taken == CeilDiv(most * fee, FEE_RATE_DENOMINATOR - fee)
              IN /\ taken \in Nat /\ most + taken <= amount
                 /\ taken * FEE_RATE_DENOMINATOR >= (most + taken) * fee
                 /\ most = 0 => taken = 0
<1> DEFINE d == FEE_RATE_DENOMINATOR
           k == d - fee
           r == AfterFee(amount, fee)
<1>1. d \in Nat \ {0} /\ k \in Nat \ {0} /\ fee \in Nat /\ d = k + fee
  BY CetusAssumption
<1>2. r \in 0 .. amount /\ r * d <= amount * k
  BY AfterFeeIs
<1> HIDE DEF d, k, r
<1>3. (amount - r) * d >= amount * fee
  <2>1. (amount - r) * d = amount * d - r * d /\ amount * d = amount * k + amount * fee
    BY <1>1, <1>2
  <2>2. amount * k \in Nat /\ amount * fee \in Nat /\ r * d \in Nat
    BY <1>1, <1>2
  <2> DEFINE x == amount * k
             y == amount * fee
             z == r * d
  <2> HIDE DEF x, y, z
  <2>3. (amount - r) * d = (x + y) - z /\ x \in Nat /\ y \in Nat /\ z \in Nat /\ z <= x
    BY <1>2, <2>1, <2>2 DEF x, y, z
  <2>4. (amount - r) * d >= y
    BY <2>3
  <2> QED
    BY <2>4 DEF y
<1>4. ASSUME NEW most \in 0 .. r
      PROVE  LET taken == CeilDiv(most * fee, k)
             IN /\ taken \in Nat /\ most + taken <= amount
                /\ taken * d >= (most + taken) * fee
                /\ most = 0 => taken = 0
  <2> DEFINE n == most * fee
             taken == CeilDiv(n, k)
  <2>1. most \in Nat /\ n \in Nat /\ amount - most \in Nat
    BY <1>1, <1>2
  <2>2. n <= (amount - most) * k
    <3>1. most * d <= r * d
      BY <1>1, <1>2, <2>1, Grows
    <3>2. most * d = most * k + n /\ (amount - most) * k = amount * k - most * k
      BY <1>1, <2>1
    <3>3. most * k \in Nat /\ amount * k \in Nat /\ r * d \in Nat /\ most * d \in Nat
      BY <1>1, <1>2, <2>1
    <3> DEFINE x == most * k
               y == amount * k
               z == r * d
               w == most * d
    <3>4. /\ w <= z /\ w = x + n /\ (amount - most) * k = y - x
          /\ x \in Nat /\ y \in Nat /\ z \in Nat /\ w \in Nat /\ z <= y
      BY <1>2, <3>1, <3>2, <3>3
    <3> HIDE DEF x, y, z, w, n
    <3> QED
      BY <2>1, <3>4
  <2>3. most = 0 => n <= 0 * k
    BY <1>1
  <2>4. n = most * fee
    OBVIOUS
  <2> HIDE DEF n
  <2>5. taken \in Nat /\ taken * k >= n
    BY <1>1, <2>1, RoundedUp
  <2>6. taken <= amount - most
    BY <1>1, <2>1, <2>2, CeilLeast
  <2>7. most = 0 => taken <= 0
    BY <1>1, <2>1, <2>3, CeilLeast
  <2> HIDE DEF taken
  <2>8. taken * d >= (most + taken) * fee
    <3>1. taken * d = taken * k + taken * fee /\ (most + taken) * fee = n + taken * fee
      BY <1>1, <2>1, <2>4, <2>5
    <3>2. taken * k \in Nat /\ taken * fee \in Nat
      BY <1>1, <2>5
    <3> QED
      BY <2>1, <2>5, <3>1, <3>2
  <2> QED
    BY <1>2, <2>1, <2>5, <2>6, <2>7, <2>8 DEF taken, n
<1> QED
  BY <1>2, <1>3, <1>4 DEF d, k, r

\* What goes in pays for the way, and what comes out is the way less a part of a unit.
PaysDown(s, next, L, in, out) ==
  /\ L * (s - next) * R <= in * (s * next)
  /\ out * R <= L * (s - next) /\ L * (s - next) <= (out + 1) * R

PaysUp(s, next, L, in, out) ==
  /\ L * (next - s) <= in * R
  /\ out * (s * next) <= L * (next - s) * R /\ L * (next - s) * R <= (out + 1) * (s * next)

\* No way, no output.
LEMMA StaysPaid ==
  ASSUME NEW s \in Nat \ {0}, NEW L \in Nat, NEW in \in Nat, NEW out \in Nat
  PROVE  /\ PaysDown(s, s, L, in, out) => PaysUp(s, s, L, in, out)
         /\ PaysDown(s, s, L, in, 0) /\ PaysUp(s, s, L, in, 0)
<1>1. R \in Nat \ {0}
  BY CetusAssumption
<1>2. s - s = 0 /\ L * 0 = 0 /\ 0 * R = 0 /\ s * s \in Nat /\ in * R \in Nat /\ in * (s * s) \in Nat
      /\ 0 * (s * s) = 0 /\ (0 + 1) * (s * s) = s * s /\ (0 + 1) * R = R
  BY <1>1
<1>3. PaysDown(s, s, L, in, 0) /\ PaysUp(s, s, L, in, 0)
  BY <1>1, <1>2 DEF PaysDown, PaysUp
<1>4. PaysDown(s, s, L, in, out) => out = 0
  <2>1. PaysDown(s, s, L, in, out) => out * R <= 0 * R
    BY <1>2 DEF PaysDown
  <2>2. PaysDown(s, s, L, in, out) => out <= 0
    BY <1>1, <2>1, Cancels
  <2> QED
    BY <2>2
<1> QED
  BY <1>3, <1>4

\* What compute_swap_step makes of an input that is worth `remain'.
FallsTo(s, target, L, remain, most, next, in, out) ==
  /\ most = get_delta_a(s, target, L, TRUE)
  /\ most > remain => next = get_next_sqrt_price_a_up(s, L, remain) /\ in = remain
  /\ ~(most > remain) => next = target /\ in = most
  /\ out = get_delta_b(s, next, L, FALSE)

RisesTo(s, target, L, remain, most, next, in, out) ==
  /\ most = get_delta_b(s, target, L, TRUE)
  /\ most > remain => next = get_next_sqrt_price_b_down(s, L, remain) /\ in = remain
  /\ ~(most > remain) => next = target /\ in = most
  /\ out = get_delta_a(s, next, L, FALSE)

LEMMA StepDown ==
  ASSUME NEW s \in MIN_SQRT_PRICE .. MAX_SQRT_PRICE, NEW target \in MIN_SQRT_PRICE .. MAX_SQRT_PRICE,
         s >= target, NEW L \in Nat \ {0}, HasRoom(L), NEW remain \in Nat,
         NEW most, NEW next, NEW in, NEW out,
         FallsTo(s, target, L, remain, most, next, in, out)
  PROVE  /\ most \in 0 .. U128 - 1 /\ out \in 0 .. U128 - 1
         /\ next \in target .. s /\ PaysDown(s, next, L, in, out)
         /\ most > remain => next # target /\ (in = 0 => next = s)
<1> DEFINE pays == L * (s - next) * R <= in * (s * next)
<1>1. s \in Nat \ {0} /\ target \in Nat \ {0} /\ U128 \in Nat \ {0} /\ s * target \in Nat
      /\ MIN_SQRT_PRICE \in Nat /\ MAX_SQRT_PRICE \in Nat
  BY DistanceIs, CetusAssumption
<1>2. Distance(s, target) = s - target
  BY DistanceIs
<1>3. /\ most \in 0 .. U128 - 1 /\ most \in Nat
      /\ L * (s - target) * R <= most * (s * target) /\ L * (s - target) * R \in Nat
      /\ L * (s - target) * R <= remain * (s * target) => most <= remain
  <2>1. /\ most \in 0 .. U128 - 1 /\ most * (s * target) >= L * Distance(s, target) * R
        /\ L * Distance(s, target) * R \in Nat
        /\ L * Distance(s, target) * R <= remain * (s * target) => most <= remain
    BY DeltaA DEF FallsTo
  <2>2. most \in Nat /\ most * (s * target) \in Nat
    BY <1>1, <2>1
  <2> QED
    BY <1>1, <1>2, <2>1, <2>2
<1>4. /\ next \in target .. s /\ pays
      /\ most > remain => next # target /\ (in = 0 => next = s)
  <2>1. CASE most > remain
    <3> DEFINE n == get_next_sqrt_price_a_up(s, L, remain)
    <3>1. /\ n \in 0 .. s /\ L * (s - n) * R <= remain * (s * n)
          /\ remain * (s * target) < L * (s - target) * R => target < n
          /\ remain = 0 => n = s
      BY <1>1, PriceFalls
    <3>2. remain * (s * target) < L * (s - target) * R
      <4>1. ~(L * (s - target) * R <= remain * (s * target))
        BY <1>3, <2>1
      <4>2. remain * (s * target) \in Nat
        BY <1>1
      <4> QED
        BY <1>3, <4>1, <4>2
    <3>3. next = n /\ in = remain
      BY <2>1 DEF FallsTo
    <3> HIDE DEF n
    <3> QED
      BY <1>1, <3>1, <3>2, <3>3, <2>1
  <2>2. CASE ~(most > remain)
    <3>1. next = target /\ in = most
      BY <2>2 DEF FallsTo
    <3> QED
      BY <1>1, <1>3, <2>2, <3>1
  <2> QED
    BY <2>1, <2>2
<1>6. next \in MIN_SQRT_PRICE .. MAX_SQRT_PRICE /\ next <= s
  BY <1>1, <1>4
<1>7. Distance(s, next) = s - next
  BY <1>6, DistanceIs
<1>8. /\ out \in 0 .. U128 - 1 /\ out * R <= L * (s - next) /\ L * (s - next) <= (out + 1) * R
  BY <1>6, <1>7, DeltaB DEF FallsTo
<1>9. PaysDown(s, next, L, in, out)
  BY <1>4, <1>8 DEF PaysDown
<1> QED
  BY <1>3, <1>4, <1>8, <1>9

LEMMA StepUp ==
  ASSUME NEW s \in MIN_SQRT_PRICE .. MAX_SQRT_PRICE, NEW target \in MIN_SQRT_PRICE .. MAX_SQRT_PRICE,
         s < target, NEW L \in Nat \ {0}, HasRoom(L), NEW remain \in Nat,
         NEW most, NEW next, NEW in, NEW out,
         RisesTo(s, target, L, remain, most, next, in, out)
  PROVE  /\ most \in 0 .. U128 - 1 /\ out \in 0 .. U128 - 1
         /\ next \in s .. target /\ PaysUp(s, next, L, in, out)
         /\ most > remain => next # target /\ (in = 0 => next = s)
<1> DEFINE pays == L * (next - s) <= in * R
<1>1. s \in Nat \ {0} /\ target \in Nat \ {0} /\ U128 \in Nat \ {0} /\ R \in Nat \ {0}
      /\ MIN_SQRT_PRICE \in Nat /\ MAX_SQRT_PRICE \in Nat
  BY DistanceIs, CetusAssumption
<1>2. Distance(s, target) = target - s
  BY <1>1, DistanceIs
<1>3. /\ most \in 0 .. U128 - 1 /\ most \in Nat
      /\ L * (target - s) <= most * R /\ L * (target - s) \in Nat
      /\ L * (target - s) <= remain * R => most <= remain
  <2>1. /\ most \in 0 .. U128 - 1 /\ most * R >= L * Distance(s, target)
        /\ L * Distance(s, target) \in Nat
        /\ L * Distance(s, target) <= remain * R => most <= remain
    BY DeltaB DEF RisesTo
  <2>2. most \in Nat /\ most * R \in Nat
    BY <1>1, <2>1
  <2> QED
    BY <1>1, <1>2, <2>1, <2>2
<1>4. /\ next \in s .. target /\ pays
      /\ most > remain => next # target /\ (in = 0 => next = s)
  <2>1. CASE most > remain
    <3> DEFINE n == get_next_sqrt_price_b_down(s, L, remain)
    <3>1. /\ n \in Nat /\ s <= n /\ L * (n - s) <= remain * R
          /\ remain * R < L * (target - s) => n < target
          /\ remain = 0 => n = s
      BY <1>1, PriceRises
    <3>2. remain * R < L * (target - s)
      <4>1. ~(L * (target - s) <= remain * R)
        BY <1>3, <2>1
      <4>2. remain * R \in Nat
        BY <1>1
      <4> QED
        BY <1>3, <4>1, <4>2
    <3>3. next = n /\ in = remain
      BY <2>1 DEF RisesTo
    <3> HIDE DEF n
    <3> QED
      BY <1>1, <3>1, <3>2, <3>3, <2>1
  <2>2. CASE ~(most > remain)
    <3>1. next = target /\ in = most
      BY <2>2 DEF RisesTo
    <3> QED
      BY <1>1, <1>3, <2>2, <3>1
  <2> QED
    BY <2>1, <2>2
<1>6. next \in MIN_SQRT_PRICE .. MAX_SQRT_PRICE /\ s <= next
  BY <1>1, <1>4
<1>7. Distance(s, next) = next - s
  BY <1>6, DistanceIs
<1>8. /\ out \in 0 .. U128 - 1 /\ out * (s * next) <= L * (next - s) * R
      /\ L * (next - s) * R <= (out + 1) * (s * next)
  BY <1>6, <1>7, DeltaA DEF RisesTo
<1>9. PaysUp(s, next, L, in, out)
  BY <1>4, <1>8 DEF PaysUp
<1> QED
  BY <1>3, <1>4, <1>8, <1>9

\* What a step comes to: it fits, goes no further than its target, pays for its way, and
\* stops on it only when the amount is used up.
StepHolds(taken, s, target, L, amount, fee) ==
  /\ {taken.most, taken.amount_in, taken.amount_out} \subseteq 0 .. U128 - 1
  /\ taken.fee_amount \in Nat /\ taken.amount_in + taken.fee_amount <= amount
  /\ taken.amount_in <= AfterFee(amount, fee)
  /\ taken.fee_amount * FEE_RATE_DENOMINATOR >= (taken.amount_in + taken.fee_amount) * fee
  /\ s >= target => /\ taken.next \in target .. s
                    /\ PaysDown(s, taken.next, L, taken.amount_in, taken.amount_out)
  /\ s <= target => /\ taken.next \in s .. target
                    /\ PaysUp(s, taken.next, L, taken.amount_in, taken.amount_out)
  /\ taken.next = target /\ taken.amount_in = 0 => taken.fee_amount = 0
  /\ taken.next # target =>
       /\ L # 0 /\ taken.amount_in = AfterFee(amount, fee) /\ taken.amount_in + taken.fee_amount = amount
       /\ taken.amount_in = 0 => taken.next = s

LEMMA StepIs ==
  ASSUME NEW s \in MIN_SQRT_PRICE .. MAX_SQRT_PRICE, NEW target \in MIN_SQRT_PRICE .. MAX_SQRT_PRICE,
         NEW L \in Nat, HasRoom(L), NEW amount \in 0 .. U64 - 1,
         NEW fee \in 0 .. FEE_RATE_DENOMINATOR - 1
  PROVE  StepHolds(compute_swap_step(s, target, L, amount, fee), s, target, L, amount, fee)
<1> DEFINE taken == compute_swap_step(s, target, L, amount, fee)
           remain == AfterFee(amount, fee)
           d == FEE_RATE_DENOMINATOR
<1>1. s \in Nat \ {0} /\ target \in Nat \ {0} /\ amount \in Nat /\ amount < U128
      /\ U128 \in Nat \ {0} /\ d \in Nat \ {0} /\ fee \in Nat
  BY DistanceIs, CetusAssumption
<1>2. /\ remain \in 0 .. amount
      /\ (amount - remain) * d >= amount * fee
      /\ \A most \in 0 .. remain :
           LET c == CeilDiv(most * fee, d - fee)
           IN c \in Nat /\ most + c <= amount /\ c * d >= (most + c) * fee /\ (most = 0 => c = 0)
  BY <1>1, FeeIs
<1>3. CASE L = 0
  <2>1. taken = [most |-> 0, amount_in |-> 0, amount_out |-> 0, fee_amount |-> 0, next |-> target]
    BY <1>3 DEF compute_swap_step
  <2> HIDE DEF taken, remain
  <2>2. /\ taken.most = 0 /\ taken.amount_in = 0 /\ taken.amount_out = 0 /\ taken.fee_amount = 0
        /\ taken.next = target
    BY <2>1
  <2>3. PaysDown(s, target, 0, 0, 0) /\ PaysUp(s, target, 0, 0, 0)
    <3>1. R \in Nat \ {0} /\ s * target \in Nat /\ s - target \in Int /\ target - s \in Int
      BY <1>1, CetusAssumption
    <3>2. 0 * (s - target) = 0 /\ 0 * (target - s) = 0 /\ 0 * R = 0 /\ 0 * (s * target) = 0
          /\ (0 + 1) * R = R /\ (0 + 1) * (s * target) = s * target
      BY <3>1
    <3> QED
      BY <3>1, <3>2 DEF PaysDown, PaysUp
  <2>4. 0 * d >= (0 + 0) * fee /\ (s >= target => target \in target .. s)
        /\ (s <= target => target \in s .. target)
    BY <1>1
  <2>5. 0 \in 0 .. U128 - 1 /\ 0 <= remain /\ 0 <= amount
    BY <1>1, <1>2
  <2>6. StepHolds(taken, s, target, L, amount, fee)
    BY <1>3, <2>2, <2>3, <2>4, <2>5 DEF StepHolds, remain
  <2> QED
    BY <2>6 DEF taken
<1>4. ASSUME L # 0,
             NEW most \in 0 .. U128 - 1, NEW next, NEW out \in 0 .. U128 - 1,
             most > remain => next # target /\ (remain = 0 => next = s),
             ~(most > remain) => next = target,
             taken = [most |-> most, amount_in |-> IF most > remain THEN remain ELSE most,
                      amount_out |-> out,
                      fee_amount |-> IF most > remain THEN amount - remain
                                     ELSE CeilDiv(most * fee, d - fee),
                      next |-> next],
             s >= target => next \in target .. s /\ PaysDown(s, next, L, taken.amount_in, out),
             s <= target => next \in s .. target /\ PaysUp(s, next, L, taken.amount_in, out)
      PROVE  StepHolds(taken, s, target, L, amount, fee)
  <2> HIDE DEF taken
  <2> DEFINE c == CeilDiv(most * fee, d - fee)
  <2>1. /\ taken.most = most /\ taken.amount_out = out /\ taken.next = next
        /\ taken.amount_in = IF most > remain THEN remain ELSE most
        /\ taken.fee_amount = IF most > remain THEN amount - remain ELSE c
    BY <1>4
  <2>2. most \in Nat /\ remain \in Nat
    BY <1>1, <1>2, <1>4
  <2>3. ~(most > remain) => /\ c \in Nat /\ most + c <= amount /\ c * d >= (most + c) * fee
                            /\ most = 0 => c = 0
    <3>1. ~(most > remain) => most \in 0 .. remain
      BY <2>2
    <3> QED
      BY <1>2, <3>1
  <2> HIDE DEF c, remain
  <2>4. /\ taken.amount_in \in Nat /\ taken.amount_in <= remain /\ taken.fee_amount \in Nat
        /\ taken.amount_in + taken.fee_amount <= amount
        /\ most > remain => taken.amount_in + taken.fee_amount = amount
    BY <1>1, <1>2, <2>1, <2>2, <2>3
  <2>5. taken.fee_amount * d >= (taken.amount_in + taken.fee_amount) * fee
    <3>1. CASE most > remain
      <4>1. taken.fee_amount = amount - remain /\ taken.amount_in + taken.fee_amount = amount
        BY <2>1, <2>4, <3>1
      <4> QED
        BY <1>2, <4>1
    <3>2. CASE ~(most > remain)
      BY <2>1, <2>3, <3>2
    <3> QED
      BY <3>1, <3>2
  <2>6. taken.amount_in \in 0 .. U128 - 1
    <3>1. remain <= amount
      BY <1>2
    <3> QED
      BY <1>1, <2>2, <2>4, <3>1
  <2>7. taken.next = target /\ taken.amount_in = 0 => taken.fee_amount = 0
    BY <1>4, <2>1, <2>2, <2>3
  <2>8. taken.next # target =>
          /\ taken.amount_in = remain /\ taken.amount_in + taken.fee_amount = amount
          /\ taken.amount_in = 0 => taken.next = s
    BY <1>4, <2>1, <2>4
  <2>9. {taken.most, taken.amount_in, taken.amount_out} \subseteq 0 .. U128 - 1
    BY <1>4, <2>1, <2>6
  <2>10. /\ s >= target => /\ taken.next \in target .. s
                           /\ PaysDown(s, taken.next, L, taken.amount_in, taken.amount_out)
         /\ s <= target => /\ taken.next \in s .. target
                           /\ PaysUp(s, taken.next, L, taken.amount_in, taken.amount_out)
    BY <1>4, <2>1
  <2>11. L # 0
    BY <1>4
  <2> DEFINE in == taken.amount_in
             f == taken.fee_amount
  <2>12. in <= AfterFee(amount, fee) /\ (taken.next # target => in = AfterFee(amount, fee))
    BY <2>4, <2>8 DEF remain
  <2> QED
    BY <2>4, <2>5, <2>7, <2>8, <2>9, <2>10, <2>11, <2>12 DEF StepHolds, d
<1>5. CASE L # 0 /\ s >= target
  <2> DEFINE most == get_delta_a(s, target, L, TRUE)
             next == IF most > remain THEN get_next_sqrt_price_a_up(s, L, remain) ELSE target
             in == IF most > remain THEN remain ELSE most
             out == get_delta_b(s, next, L, FALSE)
  <2>1. taken = [most |-> most, amount_in |-> in, amount_out |-> out,
                 fee_amount |-> IF most > remain THEN amount - remain
                                ELSE CeilDiv(most * fee, d - fee),
                 next |-> next]
    BY <1>5 DEF compute_swap_step, get_delta_up_from_input, get_next_sqrt_price_from_input,
                get_delta_down_from_output
  <2>2. remain \in Nat
    BY <1>1, <1>2
  <2>3. /\ most \in 0 .. U128 - 1 /\ out \in 0 .. U128 - 1
        /\ next \in target .. s /\ PaysDown(s, next, L, in, out)
        /\ most > remain => next # target /\ (in = 0 => next = s)
    <3>1. FallsTo(s, target, L, remain, most, next, in, out)
      BY DEF FallsTo
    <3> HIDE DEF taken, remain, most, next, in, out
    <3> QED
      BY <1>1, <1>5, <2>2, <3>1, StepDown
  <2>4. ~(most > remain) => next = target
    OBVIOUS
  <2>5. most > remain => in = remain
    OBVIOUS
  <2>6. taken.amount_in = in
    <3> HIDE DEF taken, most, next, in, out, remain
    <3> QED
      BY <2>1
  <2>7. s <= target => next \in s .. target /\ PaysUp(s, next, L, in, out)
    <3>1. in \in Nat /\ out \in Nat
      <4> HIDE DEF taken, most, next, out, remain
      <4> QED
        BY <1>1, <2>2, <2>3
    <3> HIDE DEF taken, most, next, in, out, remain
    <3>2. s <= target => next = s /\ target = s
      BY <1>1, <1>5, <2>3
    <3> QED
      BY <1>1, <2>3, <3>1, <3>2, StaysPaid
  <2>8. taken = [most |-> most, amount_in |-> IF most > remain THEN remain ELSE most,
                 amount_out |-> out,
                 fee_amount |-> IF most > remain THEN amount - remain
                                ELSE CeilDiv(most * fee, d - fee),
                 next |-> next]
    <3> HIDE DEF taken, most, next, out, remain
    <3> QED
      BY <2>1
  <2> HIDE DEF taken, most, next, in, out, remain
  <2>9. StepHolds(taken, s, target, L, amount, fee)
    BY <1>4, <1>5, <2>3, <2>4, <2>5, <2>6, <2>7, <2>8
  <2> QED
    BY <2>9 DEF taken
<1>6. CASE L # 0 /\ ~(s >= target)
  <2> DEFINE most == get_delta_b(s, target, L, TRUE)
             next == IF most > remain THEN get_next_sqrt_price_b_down(s, L, remain) ELSE target
             in == IF most > remain THEN remain ELSE most
             out == get_delta_a(s, next, L, FALSE)
  <2>1. taken = [most |-> most, amount_in |-> in, amount_out |-> out,
                 fee_amount |-> IF most > remain THEN amount - remain
                                ELSE CeilDiv(most * fee, d - fee),
                 next |-> next]
    BY <1>6 DEF compute_swap_step, get_delta_up_from_input, get_next_sqrt_price_from_input,
                get_delta_down_from_output
  <2>2. remain \in Nat /\ s < target /\ ~(s >= target)
    BY <1>1, <1>2, <1>6
  <2>3. /\ most \in 0 .. U128 - 1 /\ out \in 0 .. U128 - 1
        /\ next \in s .. target /\ PaysUp(s, next, L, in, out)
        /\ most > remain => next # target /\ (in = 0 => next = s)
    <3>1. RisesTo(s, target, L, remain, most, next, in, out)
      BY DEF RisesTo
    <3> HIDE DEF taken, remain, most, next, in, out
    <3> QED
      BY <1>1, <1>6, <2>2, <3>1, StepUp
  <2>4. ~(most > remain) => next = target
    OBVIOUS
  <2>5. most > remain => in = remain
    OBVIOUS
  <2>6. taken.amount_in = in
    <3> HIDE DEF taken, most, next, in, out, remain
    <3> QED
      BY <2>1
  <2>8. taken = [most |-> most, amount_in |-> IF most > remain THEN remain ELSE most,
                 amount_out |-> out,
                 fee_amount |-> IF most > remain THEN amount - remain
                                ELSE CeilDiv(most * fee, d - fee),
                 next |-> next]
    <3> HIDE DEF taken, most, next, out, remain
    <3> QED
      BY <2>1
  <2> HIDE DEF taken, most, next, in, out, remain
  <2>9. StepHolds(taken, s, target, L, amount, fee)
    BY <1>4, <1>6, <2>2, <2>3, <2>4, <2>5, <2>6, <2>8
  <2> QED
    BY <2>9 DEF taken
<1> QED
  BY <1>3, <1>5, <1>6

------------------------------------------------------------------------------
(* What a swap takes and pays on its way, as the positions count it.       *)

\* Less liquidity has room where more has.
LEMMA RoomIs ==
  ASSUME NEW K \in Nat, NEW L \in Nat, L <= K, HasRoom(K)
  PROVE  HasRoom(L)
<1> DEFINE h == MAX_SQRT_PRICE
           l == MIN_SQRT_PRICE
<1>1. h \in Nat /\ l \in Nat /\ R \in Nat /\ U128 \in Nat \ {0}
  BY CetusAssumption
<1>2. K * h * R < U128 * U128 /\ K * R <= (U128 - 1) * l /\ K * h <= (U128 - 1) * R
  BY DEF HasRoom
<1> HIDE DEF h, l
<1>3. L * h <= K * h /\ L * R <= K * R /\ L * h \in Nat /\ K * h \in Nat /\ L * R \in Nat /\ K * R \in Nat
  BY <1>1, Grows
<1>4. (L * h) * R <= (K * h) * R /\ (L * h) * R \in Nat /\ (K * h) * R \in Nat
  BY <1>1, <1>3, Grows
<1>5. U128 * U128 \in Int /\ (U128 - 1) * l \in Int /\ (U128 - 1) * R \in Int
  BY <1>1
<1>6. L * h * R < U128 * U128
  BY <1>2, <1>4, <1>5
<1>7. L * R <= (U128 - 1) * l
  BY <1>2, <1>3, <1>5
<1>8. L * h <= (U128 - 1) * R
  BY <1>2, <1>3, <1>5
<1> QED
  BY <1>6, <1>7, <1>8 DEF HasRoom, h, l

\* Some weigh no more than all.
LEMMA SumGrows ==
  ASSUME NEW S, IsFiniteSet(S), NEW U \in SUBSET S, NEW w, \A x \in S : w[x] \in Nat
  PROVE  SumFunctionOnSet(w, U) <= SumFunctionOnSet(w, S)
<1> DEFINE v == [x \in S |-> IF x \in U THEN w[x] ELSE 0]
<1>1. \A x \in S : v[x] \in Int /\ w[x] \in Int /\ v[x] <= w[x]
  OBVIOUS
<1>2. SumFunctionOnSet(w, U) = SumFunctionOnSet(v, S)
  BY <1>1, SumOfSome
<1> HIDE DEF v
<1>3. SumFunctionOnSet(v, S) <= SumFunctionOnSet(w, S)
  BY <1>1, SumLess
<1> QED
  BY <1>2, <1>3

\* A position is a range of prices that has some liquidity.
LEMMA PositionIs ==
  ASSUME NEW state, ValidPool(state), NEW p \in state.positions
  PROVE  /\ p.lo \in Tick /\ p.hi \in Tick /\ p.lo < p.hi /\ p.size \in Nat \ {0}
         /\ p.lo \in Int /\ p.hi \in Int
         /\ TickPrice[p.lo] \in MIN_SQRT_PRICE .. MAX_SQRT_PRICE
         /\ TickPrice[p.hi] \in MIN_SQRT_PRICE .. MAX_SQRT_PRICE
         /\ TickPrice[p.lo] < TickPrice[p.hi]
BY CetusAssumption DEF ValidPool

\* The higher the tick, the higher its price.
LEMMA PriceOfTick ==
  ASSUME NEW t \in Tick, NEW u \in Tick
  PROVE  /\ t \in Int /\ u \in Int /\ TickPrice[t] \in MIN_SQRT_PRICE .. MAX_SQRT_PRICE
         /\ t <= u => TickPrice[t] <= TickPrice[u]
         /\ t < u => TickPrice[t] < TickPrice[u]
<1>1. /\ t \in Int /\ u \in Int /\ TickPrice[t] \in MIN_SQRT_PRICE .. MAX_SQRT_PRICE
      /\ MIN_SQRT_PRICE \in Nat /\ MAX_SQRT_PRICE \in Nat
      /\ t < u => TickPrice[t] < TickPrice[u]
  BY CetusAssumption
<1>2. TickPrice[u] \in MIN_SQRT_PRICE .. MAX_SQRT_PRICE
  BY CetusAssumption
<1>3. TickPrice[t] \in Int /\ TickPrice[u] \in Int
  BY <1>1, <1>2
<1>4. ASSUME t <= u PROVE TickPrice[t] <= TickPrice[u]
  <2>1. CASE t = u
    BY <1>3, <2>1
  <2>2. CASE t # u
    <3>1. t < u
      BY <1>1, <1>4, <2>2
    <3> QED
      BY <1>1, <1>3, <3>1
  <2> QED
    BY <2>1, <2>2
<1> QED
  BY <1>1, <1>4

\* The price within a position moves with the price.
LEMMA WithinIs ==
  ASSUME NEW state, ValidPool(state), NEW p \in state.positions,
         NEW s \in MIN_SQRT_PRICE .. MAX_SQRT_PRICE, NEW t \in MIN_SQRT_PRICE .. MAX_SQRT_PRICE
  PROVE  /\ Within(s, p) \in MIN_SQRT_PRICE .. MAX_SQRT_PRICE
         /\ s <= t => Within(s, p) <= Within(t, p)
<1>1. /\ TickPrice[p.lo] \in MIN_SQRT_PRICE .. MAX_SQRT_PRICE
      /\ TickPrice[p.hi] \in MIN_SQRT_PRICE .. MAX_SQRT_PRICE
      /\ TickPrice[p.lo] < TickPrice[p.hi]
      /\ MIN_SQRT_PRICE \in Nat /\ MAX_SQRT_PRICE \in Nat
  BY PositionIs, CetusAssumption
<1> QED
  BY <1>1 DEF Within

\* Shares of the common multiple are whole, and the smaller the higher the price.
LEMMA ShareIs ==
  ASSUME NEW s \in MIN_SQRT_PRICE .. MAX_SQRT_PRICE
  PROVE  /\ Multiple \in Nat \ {0} /\ Multiple \div s \in Nat /\ (Multiple \div s) * s = Multiple
         /\ \A t \in MIN_SQRT_PRICE .. MAX_SQRT_PRICE : s <= t => Multiple \div t <= Multiple \div s
<1>1. /\ Multiple \in Nat \ {0} /\ MIN_SQRT_PRICE \in Nat \ {0} /\ MAX_SQRT_PRICE \in Nat
      /\ \A t \in MIN_SQRT_PRICE .. MAX_SQRT_PRICE : Multiple % t = 0
  BY CetusAssumption
<1>2. \A a \in Nat, b \in Nat \ {0} : a % b = 0 => (a \div b) * b = a
  OBVIOUS
<1>3. \A t \in MIN_SQRT_PRICE .. MAX_SQRT_PRICE :
        t \in Nat \ {0} /\ Multiple \div t \in Nat /\ (Multiple \div t) * t = Multiple
  <2> SUFFICES ASSUME NEW t \in MIN_SQRT_PRICE .. MAX_SQRT_PRICE
               PROVE  t \in Nat \ {0} /\ Multiple \div t \in Nat /\ (Multiple \div t) * t = Multiple
    OBVIOUS
  <2>1. t \in Nat \ {0} /\ Multiple \in Nat /\ Multiple % t = 0
    BY <1>1
  <2>2. (Multiple \div t) * t = Multiple
    BY <1>2, <2>1
  <2>3. Multiple \div t \in Nat
    BY <2>1, Quotient
  <2> QED
    BY <2>1, <2>2, <2>3
<1>4. ASSUME NEW t \in MIN_SQRT_PRICE .. MAX_SQRT_PRICE, s <= t
      PROVE  Multiple \div t <= Multiple \div s
  <2> DEFINE u == Multiple \div s
             v == Multiple \div t
  <2>1. /\ s \in Nat \ {0} /\ t \in Nat \ {0} /\ u \in Nat /\ v \in Nat
        /\ u * s = Multiple /\ v * t = Multiple
    BY <1>3
  <2> HIDE DEF u, v
  <2>2. v * s <= v * t
    BY <1>4, <2>1, Grows
  <2>3. v * s <= u * s
    BY <2>1, <2>2
  <2>4. v <= u
    BY <2>1, <2>3, Cancels
  <2> QED
    BY <2>4 DEF u, v
<1> QED
  BY <1>1, <1>3, <1>4

\* s lies between n and t.
Between(n, s, t) == (n <= s /\ s <= t) \/ (t <= s /\ s <= n)

LEMMA DistanceAdds ==
  ASSUME NEW a \in Int, NEW b \in Int, NEW c \in Int, Between(a, b, c)
  PROVE  /\ Distance(a, c) = Distance(b, c) + Distance(a, b)
         /\ Distance(a, c) \in Nat /\ Distance(b, c) \in Nat /\ Distance(a, b) \in Nat
BY DEF Between, Distance

\* Sums add up.
AddUp(w, u, v, S) ==
  \A x \in S : w[x] = u[x] + 1 * v[x] /\ w[x] \in Nat /\ u[x] \in Nat /\ v[x] \in Nat

LEMMA SumAdds ==
  ASSUME NEW S, IsFiniteSet(S), NEW w, NEW u, NEW v, AddUp(w, u, v, S)
  PROVE  /\ SumFunctionOnSet(w, S) = SumFunctionOnSet(u, S) + SumFunctionOnSet(v, S)
         /\ SumFunctionOnSet(u, S) \in Nat /\ SumFunctionOnSet(v, S) \in Nat
<1>1. SumFunctionOnSet(u, S) \in Nat /\ SumFunctionOnSet(v, S) \in Nat
  BY SumNat DEF AddUp
<1>2. \A x \in S : w[x] \in Int /\ u[x] \in Int /\ v[x] \in Int /\ w[x] = u[x] + 1 * v[x]
  BY DEF AddUp
<1>3. SumFunctionOnSet(w, S) = SumFunctionOnSet(u, S) + 1 * SumFunctionOnSet(v, S)
  BY <1>2, SumLinear
<1> QED
  BY <1>1, <1>3

\* What a swap takes and pays between two prices is what it does on the way to a third
\* and from there on.
LEMMA Farther ==
  ASSUME NEW state, ValidPool(state),
         NEW n \in MIN_SQRT_PRICE .. MAX_SQRT_PRICE, NEW s \in MIN_SQRT_PRICE .. MAX_SQRT_PRICE,
         NEW t \in MIN_SQRT_PRICE .. MAX_SQRT_PRICE, Between(n, s, t)
  PROVE  /\ ExactA(state, n, t) = ExactA(state, s, t) + ExactA(state, n, s)
         /\ ExactB(state, n, t) = ExactB(state, s, t) + ExactB(state, n, s)
         /\ ExactA(state, s, t) \in Nat /\ ExactA(state, n, s) \in Nat
         /\ ExactB(state, s, t) \in Nat /\ ExactB(state, n, s) \in Nat
<1> DEFINE P == state.positions
           A(x, y) == [p \in P |-> p.size * R * Distance(Multiple \div Within(x, p), Multiple \div Within(y, p))]
           B(x, y) == [p \in P |-> p.size * Distance(Within(x, p), Within(y, p))]
<1>1. IsFiniteSet(P) /\ R \in Nat /\ MIN_SQRT_PRICE \in Nat /\ MAX_SQRT_PRICE \in Nat
  BY CetusAssumption DEF ValidPool
<1>2. ASSUME NEW p \in P
      PROVE  /\ p.size \in Nat
             /\ Within(n, p) \in Int /\ Within(s, p) \in Int /\ Within(t, p) \in Int
             /\ Between(Within(n, p), Within(s, p), Within(t, p))
             /\ Multiple \div Within(n, p) \in Int /\ Multiple \div Within(s, p) \in Int
             /\ Multiple \div Within(t, p) \in Int
             /\ Between(Multiple \div Within(n, p), Multiple \div Within(s, p), Multiple \div Within(t, p))
  <2>1. p.size \in Nat
    BY PositionIs
  <2>2. /\ Within(n, p) \in MIN_SQRT_PRICE .. MAX_SQRT_PRICE /\ Within(s, p) \in MIN_SQRT_PRICE .. MAX_SQRT_PRICE
        /\ Within(t, p) \in MIN_SQRT_PRICE .. MAX_SQRT_PRICE
        /\ n <= s => Within(n, p) <= Within(s, p)
        /\ s <= t => Within(s, p) <= Within(t, p)
        /\ t <= s => Within(t, p) <= Within(s, p)
        /\ s <= n => Within(s, p) <= Within(n, p)
    BY WithinIs
  <2>3. Between(Within(n, p), Within(s, p), Within(t, p))
    BY <2>2 DEF Between
  <2> DEFINE a == Within(n, p)
             b == Within(s, p)
             c == Within(t, p)
  <2> HIDE DEF a, b, c
  <2>4. /\ a \in MIN_SQRT_PRICE .. MAX_SQRT_PRICE /\ b \in MIN_SQRT_PRICE .. MAX_SQRT_PRICE
        /\ c \in MIN_SQRT_PRICE .. MAX_SQRT_PRICE /\ Between(a, b, c)
    BY <2>2, <2>3 DEF a, b, c
  <2>5. /\ Multiple \div a \in Nat /\ Multiple \div b \in Nat /\ Multiple \div c \in Nat
        /\ a <= b => Multiple \div b <= Multiple \div a
        /\ b <= c => Multiple \div c <= Multiple \div b
        /\ c <= b => Multiple \div b <= Multiple \div c
        /\ b <= a => Multiple \div a <= Multiple \div b
    BY <2>4, ShareIs
  <2>6. a \in Int /\ b \in Int /\ c \in Int
    BY <1>1, <2>4
  <2>7. Between(Multiple \div a, Multiple \div b, Multiple \div c)
    <3> DEFINE x == Multiple \div a
               y == Multiple \div b
               z == Multiple \div c
    <3> HIDE DEF x, y, z
    <3>1. (a <= b => y <= x) /\ (b <= c => z <= y) /\ (c <= b => y <= z) /\ (b <= a => x <= y)
      BY <2>5 DEF x, y, z
    <3>2. x \in Nat /\ y \in Nat /\ z \in Nat
      BY <2>5 DEF x, y, z
    <3>3. (a <= b /\ b <= c) \/ (c <= b /\ b <= a)
      BY <2>4 DEF Between
    <3>4. Between(x, y, z)
      BY <2>6, <3>1, <3>2, <3>3 DEF Between
    <3> QED
      BY <3>4 DEF x, y, z
  <2> QED
    BY <2>1, <2>3, <2>5, <2>6, <2>7 DEF a, b, c
<1>3. ASSUME NEW k \in Nat, NEW a \in Int, NEW b \in Int, NEW c \in Int, Between(a, b, c)
      PROVE  /\ k * Distance(a, c) = k * Distance(b, c) + 1 * (k * Distance(a, b))
             /\ k * Distance(a, c) \in Nat /\ k * Distance(b, c) \in Nat /\ k * Distance(a, b) \in Nat
  <2>1. /\ Distance(a, c) = Distance(b, c) + Distance(a, b)
        /\ Distance(a, c) \in Nat /\ Distance(b, c) \in Nat /\ Distance(a, b) \in Nat
    BY <1>3, DistanceAdds
  <2> QED
    BY <2>1
<1>4. ASSUME NEW p \in P
      PROVE  /\ A(n, t)[p] = A(s, t)[p] + 1 * A(n, s)[p]
             /\ A(n, t)[p] \in Nat /\ A(s, t)[p] \in Nat /\ A(n, s)[p] \in Nat
  <2> DEFINE k == p.size * R
             a == Multiple \div Within(n, p)
             b == Multiple \div Within(s, p)
             c == Multiple \div Within(t, p)
  <2>1. k \in Nat
    BY <1>1, <1>2
  <2>2. a \in Int /\ b \in Int /\ c \in Int /\ Between(a, b, c)
    BY <1>2
  <2>3. A(n, t)[p] = k * Distance(a, c) /\ A(s, t)[p] = k * Distance(b, c) /\ A(n, s)[p] = k * Distance(a, b)
    OBVIOUS
  <2> HIDE DEF k, a, b, c, A
  <2>4. /\ k * Distance(a, c) = k * Distance(b, c) + 1 * (k * Distance(a, b))
        /\ k * Distance(a, c) \in Nat /\ k * Distance(b, c) \in Nat /\ k * Distance(a, b) \in Nat
    BY <1>3, <2>1, <2>2
  <2> QED
    BY <2>3, <2>4
<1>5. ASSUME NEW p \in P
      PROVE  /\ B(n, t)[p] = B(s, t)[p] + 1 * B(n, s)[p]
             /\ B(n, t)[p] \in Nat /\ B(s, t)[p] \in Nat /\ B(n, s)[p] \in Nat
  <2> DEFINE k == p.size
             a == Within(n, p)
             b == Within(s, p)
             c == Within(t, p)
  <2>1. k \in Nat
    BY <1>2
  <2>2. a \in Int /\ b \in Int /\ c \in Int /\ Between(a, b, c)
    BY <1>2
  <2>3. B(n, t)[p] = k * Distance(a, c) /\ B(s, t)[p] = k * Distance(b, c) /\ B(n, s)[p] = k * Distance(a, b)
    OBVIOUS
  <2> HIDE DEF k, a, b, c, B
  <2>4. /\ k * Distance(a, c) = k * Distance(b, c) + 1 * (k * Distance(a, b))
        /\ k * Distance(a, c) \in Nat /\ k * Distance(b, c) \in Nat /\ k * Distance(a, b) \in Nat
    BY <1>3, <2>1, <2>2
  <2> QED
    BY <2>3, <2>4
<1>6. /\ ExactA(state, n, t) = SumFunctionOnSet(A(n, t), P) /\ ExactA(state, s, t) = SumFunctionOnSet(A(s, t), P)
      /\ ExactA(state, n, s) = SumFunctionOnSet(A(n, s), P)
      /\ ExactB(state, n, t) = SumFunctionOnSet(B(n, t), P) /\ ExactB(state, s, t) = SumFunctionOnSet(B(s, t), P)
      /\ ExactB(state, n, s) = SumFunctionOnSet(B(n, s), P)
  BY DEF ExactA, ExactB
<1> DEFINE ant == A(n, t)
           ast == A(s, t)
           ans == A(n, s)
           bnt == B(n, t)
           bst == B(s, t)
           bns == B(n, s)
<1>7. IsFiniteSet(P)
  BY <1>1
<1>8. AddUp(ant, ast, ans, P)
  BY <1>4 DEF AddUp
<1>9. AddUp(bnt, bst, bns, P)
  BY <1>5 DEF AddUp
<1> HIDE DEF ant, ast, ans, bnt, bst, bns, P, A, B
<1>10. /\ SumFunctionOnSet(ant, P) = SumFunctionOnSet(ast, P) + SumFunctionOnSet(ans, P)
       /\ SumFunctionOnSet(ast, P) \in Nat /\ SumFunctionOnSet(ans, P) \in Nat
  BY <1>7, <1>8, SumAdds
<1>11. /\ SumFunctionOnSet(bnt, P) = SumFunctionOnSet(bst, P) + SumFunctionOnSet(bns, P)
       /\ SumFunctionOnSet(bst, P) \in Nat /\ SumFunctionOnSet(bns, P) \in Nat
  BY <1>7, <1>9, SumAdds
<1> QED
  BY <1>6, <1>10, <1>11 DEF ant, ast, ans, bnt, bst, bns

\* A way that some positions go along with and the others stay out of.
LEMMA AlongIs ==
  ASSUME NEW state, ValidPool(state), NEW I \in SUBSET state.positions,
         NEW n \in MIN_SQRT_PRICE .. MAX_SQRT_PRICE, NEW s \in MIN_SQRT_PRICE .. MAX_SQRT_PRICE,
         \A p \in I : Within(n, p) = n /\ Within(s, p) = s,
         \A p \in state.positions \ I : Within(n, p) = Within(s, p),
         NEW L, L = SumFunctionOnSet([p \in state.positions |-> p.size], I)
  PROVE  /\ L \in Nat
         /\ ExactA(state, n, s) = L * R * Distance(Multiple \div n, Multiple \div s)
         /\ ExactB(state, n, s) = L * Distance(n, s)
<1> DEFINE P == state.positions
           size == [p \in P |-> p.size]
           v == [p \in P |-> IF p \in I THEN size[p] ELSE 0]
           zero == [p \in P |-> 0]
           a == R * Distance(Multiple \div n, Multiple \div s)
           b == Distance(n, s)
           wa == [p \in P |-> p.size * R * Distance(Multiple \div Within(n, p), Multiple \div Within(s, p))]
           wb == [p \in P |-> p.size * Distance(Within(n, p), Within(s, p))]
<1>1. /\ IsFiniteSet(P) /\ R \in Nat /\ I \in SUBSET P
      /\ a \in Nat /\ b \in Nat
  <2>1. Multiple \div n \in Nat /\ Multiple \div s \in Nat /\ R \in Nat
    BY ShareIs, CetusAssumption
  <2>2. Distance(Multiple \div n, Multiple \div s) \in Nat
    BY <2>1 DEF Distance
  <2>3. b \in Nat
    BY DistanceIs
  <2> HIDE DEF b
  <2> QED
    BY <2>1, <2>2, <2>3 DEF ValidPool
<1>2. \A p \in P : size[p] \in Nat /\ v[p] \in Nat /\ zero[p] = 0
  BY PositionIs
<1>3. ASSUME NEW p \in P
      PROVE  wa[p] = zero[p] + a * v[p] /\ wb[p] = zero[p] + b * v[p]
  <2>1. p.size \in Nat
    BY PositionIs
  <2>2. CASE p \in I
    <3>1. Within(n, p) = n /\ Within(s, p) = s /\ v[p] = p.size
      BY <2>2
    <3> DEFINE d == Distance(Multiple \div n, Multiple \div s)
    <3>2. wa[p] = p.size * R * d /\ wb[p] = p.size * b
      BY <3>1
    <3>3. d \in Nat
      BY ShareIs DEF Distance
    <3>4. a = R * d
      OBVIOUS
    <3> HIDE DEF d, a, b, wa, wb, v
    <3> QED
      BY <1>1, <1>2, <2>1, <3>1, <3>2, <3>3, <3>4
  <2>3. CASE p \notin I
    <3>1. Within(n, p) = Within(s, p) /\ v[p] = 0
      BY <2>3
    <3>2. Distance(Within(s, p), Within(s, p)) = 0
          /\ Distance(Multiple \div Within(s, p), Multiple \div Within(s, p)) = 0
      <4>1. Within(s, p) \in MIN_SQRT_PRICE .. MAX_SQRT_PRICE
        BY WithinIs
      <4>2. Within(s, p) \in Int /\ Multiple \div Within(s, p) \in Int
        BY <4>1, ShareIs, CetusAssumption
      <4> QED
        BY <4>2 DEF Distance
    <3>3. wa[p] = p.size * R * 0 /\ wb[p] = p.size * 0
      BY <3>1, <3>2
    <3> HIDE DEF a, b, wa, wb, v
    <3> QED
      BY <1>1, <1>2, <2>1, <3>1, <3>3
  <2> QED
    BY <2>2, <2>3
<1>4. ExactA(state, n, s) = SumFunctionOnSet(wa, P) /\ ExactB(state, n, s) = SumFunctionOnSet(wb, P)
  BY DEF ExactA, ExactB
<1>5. L = SumFunctionOnSet(size, I)
  OBVIOUS
<1>6. L = SumFunctionOnSet(v, P)
  <2>1. v = [p \in P |-> IF p \in I THEN size[p] ELSE 0]
    OBVIOUS
  <2>2. \A p \in P : size[p] \in Int
    <3> HIDE DEF size, v, zero
    <3> QED
      BY <1>2
  <2> HIDE DEF size, v, P
  <2> QED
    BY <1>1, <1>5, <2>1, <2>2, SumOfSome
<1> HIDE DEF P, size, v, zero, a, b, wa, wb
<1>7. \A p \in P : zero[p] \in Int /\ v[p] \in Int /\ wa[p] \in Int /\ wb[p] \in Int
  BY <1>1, <1>2, <1>3
<1>8. L \in Nat
  BY <1>1, <1>2, <1>6, SumNat
<1>9. SumFunctionOnSet(zero, P) = 0
  BY <1>1, <1>2, SumZero
<1>10. SumFunctionOnSet(wa, P) = SumFunctionOnSet(zero, P) + a * SumFunctionOnSet(v, P)
  BY <1>1, <1>3, <1>7, SumLinear
<1>11. SumFunctionOnSet(wb, P) = SumFunctionOnSet(zero, P) + b * SumFunctionOnSet(v, P)
  BY <1>1, <1>3, <1>7, SumLinear
<1>12. ExactB(state, n, s) = L * b /\ ExactA(state, n, s) = L * a
  BY <1>1, <1>4, <1>6, <1>8, <1>9, <1>10, <1>11
<1>13. L * a = L * R * Distance(Multiple \div n, Multiple \div s)
  <2> DEFINE d == Distance(Multiple \div n, Multiple \div s)
  <2>1. d \in Nat /\ a = R * d
    BY ShareIs DEF Distance, a
  <2> HIDE DEF d
  <2>2. L * a = L * R * d
    BY <1>1, <1>8, <2>1
  <2> QED
    BY <2>2 DEF d
<1> QED
  BY <1>8, <1>12, <1>13 DEF b

\* By how much the shares of two prices differ.
LEMMA ShareApart ==
  ASSUME NEW n \in MIN_SQRT_PRICE .. MAX_SQRT_PRICE, NEW s \in MIN_SQRT_PRICE .. MAX_SQRT_PRICE, n <= s
  PROVE  /\ Distance(Multiple \div n, Multiple \div s) \in Nat
         /\ Distance(Multiple \div s, Multiple \div n) = Distance(Multiple \div n, Multiple \div s)
         /\ Distance(Multiple \div n, Multiple \div s) * (s * n) = Multiple * (s - n)
<1> DEFINE u == Multiple \div s
           v == Multiple \div n
<1>1. /\ n \in Nat \ {0} /\ s \in Nat \ {0} /\ Multiple \in Nat
      /\ u \in Nat /\ v \in Nat /\ u * s = Multiple /\ v * n = Multiple /\ u <= v
  BY ShareIs, DistanceIs
<1> HIDE DEF u, v
<1>2. Distance(v, u) = v - u /\ Distance(u, v) = v - u /\ v - u \in Nat
  BY <1>1 DEF Distance
<1>3. (v - u) * (s * n) = (v * n) * s - (u * s) * n
  BY <1>1
<1>4. Multiple * (s - n) = Multiple * s - Multiple * n
  BY <1>1
<1> QED
  BY <1>1, <1>2, <1>3, <1>4 DEF u, v

\* The same inequality, in units of the common multiple.
LEMMA InShares ==
  ASSUME NEW n \in MIN_SQRT_PRICE .. MAX_SQRT_PRICE, NEW s \in MIN_SQRT_PRICE .. MAX_SQRT_PRICE, n <= s,
         NEW L \in Nat, NEW c \in Nat
  PROVE  LET x == L * R * Distance(Multiple \div n, Multiple \div s)
             y == L * (s - n) * R
         IN /\ x \in Nat
            /\ y <= c * (s * n) => x <= c * Multiple
            /\ c * (s * n) <= y => c * Multiple <= x
<1> DEFINE d == Distance(Multiple \div n, Multiple \div s)
           x == L * R * d
           y == L * (s - n) * R
           b == s * n
           m == Multiple
<1>1. /\ d \in Nat /\ d * b = m * (s - n)
      /\ n \in Nat \ {0} /\ s \in Nat \ {0} /\ b \in Nat \ {0} /\ s - n \in Nat
      /\ m \in Nat \ {0} /\ R \in Nat
  BY ShareApart, ShareIs, DistanceIs, CetusAssumption
<1> HIDE DEF d, b, m
<1>2. x \in Nat /\ y \in Nat
  BY <1>1
<1>3. x * b = y * m
  <2>1. (L * R) * (d * b) = (L * R) * (m * (s - n))
    BY <1>1
  <2>2. x * b = (L * R) * (d * b) /\ y * m = (L * R) * (m * (s - n))
    BY <1>1
  <2> QED
    BY <2>1, <2>2
<1>4. (c * m) * b = (c * b) * m /\ c * b \in Nat /\ c * m \in Nat
  BY <1>1
<1> HIDE DEF x, y
<1>5. ASSUME y <= c * b PROVE x <= c * m
  <2>1. y * m <= (c * b) * m
    BY <1>1, <1>2, <1>4, <1>5, Grows
  <2>2. x * b <= (c * m) * b
    BY <1>3, <1>4, <2>1
  <2> QED
    BY <1>1, <1>2, <1>4, <2>2, Cancels
<1>6. ASSUME c * b <= y PROVE c * m <= x
  <2>1. (c * b) * m <= y * m
    BY <1>1, <1>2, <1>4, <1>6, Grows
  <2>2. (c * m) * b <= x * b
    BY <1>3, <1>4, <2>1
  <2> QED
    BY <1>1, <1>2, <1>4, <2>2, Cancels
<1> QED
  BY <1>2, <1>5, <1>6 DEF x, y, d, b, m

\* The way down and the way up, as the positions count them.
LEMMA PaidDown ==
  ASSUME NEW n \in MIN_SQRT_PRICE .. MAX_SQRT_PRICE, NEW s \in MIN_SQRT_PRICE .. MAX_SQRT_PRICE, n <= s,
         NEW L \in Nat, NEW in \in Nat, NEW out \in Nat, PaysDown(s, n, L, in, out)
  PROVE  /\ L * R * Distance(Multiple \div n, Multiple \div s) \in Nat /\ L * Distance(n, s) \in Nat
         /\ L * R * Distance(Multiple \div n, Multiple \div s) <= in * Multiple
         /\ out * R <= L * Distance(n, s) /\ L * Distance(n, s) <= (out + 1) * R
<1>1. L * (s - n) * R <= in * (s * n) /\ out * R <= L * (s - n) /\ L * (s - n) <= (out + 1) * R
  BY DEF PaysDown
<1>2. Distance(n, s) = s - n /\ L * (s - n) \in Nat
  BY DistanceIs
<1>3. /\ L * R * Distance(Multiple \div n, Multiple \div s) \in Nat
      /\ L * (s - n) * R <= in * (s * n) => L * R * Distance(Multiple \div n, Multiple \div s) <= in * Multiple
  BY InShares
<1> QED
  BY <1>1, <1>2, <1>3

LEMMA PaidUp ==
  ASSUME NEW n \in MIN_SQRT_PRICE .. MAX_SQRT_PRICE, NEW s \in MIN_SQRT_PRICE .. MAX_SQRT_PRICE, s <= n,
         NEW L \in Nat, NEW in \in Nat, NEW out \in Nat, PaysUp(s, n, L, in, out)
  PROVE  /\ L * R * Distance(Multiple \div n, Multiple \div s) \in Nat /\ L * Distance(n, s) \in Nat
         /\ L * Distance(n, s) <= in * R
         /\ out * Multiple <= L * R * Distance(Multiple \div n, Multiple \div s)
         /\ L * R * Distance(Multiple \div n, Multiple \div s) <= (out + 1) * Multiple
<1> DEFINE x == L * R * Distance(Multiple \div n, Multiple \div s)
           y == L * (n - s) * R
<1>1. /\ L * (n - s) <= in * R
      /\ out * (s * n) <= y /\ y <= (out + 1) * (s * n)
  BY DEF PaysUp
<1>2. Distance(n, s) = n - s /\ L * (n - s) \in Nat /\ s * n = n * s
  BY DistanceIs
<1>3. x = L * R * Distance(Multiple \div s, Multiple \div n)
  BY ShareApart
<1>4. out + 1 \in Nat
  OBVIOUS
<1>5. \A c \in Nat : /\ x \in Nat
                     /\ y <= c * (n * s) => x <= c * Multiple
                     /\ c * (n * s) <= y => c * Multiple <= x
  <2> SUFFICES ASSUME NEW c \in Nat
               PROVE  /\ x \in Nat
                      /\ y <= c * (n * s) => x <= c * Multiple
                      /\ c * (n * s) <= y => c * Multiple <= x
    OBVIOUS
  <2> DEFINE z == L * R * Distance(Multiple \div s, Multiple \div n)
  <2>1. /\ z \in Nat
        /\ y <= c * (n * s) => z <= c * Multiple
        /\ c * (n * s) <= y => c * Multiple <= z
    BY InShares
  <2> HIDE DEF x, y, z
  <2> QED
    BY <1>3, <2>1 DEF z
<1> HIDE DEF x, y
<1>6. x \in Nat /\ out * Multiple <= x
  BY <1>1, <1>2, <1>5
<1>7. x <= (out + 1) * Multiple
  BY <1>1, <1>2, <1>4, <1>5
<1> QED
  BY <1>1, <1>2, <1>6, <1>7 DEF x

------------------------------------------------------------------------------
(* A walk through the ticks of a pool: the positions it is inside of.      *)

\* The positions a walk is inside of when the ticks A are still ahead of it, and that
\* nothing is ahead that is not beyond what lies behind.
InsideOf(state, A) == {p \in state.positions : Far(p) \in A /\ Near(p) \notin A}
Parted(state, A) == \A t \in InitializedTicks(state) \ A, u \in A : Onward(t, u)
SizeOf(state, I) == SumFunctionOnSet([p \in state.positions |-> p.size], I)

LEMMA EndsAre ==
  ASSUME NEW state, ValidPool(state), NEW p \in state.positions
  PROVE  /\ p.lo \in InitializedTicks(state) /\ p.hi \in InitializedTicks(state)
         /\ Near(p) \in InitializedTicks(state) /\ Far(p) \in InitializedTicks(state)
         /\ p.lo \in Int /\ p.hi \in Int /\ p.lo < p.hi /\ p.size \in Nat \ {0}
<1>1. p.lo \in InitializedTicks(state) /\ p.hi \in InitializedTicks(state)
  BY DEF InitializedTicks
<1>2. (Near(p) = p.lo \/ Near(p) = p.hi) /\ (Far(p) = p.lo \/ Far(p) = p.hi)
  BY DEF Near, Far
<1> QED
  BY <1>1, <1>2, PositionIs

\* It never has more liquidity than the pool has at some tick.
LEMMA NoMoreThanThere ==
  ASSUME NEW state, ValidPool(state), NEW A \in SUBSET InitializedTicks(state), Parted(state, A)
  PROVE  /\ SizeOf(state, InsideOf(state, A)) \in Nat
         /\ \E t \in Tick : SizeOf(state, InsideOf(state, A)) <= LiquidityAt(state, t)
<1> DEFINE P == state.positions
           I == InsideOf(state, A)
           size == [p \in P |-> p.size]
<1>1. IsFiniteSet(P) /\ \A p \in P : size[p] \in Nat
  BY PositionIs DEF ValidPool
<1>2. I \in SUBSET P /\ IsFiniteSet(I)
  <2>1. I \in SUBSET P
    BY DEF InsideOf
  <2> QED
    BY <1>1, <2>1, FS_Subset
<1>3. SizeOf(state, I) = SumFunctionOnSet(size, I)
  BY DEF SizeOf
<1>4. SizeOf(state, I) \in Nat
  <2> HIDE DEF I, size
  <2>1. \A p \in I : size[p] \in Nat
    BY <1>1, <1>2
  <2> QED
    BY <1>2, <1>3, <2>1, SumNat
<1>5. /\ InitializedTicks(state) \subseteq Tick /\ IsFiniteSet(Tick) /\ Tick \subseteq Int
      /\ state.tick \in Tick /\ \A t : LiquidityAt(state, t) \in Nat
  BY PoolIs, CetusAssumption DEF ValidPool
<1>6. ASSUME NEW t \in Tick, \A p \in I : p.lo <= t /\ t < p.hi
      PROVE  SizeOf(state, I) <= LiquidityAt(state, t)
  <2> DEFINE U == {p \in P : p.lo <= t /\ t < p.hi}
  <2>1. LiquidityAt(state, t) = SumFunctionOnSet(size, U)
    BY DEF LiquidityAt
  <2>2. I \in SUBSET U /\ U \in SUBSET P
    BY <1>2, <1>6
  <2> HIDE DEF U, I, size, P
  <2>3. IsFiniteSet(U) /\ \A p \in U : size[p] \in Nat
    BY <1>1, <2>2, FS_Subset
  <2> QED
    BY <1>3, <2>1, <2>2, <2>3, SumGrows
<1>7. CASE I = {}
  <2>1. \A p \in I : p.lo <= state.tick /\ state.tick < p.hi
    BY <1>7
  <2> QED
    BY <1>4, <1>5, <1>6, <2>1
<1>8. CASE I # {} /\ a2b
  <2> DEFINE t == Max(A)
  <2>1. A # {} /\ A \in SUBSET Int /\ IsFiniteSet(A)
    <3>1. A # {}
      BY <1>8 DEF InsideOf
    <3>2. A \in SUBSET Tick
      BY <1>5
    <3> QED
      BY <1>5, <3>1, <3>2, FS_Subset
  <2>2. t \in A /\ \A x \in A : x <= t
    BY <2>1, Extremes
  <2> HIDE DEF t
  <2>3. ASSUME NEW p \in I PROVE p.lo <= t /\ t < p.hi
    <3>1. p \in P /\ p.lo \in A /\ p.hi \notin A
      BY <1>8 DEF InsideOf, Far, Near
    <3>2. p.lo \in Int /\ p.hi \in Int /\ p.hi \in InitializedTicks(state)
      BY <3>1, EndsAre
    <3>3. t <= p.hi /\ t # p.hi
      BY <1>8, <2>2, <3>1, <3>2 DEF Parted, Onward
    <3> QED
      BY <2>1, <2>2, <3>1, <3>2, <3>3
  <2>4. t \in Tick
    BY <1>5, <2>2
  <2> QED
    BY <1>4, <1>6, <2>3, <2>4
<1>9. CASE I # {} /\ ~a2b
  <2> DEFINE N == InitializedTicks(state) \ A
             t == Max(N)
  <2>1. N # {} /\ N \in SUBSET Int /\ IsFiniteSet(N)
    <3>1. PICK p \in I : TRUE
      BY <1>9
    <3>2. p \in P /\ p.lo \notin A
      BY <1>9, <3>1 DEF InsideOf, Far, Near
    <3>3. p.lo \in InitializedTicks(state)
      BY <3>2, EndsAre
    <3>4. N # {} /\ N \in SUBSET Tick
      BY <1>5, <3>2, <3>3
    <3> HIDE DEF N
    <3> QED
      BY <1>5, <3>4, FS_Subset
  <2>2. t \in N /\ \A x \in N : x <= t
    <3> HIDE DEF N
    <3> QED
      BY <2>1, Extremes
  <2> HIDE DEF t
  <2>3. ASSUME NEW p \in I PROVE p.lo <= t /\ t < p.hi
    <3>1. p \in P /\ p.hi \in A /\ p.lo \notin A
      BY <1>9 DEF InsideOf, Far, Near
    <3>2. p.lo \in Int /\ p.hi \in Int /\ p.lo \in InitializedTicks(state)
      BY <3>1, EndsAre
    <3>3. t <= p.hi /\ t # p.hi
      BY <1>9, <2>2, <3>1 DEF Parted, Onward
    <3> QED
      BY <2>1, <2>2, <3>1, <3>2, <3>3
  <2>4. t \in Tick
    BY <1>5, <2>2
  <2> QED
    BY <1>4, <1>6, <2>3, <2>4
<1> QED
  BY <1>4, <1>7, <1>8, <1>9

\* What is left ahead still parts the ticks.
LEMMA PartedOn ==
  ASSUME NEW state, ValidPool(state), NEW A \in SUBSET InitializedTicks(state), Parted(state, A),
         NEW tick \in A, \A u \in A : Onward(tick, u)
  PROVE  Parted(state, A \ {tick})
<1>1. InitializedTicks(state) \subseteq Int
  BY PoolIs, CetusAssumption
<1> QED
  BY <1>1 DEF Parted, Onward

\* Crossing the nearest tick takes a walk into the positions that begin there and out of
\* those that end there: what a pool whose nets add downwards keeps of the tick.
LEMMA CrossingIs ==
  ASSUME NEW state, ValidPool(state), state.upward = -1,
         NEW A \in SUBSET InitializedTicks(state), Parted(state, A),
         NEW tick \in A, \A u \in A : Onward(tick, u)
  PROVE  /\ SizeOf(state, InsideOf(state, A \ {tick}))
              = IF a2b THEN SizeOf(state, InsideOf(state, A)) + NetAt(state, tick)
                ELSE SizeOf(state, InsideOf(state, A)) - NetAt(state, tick)
         /\ Parted(state, A \ {tick})
<1> DEFINE P == state.positions
           I == InsideOf(state, A)
           J == InsideOf(state, A \ {tick})
           size == [p \in P |-> p.size]
           i == [p \in P |-> IF p \in I THEN size[p] ELSE 0]
           j == [p \in P |-> IF p \in J THEN size[p] ELSE 0]
           net == [p \in P |-> (IF p.lo = tick THEN p.size ELSE 0) - (IF p.hi = tick THEN p.size ELSE 0)]
           sign == IF a2b THEN -1 ELSE 1
<1>1. IsFiniteSet(P) /\ \A p \in P : size[p] = p.size /\ size[p] \in Nat /\ size[p] \in Int
  BY PositionIs DEF ValidPool
<1>2. I \in SUBSET P /\ J \in SUBSET P
  BY DEF InsideOf
<1>3. InitializedTicks(state) \subseteq Int
  BY PoolIs, CetusAssumption
<1>4. Parted(state, A \ {tick})
  BY PartedOn
<1>5. ASSUME NEW p \in P
      PROVE  /\ (p \in I <=> Far(p) \in A /\ Near(p) \notin A)
             /\ (p \in J <=> Far(p) \in A \ {tick} /\ Near(p) \notin A \ {tick})
             /\ Far(p) # Near(p)
             /\ Far(p) = tick => p \in I /\ p \notin J
             /\ Near(p) = tick => p \notin I /\ p \in J
  <2>1. (p \in I <=> Far(p) \in A /\ Near(p) \notin A)
        /\ (p \in J <=> Far(p) \in A \ {tick} /\ Near(p) \notin A \ {tick})
    BY DEF InsideOf
  <2>2. p.lo \in Int /\ p.hi \in Int /\ p.lo < p.hi /\ tick \in Int
        /\ p.lo \in InitializedTicks(state) /\ p.hi \in InitializedTicks(state)
    BY <1>3, EndsAre
  <2>3. CASE a2b
    <3>1. Far(p) = p.lo /\ Near(p) = p.hi
      BY <2>3 DEF Far, Near
    <3>2. p.lo = tick => p.hi \notin A
      BY <2>2, <2>3 DEF Onward
    <3>3. p.hi = tick => p.lo \in A
      BY <2>2, <2>3 DEF Parted, Onward
    <3> QED
      BY <2>1, <2>2, <3>1, <3>2, <3>3
  <2>4. CASE ~a2b
    <3>1. Far(p) = p.hi /\ Near(p) = p.lo
      BY <2>4 DEF Far, Near
    <3>2. p.hi = tick => p.lo \notin A
      BY <2>2, <2>4 DEF Onward
    <3>3. p.lo = tick => p.hi \in A
      BY <2>2, <2>4 DEF Parted, Onward
    <3> QED
      BY <2>1, <2>2, <3>1, <3>2, <3>3
  <2> QED
    BY <2>3, <2>4
<1>6. ASSUME NEW p \in P
      PROVE  j[p] = i[p] + sign * net[p] /\ i[p] \in Int /\ j[p] \in Int /\ net[p] \in Int
  <2>1. /\ i[p] = IF p \in I THEN p.size ELSE 0
        /\ j[p] = IF p \in J THEN p.size ELSE 0
        /\ net[p] = (IF p.lo = tick THEN p.size ELSE 0) - (IF p.hi = tick THEN p.size ELSE 0)
        /\ p.size \in Nat
    BY <1>1
  <2>2. /\ (p \in I <=> Far(p) \in A /\ Near(p) \notin A)
        /\ (p \in J <=> Far(p) \in A \ {tick} /\ Near(p) \notin A \ {tick})
        /\ Far(p) # Near(p)
        /\ Far(p) = tick => p \in I /\ p \notin J
        /\ Near(p) = tick => p \notin I /\ p \in J
    BY <1>5
  <2>3. /\ a2b => Far(p) = p.lo /\ Near(p) = p.hi
        /\ ~a2b => Far(p) = p.hi /\ Near(p) = p.lo
    BY DEF Far, Near
  <2>4. (a2b => sign = -1) /\ (~a2b => sign = 1)
    OBVIOUS
  <2> DEFINE ip == i[p]
             jp == j[p]
             np == net[p]
  <2>5. ip \in Int /\ jp \in Int /\ np \in Int
    BY <2>1
  <2> HIDE DEF I, J, size, i, j, net, sign
  <2>6. CASE Far(p) = tick
    <3>1. i[p] = p.size /\ j[p] = 0
      BY <2>1, <2>2, <2>6
    <3>2. (a2b => net[p] = p.size - 0) /\ (~a2b => net[p] = 0 - p.size)
      BY <2>1, <2>2, <2>3, <2>6
    <3> QED
      BY <2>1, <2>4, <2>5, <3>1, <3>2
  <2>7. CASE Near(p) = tick
    <3>1. i[p] = 0 /\ j[p] = p.size
      BY <2>1, <2>2, <2>7
    <3>2. (a2b => net[p] = 0 - p.size) /\ (~a2b => net[p] = p.size - 0)
      BY <2>1, <2>2, <2>3, <2>7
    <3> QED
      BY <2>1, <2>4, <2>5, <3>1, <3>2
  <2>8. CASE Far(p) # tick /\ Near(p) # tick
    <3>1. i[p] = j[p]
      BY <2>1, <2>2, <2>8
    <3>2. net[p] = 0
      BY <2>1, <2>3, <2>8
    <3>3. sign * 0 = 0
      BY <2>4
    <3> QED
      BY <2>5, <3>1, <3>2, <3>3
  <2> QED
    BY <2>6, <2>7, <2>8
<1>7. NetAt(state, tick) = -1 * SumFunctionOnSet(net, P)
  <2>1. NetAt(state, tick) = state.upward * SumFunctionOnSet(net, P)
    BY DEF NetAt
  <2> HIDE DEF net, P
  <2>2. SumFunctionOnSet(net, P) \in Int
    BY <1>1, <1>6, SumElements
  <2> QED
    BY <2>1, <2>2
<1>8. SizeOf(state, I) = SumFunctionOnSet(i, P) /\ SizeOf(state, J) = SumFunctionOnSet(j, P)
  <2>1. SizeOf(state, I) = SumFunctionOnSet(size, I) /\ SizeOf(state, J) = SumFunctionOnSet(size, J)
    BY DEF SizeOf
  <2>2. /\ i = [p \in P |-> IF p \in I THEN size[p] ELSE 0]
        /\ j = [p \in P |-> IF p \in J THEN size[p] ELSE 0]
    OBVIOUS
  <2> HIDE DEF I, J, P, size, i, j
  <2> QED
    BY <1>1, <1>2, <2>1, <2>2, SumOfSome
<1>9. sign \in Int
  OBVIOUS
<1> HIDE DEF P, I, J, size, i, j, net, sign
<1>10. SumFunctionOnSet(j, P) = SumFunctionOnSet(i, P) + sign * SumFunctionOnSet(net, P)
  BY <1>1, <1>6, <1>9, SumLinear
<1>11. SumFunctionOnSet(i, P) \in Int /\ SumFunctionOnSet(net, P) \in Int
  BY <1>1, <1>6, SumElements
<1> QED
  BY <1>4, <1>7, <1>8, <1>10, <1>11 DEF I, J, sign

\* Up to the nearest tick ahead, the way goes through the positions the walk is inside of.
LEMMA WayIs ==
  ASSUME NEW state, ValidPool(state), NEW A \in SUBSET InitializedTicks(state), Parted(state, A),
         NEW tick \in A, \A u \in A : Onward(tick, u),
         NEW s \in MIN_SQRT_PRICE .. MAX_SQRT_PRICE, NEW n \in MIN_SQRT_PRICE .. MAX_SQRT_PRICE,
         \A t \in InitializedTicks(state) \ A : Onward(TickPrice[t], s),
         Onward(s, n), Onward(n, TickPrice[tick]),
         NEW L, L = SizeOf(state, InsideOf(state, A))
  PROVE  /\ ExactA(state, n, s) = L * R * Distance(Multiple \div n, Multiple \div s)
         /\ ExactB(state, n, s) = L * Distance(n, s)
<1> DEFINE I == InsideOf(state, A)
<1>1. /\ InitializedTicks(state) \subseteq Tick /\ MIN_SQRT_PRICE \in Nat /\ MAX_SQRT_PRICE \in Nat
      /\ s \in Int /\ n \in Int
  BY PoolIs, CetusAssumption
<1>2. ASSUME NEW p \in state.positions
      PROVE  /\ p \in I => Within(n, p) = n /\ Within(s, p) = s
             /\ p \notin I => Within(n, p) = Within(s, p)
  <2>1. p \in I <=> Far(p) \in A /\ Near(p) \notin A
    BY DEF InsideOf
  <2>2. /\ p.lo \in InitializedTicks(state) /\ p.hi \in InitializedTicks(state)
        /\ p.lo \in Tick /\ p.hi \in Tick /\ tick \in Tick
        /\ TickPrice[p.lo] \in Int /\ TickPrice[p.hi] \in Int /\ TickPrice[tick] \in Int
        /\ TickPrice[p.lo] < TickPrice[p.hi]
    BY <1>1, EndsAre, PositionIs, PriceOfTick
  <2>3. CASE a2b
    <3>1. Far(p) = p.lo /\ Near(p) = p.hi
      BY <2>3 DEF Far, Near
    <3>2. n <= s /\ TickPrice[tick] <= n
      BY <2>3 DEF Onward
    <3>3. /\ p.lo \in A => TickPrice[p.lo] <= n
          /\ p.hi \in A => TickPrice[p.hi] <= n
          /\ p.lo \notin A => s <= TickPrice[p.lo]
          /\ p.hi \notin A => s <= TickPrice[p.hi]
      <4>1. \A t \in A \cap Tick : t <= tick
        BY <2>3 DEF Onward
      <4>2. \A t \in A \cap Tick : TickPrice[t] <= TickPrice[tick] /\ TickPrice[t] \in Int
        BY <1>1, <2>2, <4>1, PriceOfTick
      <4>3. \A t \in InitializedTicks(state) \ A : s <= TickPrice[t]
        BY <2>3 DEF Onward
      <4> QED
        BY <1>1, <2>2, <3>2, <4>2, <4>3
    <3> QED
      BY <1>1, <2>1, <2>2, <3>1, <3>2, <3>3 DEF Within
  <2>4. CASE ~a2b
    <3>1. Far(p) = p.hi /\ Near(p) = p.lo
      BY <2>4 DEF Far, Near
    <3>2. s <= n /\ n <= TickPrice[tick]
      BY <2>4 DEF Onward
    <3>3. /\ p.lo \in A => n <= TickPrice[p.lo]
          /\ p.hi \in A => n <= TickPrice[p.hi]
          /\ p.lo \notin A => TickPrice[p.lo] <= s
          /\ p.hi \notin A => TickPrice[p.hi] <= s
      <4>1. \A t \in A \cap Tick : tick <= t
        BY <2>4 DEF Onward
      <4>2. \A t \in A \cap Tick : TickPrice[tick] <= TickPrice[t] /\ TickPrice[t] \in Int
        BY <1>1, <2>2, <4>1, PriceOfTick
      <4>3. \A t \in InitializedTicks(state) \ A : TickPrice[t] <= s
        BY <2>4 DEF Onward
      <4> QED
        BY <1>1, <2>2, <3>2, <4>2, <4>3
    <3> QED
      BY <1>1, <2>1, <2>2, <3>1, <3>2, <3>3 DEF Within
  <2> QED
    BY <2>3, <2>4
<1>3. I \in SUBSET state.positions
  BY DEF InsideOf
<1>4. L = SumFunctionOnSet([p \in state.positions |-> p.size], I)
  BY DEF SizeOf
<1>5. /\ \A p \in I : Within(n, p) = n /\ Within(s, p) = s
      /\ \A p \in state.positions \ I : Within(n, p) = Within(s, p)
  BY <1>2, <1>3
<1> HIDE DEF I
<1> QED
  BY <1>3, <1>4, <1>5, AlongIs

\* A price that stays takes and pays nothing.
LEMMA StillIs ==
  ASSUME NEW state, ValidPool(state), NEW s \in MIN_SQRT_PRICE .. MAX_SQRT_PRICE
  PROVE  ExactA(state, s, s) = 0 /\ ExactB(state, s, s) = 0
<1> DEFINE I == {}
           L == SumFunctionOnSet([p \in state.positions |-> p.size], I)
<1>1. L = 0
  BY SumEmpty
<1>2. I \in SUBSET state.positions /\ L = SumFunctionOnSet([p \in state.positions |-> p.size], I)
  OBVIOUS
<1>3. /\ \A p \in I : Within(s, p) = s /\ Within(s, p) = s
      /\ \A p \in state.positions \ I : Within(s, p) = Within(s, p)
  OBVIOUS
<1> HIDE DEF L, I
<1>4. /\ ExactA(state, s, s) = L * R * Distance(Multiple \div s, Multiple \div s)
      /\ ExactB(state, s, s) = L * Distance(s, s)
  BY <1>2, <1>3, AlongIs
<1>5. Distance(Multiple \div s, Multiple \div s) \in Nat /\ Distance(s, s) \in Nat /\ R \in Nat
  BY ShareApart, DistanceIs, CetusAssumption
<1> QED
  BY <1>1, <1>4, <1>5

\* Traded, of any price and amounts.
TradedBy(state, s, in, out, k) ==
  LET a == ExactA(state, s, state.sqrt_price)
      b == ExactB(state, s, state.sqrt_price)
      output == IF a2b THEN b ELSE a
      unit   == IF a2b THEN R ELSE Multiple
  IN /\ IF a2b THEN a <= in * Multiple ELSE b <= in * R
     /\ out * unit <= output /\ output <= (out + k) * unit

\* What a step takes and pays, as the positions count it.
Pays(state, s, n, in, out) ==
  LET a == ExactA(state, n, s)
      b == ExactB(state, n, s)
      output == IF a2b THEN b ELSE a
      unit   == IF a2b THEN R ELSE Multiple
  IN /\ IF a2b THEN a <= in * Multiple ELSE b <= in * R
     /\ out * unit <= output /\ output <= (out + 1) * unit

\* It adds up along the way.
LEMMA TradedOn ==
  ASSUME NEW state, ValidPool(state),
         NEW s \in MIN_SQRT_PRICE .. MAX_SQRT_PRICE, NEW n \in MIN_SQRT_PRICE .. MAX_SQRT_PRICE,
         Onward(state.sqrt_price, s), Onward(s, n),
         NEW in \in Nat, NEW out \in Nat, NEW k \in Nat, NEW more_in \in Nat, NEW more_out \in Nat,
         TradedBy(state, s, in, out, k), Pays(state, s, n, more_in, more_out)
  PROVE  TradedBy(state, n, in + more_in, out + more_out, k + 1)
<1> DEFINE t == state.sqrt_price
           a == ExactA(state, s, t)
           b == ExactB(state, s, t)
           c == ExactA(state, n, s)
           d == ExactB(state, n, s)
           m == Multiple
<1>1. t \in MIN_SQRT_PRICE .. MAX_SQRT_PRICE /\ m \in Nat /\ R \in Nat
  BY PoolIs, ShareIs, CetusAssumption
<1>2. Between(n, s, t)
  BY DEF Onward, Between
<1>3. /\ ExactA(state, n, t) = a + c /\ ExactB(state, n, t) = b + d
      /\ a \in Nat /\ b \in Nat /\ c \in Nat /\ d \in Nat
  BY <1>1, <1>2, Farther
<1>4. ASSUME NEW unit \in Nat
      PROVE  /\ (in + more_in) * unit = in * unit + more_in * unit
             /\ (out + more_out) * unit = out * unit + more_out * unit
             /\ (out + more_out + (k + 1)) * unit = (out + k) * unit + (more_out + 1) * unit
             /\ {in * unit, more_in * unit, out * unit, more_out * unit, (out + k) * unit, (more_out + 1) * unit}
                  \subseteq Nat
  BY <1>4
<1>5. CASE a2b
  <2>1. a <= in * m /\ out * R <= b /\ b <= (out + k) * R
    BY <1>5 DEF TradedBy
  <2>2. c <= more_in * m /\ more_out * R <= d /\ d <= (more_out + 1) * R
    BY <1>5 DEF Pays
  <2> HIDE DEF a, b, c, d, m
  <2>3. a + c <= (in + more_in) * m
    BY <1>1, <1>3, <1>4, <2>1, <2>2
  <2>4. (out + more_out) * R <= b + d
    BY <1>1, <1>3, <1>4, <2>1, <2>2
  <2>5. b + d <= (out + more_out + (k + 1)) * R
    BY <1>1, <1>3, <1>4, <2>1, <2>2
  <2> QED
    BY <1>3, <1>5, <2>3, <2>4, <2>5 DEF TradedBy, m
<1>6. CASE ~a2b
  <2>1. b <= in * R /\ out * m <= a /\ a <= (out + k) * m
    BY <1>6 DEF TradedBy
  <2>2. d <= more_in * R /\ more_out * m <= c /\ c <= (more_out + 1) * m
    BY <1>6 DEF Pays
  <2> HIDE DEF a, b, c, d, m
  <2>3. b + d <= (in + more_in) * R
    BY <1>1, <1>3, <1>4, <2>1, <2>2
  <2>4. (out + more_out) * m <= a + c
    BY <1>1, <1>3, <1>4, <2>1, <2>2
  <2>5. a + c <= (out + more_out + (k + 1)) * m
    BY <1>1, <1>3, <1>4, <2>1, <2>2
  <2> QED
    BY <1>3, <1>6, <2>3, <2>4, <2>5 DEF TradedBy, m
<1> QED
  BY <1>5, <1>6

\* A step's way is that of the liquidity it went with.
LEMMA PaysFor ==
  ASSUME NEW state, ValidPool(state),
         NEW s \in MIN_SQRT_PRICE .. MAX_SQRT_PRICE, NEW n \in MIN_SQRT_PRICE .. MAX_SQRT_PRICE,
         Onward(s, n), NEW L \in Nat, NEW in \in Nat, NEW out \in Nat,
         a2b => PaysDown(s, n, L, in, out), ~a2b => PaysUp(s, n, L, in, out),
         n = s \/ /\ ExactA(state, n, s) = L * R * Distance(Multiple \div n, Multiple \div s)
                  /\ ExactB(state, n, s) = L * Distance(n, s)
  PROVE  Pays(state, s, n, in, out)
<1>1. /\ ExactA(state, n, s) = L * R * Distance(Multiple \div n, Multiple \div s)
      /\ ExactB(state, n, s) = L * Distance(n, s)
  <2>1. CASE n = s
    <3>1. ExactA(state, n, s) = 0 /\ ExactB(state, n, s) = 0
      BY <2>1, StillIs
    <3>2. s \in Int /\ Multiple \div s \in Int /\ R \in Nat
      BY ShareIs, DistanceIs, CetusAssumption
    <3>3. Distance(Multiple \div s, Multiple \div s) = 0 /\ Distance(s, s) = 0
      BY <3>2 DEF Distance
    <3> QED
      BY <2>1, <3>1, <3>2, <3>3
  <2> QED
    BY <2>1
<1>2. CASE a2b
  <2>1. n <= s /\ PaysDown(s, n, L, in, out)
    BY <1>2 DEF Onward
  <2>2. /\ L * R * Distance(Multiple \div n, Multiple \div s) <= in * Multiple
        /\ out * R <= L * Distance(n, s) /\ L * Distance(n, s) <= (out + 1) * R
    BY <2>1, PaidDown
  <2> QED
    BY <1>1, <1>2, <2>2 DEF Pays
<1>3. CASE ~a2b
  <2>1. s <= n /\ PaysUp(s, n, L, in, out)
    BY <1>3 DEF Onward
  <2>2. /\ L * Distance(n, s) <= in * R
        /\ out * Multiple <= L * R * Distance(Multiple \div n, Multiple \div s)
        /\ L * R * Distance(Multiple \div n, Multiple \div s) <= (out + 1) * Multiple
    BY <2>1, PaidUp
  <2> QED
    BY <1>1, <1>3, <2>2 DEF Pays
<1> QED
  BY <1>2, <1>3
==============================================================================
