---------------------------- MODULE DataTheorems ----------------------------
(***************************************************************************)
(* Facts about the operators the models are built from: the extrema        *)
(* of a set of numbers, a set put in order, sequences put end to end, and  *)
(* functions restricted to a set.  Induction is by least counterexample    *)
(* (NatMin), because a counterexample is a set and needs no operator.      *)
(***************************************************************************)
EXTENDS Integers, FiniteSets, Sequences, SequencesExt, FiniteSetTheorems,
        SequenceTheorems, WellFoundedInduction, TLAPS

\* A set of naturals that is not empty has a least element.
LEMMA NatMin ==
  ASSUME NEW T, T \subseteq Nat, T # {}
  PROVE  \E m \in T : \A n \in T : m <= n
<1>1. PICK m \in T : \A n \in T : <<n, m>> \notin OpToRel(<, Nat)
  BY NatLessThanWellFounded, WFMin
<1>2. \A n \in T : ~(n < m)
  BY <1>1 DEF OpToRel
<1>3. QED BY <1>2

\* Min of a set of naturals is its least element.
LEMMA MinOfNats ==
  ASSUME NEW S, S \subseteq Nat, S # {}
  PROVE  Min(S) \in S /\ \A x \in S : Min(S) <= x
BY NatMin DEF Min

\* Max of a bounded set of naturals is its greatest element.
LEMMA MaxOfNats ==
  ASSUME NEW S, S \subseteq Nat, S # {}, NEW B \in Nat, \A x \in S : x <= B
  PROVE  Max(S) \in S /\ \A x \in S : x <= Max(S)
<1> DEFINE U == {b \in Nat : \A x \in S : x <= b}
<1>1. PICK u \in U : \A b \in U : u <= b
  <2>1. U \subseteq Nat /\ B \in U
    OBVIOUS
  <2>2. QED BY <2>1, NatMin
<1>2. u \in S
  <2>1. SUFFICES ASSUME u \notin S PROVE FALSE
    OBVIOUS
  <2>2. PICK x \in S : TRUE
    OBVIOUS
  <2>3. u \in Nat /\ x \in Nat /\ x < u
    BY <2>1, <2>2
  <2>4. u - 1 \in U
    BY <2>1, <2>3
  <2>5. QED BY <1>1, <2>3, <2>4
<1>3. u \in S /\ \A y \in S : u >= y
  BY <1>2
<1> HIDE DEF U
<1>4. QED BY <1>3 DEF Max

\* A finite set of naturals is bounded.
LEMMA FiniteBounded ==
  ASSUME NEW S, S \subseteq Nat, IsFiniteSet(S)
  PROVE  \E B \in Nat : \A x \in S : x <= B
<1> DEFINE T == {n \in Nat : \E X \in SUBSET Nat : IsFiniteSet(X) /\ Cardinality(X) = n
                               /\ \A B \in Nat : \E x \in X : ~(x <= B)}
<1>1. ASSUME T # {} PROVE FALSE
  <2>1. PICK n \in T : \A m \in T : n <= m
    BY <1>1, NatMin
  <2>2. PICK X \in SUBSET Nat : /\ IsFiniteSet(X) /\ Cardinality(X) = n
                                /\ \A B \in Nat : \E x \in X : ~(x <= B)
    BY <2>1
  <2>3. PICK x \in X : TRUE
    BY <2>2
  <2>4. IsFiniteSet(X \ {x}) /\ Cardinality(X \ {x}) = n - 1 /\ n - 1 \in Nat
    <3>1. IsFiniteSet(X \ {x}) /\ Cardinality(X \ {x}) = Cardinality(X) - 1
      BY <2>2, <2>3, FS_RemoveElement
    <3>2. Cardinality(X \ {x}) \in Nat
      BY <3>1, FS_CardinalityType
    <3>3. QED BY <2>2, <3>1, <3>2
  <2>5. PICK B \in Nat : \A y \in X \ {x} : y <= B
    BY <2>1, <2>2, <2>4
  <2>6. B + x \in Nat /\ \A y \in X : y <= B + x
    BY <2>2, <2>3, <2>5
  <2>7. QED BY <2>2, <2>6
<1>2. Cardinality(S) \in Nat
  BY FS_CardinalityType
<1>3. QED BY <1>1, <1>2

-----------------------------------------------------------------------------
(* Recursion and induction up to a bound, finite sets and orders.            *)

\* A set of numbers that holds 0 and every successor up to N.
LEMMA UpTo ==
  ASSUME NEW N \in Nat, NEW Q, 0 \in Q, \A n \in 1 .. N : n - 1 \in Q => n \in Q
  PROVE  \A n \in 0 .. N : n \in Q
<1> DEFINE T == {n \in 0 .. N : n \notin Q}
<1>1. ASSUME T # {} PROVE FALSE
  <2>1. T \subseteq Nat
    OBVIOUS
  <2>2. PICK n \in T : \A m \in T : n <= m
    <3> HIDE DEF T
    <3> QED BY <1>1, <2>1, NatMin
  <2>3. n \in 1 .. N /\ n - 1 \in 0 .. N /\ ~(n <= n - 1)
    BY <2>2
  <2>4. n - 1 \notin T
    <3> HIDE DEF T
    <3> QED BY <2>2, <2>3
  <2>5. QED BY <2>3, <2>4
<1>2. QED BY <1>1

\* A function on 0 .. N whose value at n is a function G[n] of its value at
\* n - 1 exists.
LEMMA Recursion ==
  ASSUME NEW X, NEW x0 \in X, NEW N \in Nat, NEW G \in [1 .. N -> [X -> X]]
  PROVE  \E f \in [0 .. N -> X] : \A n \in 0 .. N : f[n] = IF n = 0 THEN x0 ELSE G[n][f[n - 1]]
<1> DEFINE Is(f, k) == /\ f \in [0 .. k -> X]
                       /\ \A n \in 0 .. k : f[n] = IF n = 0 THEN x0 ELSE G[n][f[n - 1]]
           Q == {k \in 0 .. N : \E f : Is(f, k)}
<1>1. Is([n \in 0 .. 0 |-> x0], 0)
  OBVIOUS
<1>2. ASSUME NEW k \in 1 .. N, k - 1 \in Q PROVE k \in Q
  <2>1. PICK f : Is(f, k - 1)
    BY <1>2
  <2> DEFINE g == [n \in 0 .. k |-> IF n = k THEN G[k][f[k - 1]] ELSE f[n]]
  <2>2. g \in [0 .. k -> X]
    BY <2>1
  <2>3. ASSUME NEW n \in 0 .. k PROVE g[n] = IF n = 0 THEN x0 ELSE G[n][g[n - 1]]
    <3>1. CASE n = k
      BY <3>1
    <3>2. CASE n # k
      <4>1. n \in 0 .. k - 1 /\ (n # 0 => n - 1 \in 0 .. k /\ n - 1 # k)
        BY <3>2
      <4>2. g[n] = f[n] /\ (n # 0 => g[n - 1] = f[n - 1])
        BY <4>1, <3>2
      <4>3. f[n] = IF n = 0 THEN x0 ELSE G[n][f[n - 1]]
        BY <2>1, <4>1
      <4>4. QED BY <4>2, <4>3
    <3>3. QED BY <3>1, <3>2
  <2>4. Is(g, k)
    BY <2>2, <2>3
  <2> HIDE DEF Is, g
  <2>5. QED BY <2>4
<1>3. 0 \in Q
  <2> HIDE DEF Is
  <2> QED BY <1>1
<1>4. N \in Q
  <2> HIDE DEF Q
  <2>1. \A n \in 0 .. N : n \in Q
    BY <1>2, <1>3, UpTo
  <2>2. QED BY <2>1
<1>5. QED BY <1>4

\* The same, with its hypothesis and its conclusion named: a run of N steps
\* from x0, each of which stays in X.
Steps(G, N, X) == G \in [1 .. N -> [X -> X]]

RunOf(f, G, N, X, x0) ==
  f \in [0 .. N -> X] /\ \A n \in 0 .. N : f[n] = IF n = 0 THEN x0 ELSE G[n][f[n - 1]]

\* A run of N steps from x0 exists when every step has a result.
LEMMA RunExists ==
  ASSUME NEW X, NEW x0 \in X, NEW N \in Nat, NEW G, Steps(G, N, X)
  PROVE  \E f : RunOf(f, G, N, X, x0)
<1>1. G \in [1 .. N -> [X -> X]]
  BY DEF Steps
<1>2. \E f \in [0 .. N -> X] : \A n \in 0 .. N : f[n] = IF n = 0 THEN x0 ELSE G[n][f[n - 1]]
  BY <1>1, Recursion
<1>3. QED BY <1>2 DEF RunOf

\* The image of a finite set under a function is finite.
LEMMA ImageFinite ==
  ASSUME NEW S, IsFiniteSet(S), NEW f, DOMAIN f = S
  PROVE  IsFiniteSet({f[x] : x \in S})
<1> DEFINE T == {f[x] : x \in S}
           g == [x \in S |-> f[x]]
<1>1. g \in Surjection(S, T)
  BY DEF Surjection
<1> HIDE DEF T, g
<1>2. IsFiniteSet(T)
  BY <1>1, FS_Surjection
<1>3. QED BY <1>2 DEF T

\* A strict order on a finite set that is not empty has a minimal element.
LEMMA MinimalElement ==
  ASSUME NEW S, IsFiniteSet(S), S # {}, NEW R,
         \A x \in S : <<x, x>> \notin R,
         \A x, y, z \in S : <<x, y>> \in R /\ <<y, z>> \in R => <<x, z>> \in R
  PROVE  \E x \in S : \A y \in S : <<y, x>> \notin R
<1> DEFINE P(x) == {y \in S : <<y, x>> \in R}
           T == {n \in Nat : \E x \in S : Cardinality(P(x)) = n}
<1>1. ASSUME NEW x \in S
      PROVE  P(x) \in SUBSET S /\ IsFiniteSet(P(x)) /\ Cardinality(P(x)) \in Nat
  <2>1. P(x) \in SUBSET S
    OBVIOUS
  <2> HIDE DEF P
  <2>2. IsFiniteSet(P(x))
    BY <2>1, FS_Subset
  <2>3. QED BY <2>1, <2>2, FS_CardinalityType
<1>2. T # {} /\ T \subseteq Nat
  <2> HIDE DEF P
  <2>1. PICK x \in S : TRUE
    OBVIOUS
  <2>2. Cardinality(P(x)) \in T
    BY <1>1
  <2>3. T \subseteq Nat
    OBVIOUS
  <2> HIDE DEF T
  <2>4. QED BY <2>2, <2>3
<1>3. PICK n \in T : \A m \in T : n <= m
  <2> HIDE DEF T
  <2> QED BY <1>2, NatMin
<1>4. PICK x \in S : Cardinality(P(x)) = n
  BY <1>3
<1>5. ASSUME NEW y \in S, <<y, x>> \in R PROVE FALSE
  <2>1. P(y) \in SUBSET P(x) /\ y \in P(x) /\ y \notin P(y)
    <3>1. \A z \in P(y) : z \in P(x)
      BY <1>5
    <3>2. y \in P(x) /\ y \notin P(y)
      BY <1>5
    <3> HIDE DEF P
    <3>3. QED BY <3>1, <3>2
  <2> HIDE DEF P
  <2>2. Cardinality(P(y)) < Cardinality(P(x))
    <3>1. Cardinality(P(y)) <= Cardinality(P(x)) /\ Cardinality(P(y)) # Cardinality(P(x))
      BY <1>1, <2>1, FS_Subset
    <3>2. QED BY <1>1, <3>1
  <2>3. Cardinality(P(y)) \in T
    BY <1>1
  <2> HIDE DEF T
  <2>4. QED BY <1>1, <1>3, <1>4, <2>2, <2>3
<1>6. QED BY <1>5

\* F picks an element of every set of elements of S, and r is what is left of S
\* after n elements were taken out by F.
PicksFrom(F, S) == \A T \in SUBSET S : T # {} => F[T] \in T

TakesOut(r, S, F) ==
  \A n \in 0 .. Cardinality(S) : r[n] = IF n = 0 THEN S ELSE r[n - 1] \ {F[r[n - 1]]}

\* Taking one element after the other out of a finite set meets every element.
LEMMA TakenOneByOne ==
  ASSUME NEW S, IsFiniteSet(S), NEW F, PicksFrom(F, S), NEW r, TakesOut(r, S, F)
  PROVE  /\ \A i \in 1 .. Cardinality(S) : F[r[i - 1]] \in S /\ r[i - 1] \in SUBSET S /\ r[i - 1] # {}
         /\ \A x \in S : \E i \in 1 .. Cardinality(S) : F[r[i - 1]] = x
<1> DEFINE N == Cardinality(S)
           Met(n) == \A x \in S : x \notin r[n] => \E i \in 1 .. n : F[r[i - 1]] = x
           Q == {n \in 0 .. N : /\ r[n] \in SUBSET S /\ IsFiniteSet(r[n]) /\ Cardinality(r[n]) = N - n
                                /\ Met(n)}
<1>1. N \in Nat
  BY FS_CardinalityType
<1>2. /\ r[0] = S
      /\ \A n \in 1 .. N : r[n] = r[n - 1] \ {F[r[n - 1]]}
  <2>1. \A n \in 0 .. N : r[n] = IF n = 0 THEN S ELSE r[n - 1] \ {F[r[n - 1]]}
    BY DEF TakesOut
  <2> HIDE DEF N
  <2>2. 0 \in 0 .. N /\ \A n \in 1 .. N : n \in 0 .. N /\ n # 0
    BY <1>1
  <2>3. QED BY <2>1, <2>2
<1>3. 0 \in Q
  <2>1. r[0] = S
    BY <1>2
  <2>2. QED BY <1>1, <2>1
<1>4. ASSUME NEW n \in 1 .. N, n - 1 \in Q PROVE n \in Q
  <2> DEFINE T == r[n - 1]
  <2>1. /\ T \in SUBSET S /\ IsFiniteSet(T) /\ Cardinality(T) = N - (n - 1)
        /\ Met(n - 1)
    BY <1>4
  <2>2. r[n] = T \ {F[T]} /\ n \in 0 .. N
    <3> HIDE DEF N
    <3> QED BY <1>1, <1>2
  <2>3. T # {} /\ F[T] \in T
    BY <1>1, <2>1, FS_EmptySet DEF PicksFrom
  <2>4. IsFiniteSet(T \ {F[T]}) /\ Cardinality(T \ {F[T]}) = Cardinality(T) - 1
    <3> HIDE DEF T
    <3> QED BY <2>1, <2>3, FS_RemoveElement
  <2>5. Cardinality(r[n]) = N - n
    <3> HIDE DEF T
    <3> QED BY <1>1, <2>1, <2>2, <2>4
  <2>6. ASSUME NEW x \in S, x \notin r[n] PROVE \E i \in 1 .. n : F[r[i - 1]] = x
    <3>1. CASE x \in T
      <4>1. F[r[n - 1]] = x
        BY <2>2, <2>6, <3>1
      <4>2. QED BY <4>1
    <3>2. CASE x \notin T
      <4>1. PICK i \in 1 .. n - 1 : F[r[i - 1]] = x
        BY <2>1, <3>2
      <4>2. QED BY <4>1
    <3>3. QED BY <3>1, <3>2
  <2>7. QED BY <2>1, <2>2, <2>4, <2>5, <2>6
<1>5. \A n \in 0 .. N : n \in Q
  <2> HIDE DEF Q, N
  <2> QED BY <1>1, <1>3, <1>4, UpTo
<1>6. ASSUME NEW i \in 1 .. N
      PROVE  F[r[i - 1]] \in S /\ r[i - 1] \in SUBSET S /\ r[i - 1] # {}
  <2>1. i - 1 \in 0 .. N
    BY <1>1
  <2>2. r[i - 1] \in SUBSET S /\ Cardinality(r[i - 1]) = N - (i - 1)
    BY <1>5, <2>1
  <2>3. r[i - 1] # {}
    <3>1. N - (i - 1) # 0
      <4> HIDE DEF N
      <4> QED BY <1>1
    <3>2. QED BY <2>2, <3>1, FS_EmptySet
  <2>4. QED BY <2>2, <2>3 DEF PicksFrom
<1>7. r[N] = {}
  <2>1. N \in 0 .. N
    BY <1>1
  <2>2. IsFiniteSet(r[N]) /\ Cardinality(r[N]) = 0
    BY <1>1, <1>5, <2>1
  <2>3. QED BY <2>2, FS_EmptySet
<1>8. Met(N)
  BY <1>1, <1>5
<1>9. QED BY <1>6, <1>7, <1>8

-----------------------------------------------------------------------------
(* FlattenSeq.                                                               *)

\* The function FlattenSeq defines by recursion exists.
LEMMA FlattenExists ==
  ASSUME NEW seqs, NEW N \in Nat
  PROVE  \E f : f = [i \in 1 .. N |-> IF i = 1 THEN seqs[i] ELSE f[i - 1] \o seqs[i]]
<1> DEFINE Is(f, n) == f = [i \in 1 .. n |-> IF i = 1 THEN seqs[i] ELSE f[i - 1] \o seqs[i]]
           T == {n \in Nat : ~ \E f : Is(f, n)}
<1>1. ASSUME T # {} PROVE FALSE
  <2>1. PICK n \in T : \A m \in T : n <= m
    BY <1>1, NatMin
  <2>2. Is([i \in 1 .. 0 |-> 0], 0)
    OBVIOUS
  <2>3. n # 0
    BY <2>1, <2>2
  <2>4. PICK f : Is(f, n - 1)
    <3> HIDE DEF Is
    <3>1. n \in Nat /\ n - 1 \in Nat /\ ~(n <= n - 1)
      BY <2>3
    <3>2. n - 1 \notin T
      <4> HIDE DEF T
      <4> QED BY <2>1, <3>1
    <3>3. QED BY <3>1, <3>2
  <2> DEFINE g == [i \in 1 .. n |-> IF i = n THEN IF n = 1 THEN seqs[1] ELSE f[n - 1] \o seqs[n]
                                    ELSE f[i]]
  <2>5. ASSUME NEW i \in 1 .. n
        PROVE  g[i] = IF i = 1 THEN seqs[i] ELSE g[i - 1] \o seqs[i]
    <3>1. CASE i = n
      BY <2>1, <2>3, <3>1
    <3>2. CASE i # n
      <4>1. i \in 1 .. n - 1
        BY <2>1, <2>3, <3>2
      <4>2. f[i] = IF i = 1 THEN seqs[i] ELSE f[i - 1] \o seqs[i]
        BY <2>4, <4>1
      <4>3. g[i] = f[i] /\ (i # 1 => g[i - 1] = f[i - 1])
        BY <2>1, <3>2, <4>1
      <4>4. QED BY <4>2, <4>3
    <3>3. QED BY <3>1, <3>2
  <2>6. Is(g, n)
    BY <2>5
  <2>7. QED BY <2>1, <2>6
<1>2. QED BY <1>1

\* FlattenSeq of sequences over S is a sequence over S that holds their elements
\* and no others, and is not empty if one of them is not.
LEMMA FlattenType ==
  ASSUME NEW S, NEW seqs \in Seq(Seq(S))
  PROVE  /\ FlattenSeq(seqs) \in Seq(S)
         /\ \A j \in 1 .. Len(seqs) : \A k \in 1 .. Len(seqs[j]) :
              \E i \in 1 .. Len(FlattenSeq(seqs)) : FlattenSeq(seqs)[i] = seqs[j][k]
<1> DEFINE N == Len(seqs)
           flatten == CHOOSE f : f = [i \in 1 .. N |-> IF i = 1 THEN seqs[i] ELSE f[i - 1] \o seqs[i]]
<1>1. N \in Nat /\ \A i \in 1 .. N : seqs[i] \in Seq(S)
  BY LenProperties, ElementOfSeq
<1>2. flatten = [i \in 1 .. N |-> IF i = 1 THEN seqs[i] ELSE flatten[i - 1] \o seqs[i]]
  BY <1>1, FlattenExists
<1>3. N = 0 => FlattenSeq(seqs) = seqs /\ seqs = <<>>
  BY EmptySeq DEF FlattenSeq
<1>4. N # 0 => FlattenSeq(seqs) = flatten[N]
  BY DEF FlattenSeq
<1> HIDE DEF flatten
<1> DEFINE Holds(n) == /\ flatten[n] \in Seq(S)
                       /\ \A j \in 1 .. n : \A k \in 1 .. Len(seqs[j]) :
                            \E i \in 1 .. Len(flatten[n]) : flatten[n][i] = seqs[j][k]
           T == {n \in 1 .. N : ~Holds(n)}
<1>5. ASSUME T # {} PROVE FALSE
  <2>1. PICK n \in T : \A m \in T : n <= m
    <3>1. T \subseteq Nat
      BY <1>1
    <3> HIDE DEF T
    <3>2. QED BY <1>5, <3>1, NatMin
  <2>2. n \in Nat /\ n \in 1 .. N
    BY <1>1
  <2>3. CASE n = 1
    <3>1. flatten[1] = seqs[1]
      BY <1>2, <2>2, <2>3
    <3>2. \A j \in 1 .. 1 : j = 1
      OBVIOUS
    <3>3. Holds(1)
      BY <1>1, <2>2, <2>3, <3>1, <3>2
    <3>4. QED BY <2>1, <2>3, <3>3
  <2>4. CASE n # 1
    <3> DEFINE a == flatten[n - 1]
               b == seqs[n]
    <3>1. flatten[n] = a \o b
      BY <1>2, <2>2, <2>4
    <3>2. n - 1 \in 1 .. N /\ n - 1 \notin T
      <4>1. n - 1 \in 1 .. N /\ ~(n <= n - 1)
        BY <1>1, <2>2, <2>4
      <4> HIDE DEF T
      <4>2. QED BY <2>1, <4>1
    <3>3. Holds(n - 1)
      <4> HIDE DEF Holds
      <4> QED BY <3>2
    <3>4. a \in Seq(S) /\ b \in Seq(S)
      BY <1>1, <2>2, <3>3
    <3> HIDE DEF a, b
    <3>5. /\ a \o b \in Seq(S) /\ Len(a \o b) = Len(a) + Len(b)
          /\ \A i \in 1 .. Len(a) + Len(b) : (a \o b)[i] = IF i <= Len(a) THEN a[i] ELSE b[i - Len(a)]
          /\ Len(a) \in Nat /\ Len(b) \in Nat
      BY <3>4, ConcatProperties, LenProperties
    <3>6. ASSUME NEW j \in 1 .. n, NEW k \in 1 .. Len(seqs[j])
          PROVE  \E i \in 1 .. Len(a \o b) : (a \o b)[i] = seqs[j][k]
      <4>1. CASE j = n
        <5>1. k \in 1 .. Len(b) /\ Len(a) + k \in 1 .. Len(a \o b)
          BY <3>5, <4>1 DEF b
        <5>2. (a \o b)[Len(a) + k] = b[k]
          BY <3>5, <5>1
        <5>3. QED BY <4>1, <5>1, <5>2 DEF b
      <4>2. CASE j # n
        <5>1. j \in 1 .. n - 1
          BY <2>2, <4>2
        <5>2. PICK i \in 1 .. Len(a) : a[i] = seqs[j][k]
          BY <3>3, <5>1 DEF a
        <5>3. i \in 1 .. Len(a \o b) /\ (a \o b)[i] = a[i]
          BY <3>5, <5>2
        <5>4. QED BY <5>2, <5>3
      <4>3. QED BY <4>1, <4>2
    <3>7. Holds(n)
      BY <3>1, <3>5, <3>6
    <3>8. QED BY <2>1, <3>7
  <2>5. QED BY <2>3, <2>4
<1>6. N # 0 => Holds(N)
  BY <1>1, <1>5
<1>7. CASE N = 0
  BY <1>3, <1>7, EmptySeq
<1>8. CASE N # 0
  BY <1>4, <1>6, <1>8
<1>9. QED BY <1>7, <1>8

\* FlattenSeq puts the last sequence behind the others.
LEMMA FlattenLast ==
  ASSUME NEW S, NEW seqs \in Seq(Seq(S)), Len(seqs) >= 1, NEW front \in Seq(Seq(S)),
         Len(front) = Len(seqs) - 1, \A i \in 1 .. Len(front) : front[i] = seqs[i]
  PROVE  FlattenSeq(seqs) = FlattenSeq(front) \o seqs[Len(seqs)]
<1>1. PICK N \in Nat, M \in Nat : N = Len(seqs) /\ M = Len(front) /\ M = N - 1 /\ N >= 1
  BY LenProperties
<1> DEFINE all == CHOOSE f : f = [i \in 1 .. N |-> IF i = 1 THEN seqs[i] ELSE f[i - 1] \o seqs[i]]
           most == CHOOSE f : f = [i \in 1 .. M |-> IF i = 1 THEN front[i] ELSE f[i - 1] \o front[i]]
<1>2. all = [i \in 1 .. N |-> IF i = 1 THEN seqs[i] ELSE all[i - 1] \o seqs[i]]
  BY <1>1, FlattenExists
<1>3. most = [i \in 1 .. M |-> IF i = 1 THEN front[i] ELSE most[i - 1] \o front[i]]
  BY <1>1, FlattenExists
<1>4. FlattenSeq(seqs) = all[N] /\ (M # 0 => FlattenSeq(front) = most[M])
  BY <1>1 DEF FlattenSeq
<1> HIDE DEF all, most
<1>5. CASE M = 0
  <2>1. front = <<>> /\ FlattenSeq(front) = <<>>
    BY <1>1, <1>5, EmptySeq DEF FlattenSeq
  <2>2. all[N] = seqs[N] /\ seqs[N] \in Seq(S)
    BY <1>1, <1>2, <1>5, ElementOfSeq
  <2>3. <<>> \o seqs[N] = seqs[N]
    BY <2>2, ConcatEmptySeq
  <2>4. QED BY <1>1, <1>4, <2>1, <2>2, <2>3
<1>6. CASE M # 0
  <2> DEFINE Q == {n \in 0 .. M : n = 0 \/ all[n] = most[n]}
  <2>1. ASSUME NEW n \in 1 .. M, n - 1 \in Q PROVE n \in Q
    <3>1. n \in 1 .. N /\ front[n] = seqs[n]
      <4>1. n \in 1 .. Len(front) /\ n \in 1 .. N
        BY <1>1
      <4>2. QED BY <4>1
    <3>2. ASSUME n = 1 PROVE all[n] = most[n]
      <4>1. all[n] = seqs[n] /\ most[n] = front[n]
        BY <1>2, <1>3, <3>1, <3>2
      <4>2. QED BY <3>1, <4>1
    <3>3. ASSUME n # 1 PROVE all[n] = most[n]
      <4>1. all[n - 1] = most[n - 1]
        BY <2>1, <3>3
      <4>2. all[n] = all[n - 1] \o seqs[n] /\ most[n] = most[n - 1] \o front[n]
        BY <1>2, <1>3, <3>1, <3>3
      <4>3. QED BY <3>1, <4>1, <4>2, Zenon
    <3>4. all[n] = most[n]
      BY <3>2, <3>3
    <3>5. QED BY <3>4
  <2>2. 0 \in Q
    OBVIOUS
  <2>3. M \in Q
    <3> HIDE DEF Q
    <3>1. \A n \in 0 .. M : n \in Q
      BY <2>1, <2>2, UpTo
    <3>2. M \in 0 .. M
      OBVIOUS
    <3>3. QED BY <3>1, <3>2
  <2>4. all[N] = all[N - 1] \o seqs[N]
    <3>1. N \in 1 .. N /\ N # 1
      BY <1>1, <1>6
    <3>2. QED BY <1>2, <3>1
  <2>5. all[M] = most[M]
    BY <1>6, <2>3
  <2>6. QED BY <1>1, <1>4, <1>6, <2>4, <2>5
<1>7. QED BY <1>5, <1>6

-----------------------------------------------------------------------------
(* Functions.                                                                *)

\* The restriction of a function to a set.
LEMMA RestrictTo ==
  ASSUME NEW f, NEW S
  PROVE  /\ DOMAIN Restrict(f, S) = S
         /\ \A m \in S : Restrict(f, S)[m] = f[m]
BY DEF Restrict

=============================================================================
