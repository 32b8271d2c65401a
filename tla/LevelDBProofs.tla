--------------------------- MODULE LevelDBProofs ---------------------------
(***************************************************************************)
(* The database keeps its types, no pointer outlives its memtable, and no  *)
(* waiter is left without a background call that will wake it.             *)
(*                                                                         *)
(* The first part is about the choices of VersionSet: every search, order  *)
(* and sum is over finite sets of files and finds an element of them, a    *)
(* compaction takes files of its two levels only, and too many files on    *)
(* level 0 always ask for a compaction.                                    *)
(***************************************************************************)
EXTENDS LevelDB, DataTheorems

-----------------------------------------------------------------------------
(* What the operators of VersionSet return.                                  *)

IKeyType == [u : Nat, s : Nat]

FileType ==
  {f \in [num : Nat, small : IKeyType, large : IKeyType, size : Nat] : f.small.u <= f.large.u}

FileSets == {fs \in SUBSET FileType : IsFiniteSet(fs)}

VersionType == [Levels -> FileSets]

\* A compaction takes at least one file of a level that has one below it.
CompactionType ==
  {c \in [level : 0 .. NumLevels - 2, in0 : FileSets, in1 : FileSets, ver : VersionType,
          large : IKeyType, grand : FileSets] : c.in0 # {}}

RawEntry == [k : Nat, s : Nat, d : BOOLEAN]

\* The sum of the sizes of finitely many files is a number.
LEMMA TotalSizeNat ==
  ASSUME NEW fs \in FileSets
  PROVE  TotalFileSize(fs) \in Nat
<1> DEFINE size == [f \in fs |-> f.size]
           pick(s) == CHOOSE x \in s : TRUE
           sum(g, s) == IF s = {} THEN 0 ELSE size[pick(s)] + g[s \ {pick(s)}]
           iter == CHOOSE g : g = [s \in SUBSET DOMAIN size |-> sum(g, s)]
           N == Cardinality(fs)
           D(k) == {s \in SUBSET fs : Cardinality(s) <= k}
<1>1. TotalFileSize(fs) = iter[fs]
  <2>1. TotalFileSize(fs) = iter[DOMAIN size]
    BY DEF TotalFileSize, FoldFunction, FoldFunctionOnSet, MapThenFoldSet
  <2>2. DOMAIN size = fs
    OBVIOUS
  <2>3. QED BY <2>1, <2>2
<1>2. IsFiniteSet(fs) /\ N \in Nat /\ \A f \in fs : size[f] \in Nat
  BY FS_CardinalityType DEF FileSets, FileType
<1>3. DOMAIN size = fs
  OBVIOUS
<1> HIDE DEF size
<1>4. ASSUME NEW s \in SUBSET fs
      PROVE  /\ IsFiniteSet(s) /\ Cardinality(s) \in Nat /\ Cardinality(s) <= N
             /\ Cardinality(s) = 0 <=> s = {}
             /\ s # {} => /\ pick(s) \in fs /\ s \ {pick(s)} \in SUBSET fs
                          /\ Cardinality(s \ {pick(s)}) = Cardinality(s) - 1
  <2>1. IsFiniteSet(s) /\ Cardinality(s) \in Nat /\ Cardinality(s) <= N
    BY <1>2, FS_Subset, FS_CardinalityType
  <2>2. s # {} => pick(s) \in s
    OBVIOUS
  <2> HIDE DEF pick
  <2>3. s # {} => Cardinality(s \ {pick(s)}) = Cardinality(s) - 1
    BY <2>1, <2>2, FS_RemoveElement
  <2>4. Cardinality(s) = 0 <=> s = {}
    BY <2>1, FS_EmptySet
  <2>5. QED BY <2>1, <2>2, <2>3, <2>4
<1> HIDE DEF pick, N
<1> DEFINE Q == {k \in 0 .. N : \E g : \A s \in D(k) : g[s] = sum(g, s)}
<1>5. 0 \in Q
  <2>1. ASSUME NEW s \in D(0) PROVE s = {}
    <3>1. s \in SUBSET fs /\ Cardinality(s) <= 0
      OBVIOUS
    <3>2. Cardinality(s) \in Nat /\ (Cardinality(s) = 0 <=> s = {})
      BY <1>4, <3>1
    <3>3. QED BY <3>1, <3>2
  <2>2. \A s \in D(0) : [x \in SUBSET fs |-> 0][s] = sum([x \in SUBSET fs |-> 0], s)
    BY <2>1
  <2> HIDE DEF sum, D
  <2>3. 0 \in 0 .. N
    BY <1>2
  <2>4. QED BY <2>2, <2>3
<1>6. ASSUME NEW k \in 1 .. N, k - 1 \in Q PROVE k \in Q
  <2>1. PICK g : \A s \in D(k - 1) : g[s] = sum(g, s)
    BY <1>6
  <2> DEFINE h == [s \in SUBSET fs |-> sum(g, s)]
  <2>2. ASSUME NEW s \in D(k) PROVE h[s] = sum(h, s)
    <3>1. CASE s = {}
      BY <3>1
    <3>2. CASE s # {}
      <4> DEFINE t == s \ {pick(s)}
      <4>1. s \in SUBSET fs /\ Cardinality(s) <= k
        OBVIOUS
      <4>2. t \in SUBSET fs /\ Cardinality(t) = Cardinality(s) - 1 /\ Cardinality(s) \in Nat
        BY <1>4, <3>2, <4>1
      <4>3. t \in D(k - 1)
        BY <1>2, <4>1, <4>2
      <4>4. h[t] = sum(g, t) /\ g[t] = sum(g, t)
        <5> HIDE DEF sum, D
        <5> QED BY <2>1, <4>2, <4>3
      <4>5. h[s] = size[pick(s)] + g[t]
        BY <3>2, <4>1
      <4>6. sum(h, s) = size[pick(s)] + h[t]
        BY <3>2
      <4> HIDE DEF h, sum, t
      <4>7. QED BY <4>4, <4>5, <4>6
    <3>3. QED BY <3>1, <3>2
  <2> HIDE DEF sum, D, h
  <2>3. k \in 0 .. N
    BY <1>2
  <2>4. QED BY <2>2, <2>3
<1>7. \E g : g = [s \in SUBSET DOMAIN size |-> sum(g, s)]
  <2>1. N \in 0 .. N /\ \A k \in 0 .. N : k \in Q
    <3> HIDE DEF Q
    <3> QED BY <1>2, <1>5, <1>6, UpTo
  <2>2. PICK g : \A s \in D(N) : g[s] = sum(g, s)
    BY <2>1
  <2> DEFINE h == [s \in SUBSET fs |-> sum(g, s)]
  <2>3. ASSUME NEW s \in SUBSET fs PROVE h[s] = sum(h, s)
    <3>1. CASE s = {}
      BY <3>1
    <3>2. CASE s # {}
      <4> DEFINE t == s \ {pick(s)}
      <4>1. t \in SUBSET fs /\ t \in D(N)
        BY <1>4, <3>2
      <4>2. h[t] = sum(g, t) /\ g[t] = sum(g, t)
        <5> HIDE DEF sum, D
        <5> QED BY <2>2, <4>1
      <4>3. h[s] = size[pick(s)] + g[t]
        BY <3>2
      <4>4. sum(h, s) = size[pick(s)] + h[t]
        BY <3>2
      <4> HIDE DEF h, sum, t
      <4>5. QED BY <4>2, <4>3, <4>4
    <3>3. QED BY <3>1, <3>2
  <2>4. h = [s \in SUBSET DOMAIN size |-> sum(h, s)]
    <3> HIDE DEF sum
    <3>1. h = [s \in SUBSET fs |-> h[s]]
      OBVIOUS
    <3>2. QED BY <1>3, <2>3, <3>1
  <2> HIDE DEF h, sum
  <2>5. QED BY <2>4
<1>8. \A s \in SUBSET fs : iter[s] = sum(iter, s)
  <2>1. iter = [s \in SUBSET DOMAIN size |-> sum(iter, s)]
    <3> HIDE DEF sum
    <3> QED BY <1>7
  <2> HIDE DEF sum, iter
  <2>2. QED BY <1>3, <2>1
<1> HIDE DEF iter
<1> DEFINE P == {k \in 0 .. N : \A s \in D(k) : iter[s] \in Nat}
<1>9. 0 \in P
  <2>1. ASSUME NEW s \in D(0) PROVE s \in SUBSET fs /\ s = {}
    <3>1. s \in SUBSET fs /\ Cardinality(s) <= 0
      OBVIOUS
    <3>2. Cardinality(s) \in Nat /\ (Cardinality(s) = 0 <=> s = {})
      BY <1>4, <3>1
    <3>3. QED BY <3>1, <3>2
  <2>2. QED BY <1>2, <1>8, <2>1
<1>10. ASSUME NEW k \in 1 .. N, k - 1 \in P PROVE k \in P
  <2>1. ASSUME NEW s \in D(k) PROVE iter[s] \in Nat
    <3>1. s \in SUBSET fs /\ Cardinality(s) <= k /\ iter[s] = sum(iter, s)
      BY <1>8
    <3>2. CASE s = {}
      BY <3>1, <3>2
    <3>3. CASE s # {}
      <4>1. s \ {pick(s)} \in D(k - 1) /\ size[pick(s)] \in Nat
        BY <1>2, <1>4, <3>1, <3>3
      <4>2. iter[s \ {pick(s)}] \in Nat
        <5> HIDE DEF D
        <5> QED BY <1>10, <4>1
      <4>3. QED BY <3>1, <3>3, <4>1, <4>2
    <3>4. QED BY <3>2, <3>3
  <2> HIDE DEF D
  <2>2. QED BY <1>2, <2>1
<1>11. fs \in D(N) /\ N \in P
  <2>1. \A k \in 0 .. N : k \in P
    <3> HIDE DEF P
    <3> QED BY <1>2, <1>9, <1>10, UpTo
  <2>2. fs \in D(N)
    BY <1>2, <1>4
  <2> HIDE DEF P
  <2>3. QED BY <1>2, <2>1, <2>2
<1>12. QED BY <1>1, <1>11

-----------------------------------------------------------------------------
(* Orders.                                                                   *)

\* Less is a strict total order of internal keys.
LEMMA LessOrder ==
  /\ \A a \in IKeyType : ~Less(a, a)
  /\ \A a, b, c \in IKeyType : Less(a, b) /\ Less(b, c) => Less(a, c)
  /\ \A a, b \in IKeyType : ~Less(a, b) => a = b \/ Less(b, a)
BY DEF Less, IKeyType

\* A finite set of keys has a smallest and a largest one.
LEMMA ExtremeKeys ==
  ASSUME NEW ks \in SUBSET IKeyType, IsFiniteSet(ks), ks # {}
  PROVE  /\ Smallest(ks) \in ks /\ Largest(ks) \in ks
         /\ LessEq(Smallest(ks), Largest(ks))
<1> DEFINE R == {p \in ks \X ks : Less(p[1], p[2])}
           Q == {p \in ks \X ks : Less(p[2], p[1])}
<1>1. /\ \A x, y \in ks : <<x, y>> \in R <=> Less(x, y)
      /\ \A x, y \in ks : <<x, y>> \in Q <=> Less(y, x)
  OBVIOUS
<1> HIDE DEF R, Q
<1>2. \E x \in ks : \A y \in ks : <<y, x>> \notin R
  BY <1>1, LessOrder, MinimalElement
<1>3. \E x \in ks : \A y \in ks : <<y, x>> \notin Q
  BY <1>1, LessOrder, MinimalElement
<1>4. \E x \in ks : \A y \in ks : LessEq(x, y)
  BY <1>1, <1>2, LessOrder DEF LessEq
<1>5. \E x \in ks : \A y \in ks : LessEq(y, x)
  BY <1>1, <1>3, LessOrder DEF LessEq
<1>6. QED BY <1>4, <1>5 DEF Smallest, Largest

\* The metadata of a table with at least one entry.
LEMMA FileMetaType ==
  ASSUME NEW n \in Nat, NEW es \in SUBSET RawEntry, IsFiniteSet(es), es # {}
  PROVE  FileMeta(n, es) \in FileType /\ FileMeta(n, es).num = n
<1> DEFINE key == [e \in es |-> KeyOf(e)]
           ks == {KeyOf(e) : e \in es}
<1>1. ks = {key[e] : e \in es} /\ DOMAIN key = es
  OBVIOUS
<1>2. IsFiniteSet(ks)
  <2> HIDE DEF key, ks
  <2> QED BY <1>1, ImageFinite
<1>3. ks \in SUBSET IKeyType /\ ks # {}
  <2>1. \A e \in es : KeyOf(e) \in IKeyType
    BY DEF KeyOf, IKey, IKeyType, RawEntry
  <2>2. QED BY <2>1
<1>4. Smallest(ks) \in IKeyType /\ Largest(ks) \in IKeyType /\ LessEq(Smallest(ks), Largest(ks))
  <2> HIDE DEF ks
  <2> QED BY <1>2, <1>3, ExtremeKeys
<1>5. Cardinality(es) \in Nat
  BY FS_CardinalityType
<1>6. FileMeta(n, es) = [num |-> n, small |-> Smallest(ks), large |-> Largest(ks), size |-> Cardinality(es)]
  BY DEF FileMeta
<1> HIDE DEF ks
<1>7. Smallest(ks).u <= Largest(ks).u
  BY <1>4 DEF LessEq, Less, IKeyType
<1>8. QED BY <1>4, <1>5, <1>6, <1>7 DEF FileType

\* BySmallestKey is a strict order of files.
LEMMA FileOrder ==
  /\ \A f \in FileType : ~BySmallestKey(f, f)
  /\ \A f, g, h \in FileType : BySmallestKey(f, g) /\ BySmallestKey(g, h) => BySmallestKey(f, h)
<1>1. \A f \in FileType : f.small \in IKeyType /\ f.num \in Nat
  BY DEF FileType
<1>2. QED BY <1>1, LessOrder DEF BySmallestKey

\* A finite set of files has a first and a last one.
LEMMA ExtremeFiles ==
  ASSUME NEW fs \in FileSets, fs # {}
  PROVE  /\ FirstFile(fs) \in fs /\ \A g \in fs : ~BySmallestKey(g, FirstFile(fs))
         /\ (CHOOSE f \in fs : \A g \in fs : ~BySmallestKey(f, g)) \in fs
<1> DEFINE R == {p \in fs \X fs : BySmallestKey(p[1], p[2])}
           Q == {p \in fs \X fs : BySmallestKey(p[2], p[1])}
<1>1. /\ \A x, y \in fs : <<x, y>> \in R <=> BySmallestKey(x, y)
      /\ \A x, y \in fs : <<x, y>> \in Q <=> BySmallestKey(y, x)
  OBVIOUS
<1> HIDE DEF R, Q
<1>2. IsFiniteSet(fs) /\ fs \in SUBSET FileType
  BY DEF FileSets
<1>3. \E x \in fs : \A y \in fs : <<y, x>> \notin R
  BY <1>1, <1>2, FileOrder, MinimalElement
<1>4. \E x \in fs : \A y \in fs : <<y, x>> \notin Q
  BY <1>1, <1>2, FileOrder, MinimalElement
<1>5. QED BY <1>1, <1>3, <1>4 DEF FirstFile

\* Sorted lists every element of a finite set once, and none behind one that it
\* comes before, when the order is strict.
LEMMA SortedType ==
  ASSUME NEW S, IsFiniteSet(S), NEW R,
         \A x \in S : <<x, x>> \notin R,
         \A x, y, z \in S : <<x, y>> \in R /\ <<y, z>> \in R => <<x, z>> \in R
  PROVE  /\ Cardinality(S) \in Nat
         /\ Sorted(S, R) \in Seq(S) /\ Len(Sorted(S, R)) = Cardinality(S)
         /\ \A x \in S : \E i \in 1 .. Cardinality(S) : Sorted(S, R)[i] = x
         /\ S # {} => \A y \in S : <<y, Sorted(S, R)[1]>> \notin R
         /\ \A i, j \in 1 .. Cardinality(S) : i < j =>
              Sorted(S, R)[i] # Sorted(S, R)[j] /\ <<Sorted(S, R)[j], Sorted(S, R)[i]>> \notin R
<1> DEFINE first(T) == CHOOSE x \in T : \A y \in T : <<y, x>> \notin R
           N == Cardinality(S)
           Is(r) == r = [n \in 0 .. N |-> IF n = 0 THEN S ELSE r[n - 1] \ {first(r[n - 1])}]
           rest == CHOOSE r : Is(r)
           F == [T \in SUBSET S |-> first(T)]
           G == [n \in 1 .. N |-> [T \in SUBSET S |-> T \ {F[T]}]]
<1>1. Sorted(S, R) = [i \in 1 .. N |-> first(rest[i - 1])]
  BY DEF Sorted
<1>2. N \in Nat
  BY FS_CardinalityType
<1>3. ASSUME NEW T \in SUBSET S, T # {}
      PROVE  first(T) \in T /\ \A y \in T : <<y, first(T)>> \notin R
  <2>1. IsFiniteSet(T)
    BY FS_Subset
  <2>2. \E x \in T : \A y \in T : <<y, x>> \notin R
    BY <1>3, <2>1, MinimalElement
  <2>3. QED BY <2>2
<1>4. \A T \in SUBSET S : F[T] = first(T)
  OBVIOUS
<1> HIDE DEF first, F, N
<1>5. PICK r \in [0 .. N -> SUBSET S] : \A n \in 0 .. N : r[n] = IF n = 0 THEN S ELSE G[n][r[n - 1]]
  <2> DEFINE X == SUBSET S
  <2>1. S \in X /\ G \in [1 .. N -> [X -> X]]
    OBVIOUS
  <2> HIDE DEF G, X
  <2>2. \E f \in [0 .. N -> X] : \A n \in 0 .. N : f[n] = IF n = 0 THEN S ELSE G[n][f[n - 1]]
    BY <1>2, <2>1, Recursion
  <2>3. QED BY <2>2 DEF X
<1>6. Is(r)
  <2>1. ASSUME NEW n \in 0 .. N, n # 0 PROVE r[n] = r[n - 1] \ {first(r[n - 1])}
    <3>1. n \in 1 .. N /\ n - 1 \in 0 .. N
      BY <1>2, <2>1
    <3>2. r[n - 1] \in SUBSET S
      BY <1>5, <3>1
    <3>3. r[n] = r[n - 1] \ {F[r[n - 1]]}
      BY <1>5, <2>1, <3>1, <3>2
    <3>4. QED BY <1>4, <3>2, <3>3
  <2>2. \A n \in 0 .. N : r[n] = IF n = 0 THEN S ELSE r[n - 1] \ {first(r[n - 1])}
    BY <1>5, <2>1
  <2>3. r = [n \in 0 .. N |-> r[n]]
    BY <1>5
  <2>4. QED BY <2>2, <2>3
<1>7. Is(rest)
  <2> HIDE DEF Is
  <2> QED BY <1>6
<1> HIDE DEF rest
<1>8. /\ rest[0] = S
      /\ \A n \in 1 .. N : rest[n] = rest[n - 1] \ {first(rest[n - 1])}
  <2>1. 0 \in 0 .. N /\ \A n \in 1 .. N : n \in 0 .. N /\ n # 0
    BY <1>2
  <2>2. QED BY <1>7, <2>1
<1> DEFINE Q == {n \in 0 .. N : rest[n] \in SUBSET S}
<1>9. \A n \in 0 .. N : rest[n] \in SUBSET S
  <2>1. 0 \in Q
    BY <1>2, <1>8
  <2>2. ASSUME NEW n \in 1 .. N, n - 1 \in Q PROVE n \in Q
    BY <1>8, <2>2
  <2>3. \A n \in 0 .. N : n \in Q
    <3> HIDE DEF Q
    <3> QED BY <1>2, <2>1, <2>2, UpTo
  <2>4. QED BY <2>3
<1>10. \A n \in 0 .. N : rest[n] = IF n = 0 THEN S ELSE rest[n - 1] \ {F[rest[n - 1]]}
  <2>1. ASSUME NEW n \in 1 .. N PROVE rest[n] = rest[n - 1] \ {F[rest[n - 1]]}
    <3>1. rest[n - 1] \in SUBSET S
      BY <1>2, <1>9
    <3>2. QED BY <1>4, <1>8, <3>1
  <2>2. \A n \in 0 .. N : n = 0 \/ n \in 1 .. N
    BY <1>2
  <2>3. QED BY <1>8, <2>1, <2>2
<1>11. /\ \A i \in 1 .. N : F[rest[i - 1]] \in S /\ rest[i - 1] \in SUBSET S /\ rest[i - 1] # {}
       /\ \A x \in S : \E i \in 1 .. N : F[rest[i - 1]] = x
  <2>1. PicksFrom(F, S) /\ TakesOut(rest, S, F)
    <3>1. \A T \in SUBSET S : T # {} => F[T] \in T
      BY <1>3, <1>4
    <3>2. TakesOut(rest, S, F)
      BY <1>10 DEF TakesOut, N
    <3>3. QED BY <3>1, <3>2 DEF PicksFrom
  <2>2. /\ \A i \in 1 .. Cardinality(S) : F[rest[i - 1]] \in S /\ rest[i - 1] \in SUBSET S /\ rest[i - 1] # {}
        /\ \A x \in S : \E i \in 1 .. Cardinality(S) : F[rest[i - 1]] = x
    BY <2>1, TakenOneByOne
  <2>3. QED BY <2>2 DEF N
<1>12. Sorted(S, R) = [i \in 1 .. N |-> F[rest[i - 1]]]
  <2>1. \A i \in 1 .. N : first(rest[i - 1]) = F[rest[i - 1]]
    BY <1>4, <1>11
  <2>2. QED BY <1>1, <2>1
<1>13. Sorted(S, R) \in Seq(S) /\ Len(Sorted(S, R)) = N
  BY <1>2, <1>11, <1>12
<1>14. ASSUME S # {} PROVE \A y \in S : <<y, Sorted(S, R)[1]>> \notin R
  <2>1. N # 0
    BY <1>14, FS_EmptySet DEF N
  <2>2. 1 \in 1 .. N
    BY <1>2, <2>1
  <2>3. Sorted(S, R)[1] = first(S)
    BY <1>1, <1>8, <2>2
  <2>4. QED BY <1>3, <1>14, <2>3
<1>15. \A x \in S : \E i \in 1 .. N : Sorted(S, R)[i] = x
  BY <1>11, <1>12
<1>16. ASSUME NEW i \in 1 .. N, NEW j \in 1 .. N, i < j
       PROVE  Sorted(S, R)[i] # Sorted(S, R)[j] /\ <<Sorted(S, R)[j], Sorted(S, R)[i]>> \notin R
  <2> DEFINE P == {n \in 0 .. N : n < i \/ rest[n] \subseteq rest[i]}
  <2>1. 0 \in P
    BY <1>2
  <2>2. ASSUME NEW n \in 1 .. N, n - 1 \in P PROVE n \in P
    <3>1. n \in 0 .. N /\ (n - 1 < i \/ rest[n - 1] \subseteq rest[i])
      BY <2>2
    <3>2. n < i \/ n = i \/ n - 1 >= i
      BY <3>1
    <3>3. n - 1 >= i => rest[n] \subseteq rest[i]
      BY <1>8, <3>1
    <3>4. QED BY <3>1, <3>2, <3>3
  <2>3. \A n \in 0 .. N : n \in P
    <3> HIDE DEF P
    <3> QED BY <1>2, <2>1, <2>2, UpTo
  <2>4. rest[j - 1] \subseteq rest[i]
    <3>1. j - 1 \in 0 .. N /\ ~(j - 1 < i)
      BY <1>2, <1>16
    <3>2. j - 1 \in P
      BY <2>3, <3>1
    <3>3. QED BY <3>1, <3>2
  <2>5. rest[i] = rest[i - 1] \ {first(rest[i - 1])}
    BY <1>8
  <2>6. first(rest[j - 1]) \in rest[j - 1]
    BY <1>3, <1>11
  <2>7. \A y \in rest[i - 1] : <<y, first(rest[i - 1])>> \notin R
    BY <1>3, <1>11
  <2>8. Sorted(S, R)[i] = first(rest[i - 1]) /\ Sorted(S, R)[j] = first(rest[j - 1])
    BY <1>1
  <2>9. QED BY <2>4, <2>5, <2>6, <2>7, <2>8
<1>17. QED BY <1>2, <1>13, <1>14, <1>15, <1>16 DEF N

\* The sets that are put in order: log numbers, files, entries, and the files a
\* read consults.
LEMMA NumbersInOrder ==
  ASSUME NEW S \in SUBSET Nat, IsFiniteSet(S)
  PROVE  /\ InOrder(S, <) \in Seq(S)
         /\ \A x \in S : \E i \in 1 .. Len(InOrder(S, <)) : InOrder(S, <)[i] = x
<1> DEFINE R == {p \in S \X S : p[1] < p[2]}
<1>1. \A x, y \in S : <<x, y>> \in R <=> x < y
  OBVIOUS
<1>2. InOrder(S, <) = Sorted(S, R)
  BY DEF InOrder, Pairs
<1> HIDE DEF R
<1>3. /\ \A x \in S : <<x, x>> \notin R
      /\ \A x, y, z \in S : <<x, y>> \in R /\ <<y, z>> \in R => <<x, z>> \in R
  BY <1>1
<1>4. /\ Sorted(S, R) \in Seq(S) /\ Len(Sorted(S, R)) = Cardinality(S)
      /\ \A x \in S : \E i \in 1 .. Cardinality(S) : Sorted(S, R)[i] = x
  BY <1>3, SortedType
<1>5. QED BY <1>2, <1>4

\* Files by their smallest keys, smallest first: each file is there
\* once.
LEMMA FilesInOrder ==
  ASSUME NEW fs \in FileSets
  PROVE  /\ InOrder(fs, BySmallestKey) \in Seq(fs)
         /\ Len(InOrder(fs, BySmallestKey)) = Cardinality(fs)
<1> DEFINE R == {p \in fs \X fs : BySmallestKey(p[1], p[2])}
<1>1. \A x, y \in fs : <<x, y>> \in R <=> BySmallestKey(x, y)
  OBVIOUS
<1>2. InOrder(fs, BySmallestKey) = Sorted(fs, R)
  BY DEF InOrder, Pairs
<1>3. IsFiniteSet(fs) /\ \A f \in fs : f \in FileType
  BY DEF FileSets
<1> HIDE DEF R
<1>4. QED BY <1>1, <1>2, <1>3, FileOrder, SortedType

\* Each entry is there once, and none is behind one with a later key.
ListedFrom(order, es) ==
  /\ \A e \in es : \E i \in 1 .. Len(order) : order[i] = e
  /\ \A i, j \in 1 .. Len(order) : i < j => order[i] # order[j] /\ ~EntryBefore(order[j], order[i])

\* Entries in the order a merging iterator yields them.
LEMMA EntriesInOrder ==
  ASSUME NEW es \in SUBSET RawEntry, IsFiniteSet(es)
  PROVE  /\ InOrder(es, EntryBefore) \in Seq(es) /\ ListedFrom(InOrder(es, EntryBefore), es)
<1> DEFINE R == {p \in es \X es : EntryBefore(p[1], p[2])}
<1>1. \A x, y \in es : <<x, y>> \in R <=> EntryBefore(x, y)
  OBVIOUS
<1>2. InOrder(es, EntryBefore) = Sorted(es, R)
  BY DEF InOrder, Pairs
<1>3. /\ \A x \in es : ~EntryBefore(x, x)
      /\ \A x, y, z \in es : EntryBefore(x, y) /\ EntryBefore(y, z) => EntryBefore(x, z)
  <2>1. \A e \in es : KeyOf(e) \in IKeyType
    BY DEF KeyOf, IKey, IKeyType, RawEntry
  <2>2. QED BY <2>1, LessOrder DEF EntryBefore
<1> HIDE DEF R
<1>4. /\ Sorted(es, R) \in Seq(es) /\ Len(Sorted(es, R)) = Cardinality(es)
      /\ \A x \in es : \E i \in 1 .. Cardinality(es) : Sorted(es, R)[i] = x
      /\ \A i, j \in 1 .. Cardinality(es) : i < j =>
           Sorted(es, R)[i] # Sorted(es, R)[j] /\ <<Sorted(es, R)[j], Sorted(es, R)[i]>> \notin R
  BY <1>1, <1>3, SortedType
<1>5. \A i \in 1 .. Len(Sorted(es, R)) : Sorted(es, R)[i] \in es
  BY <1>4, ElementOfSeq
<1>6. ListedFrom(Sorted(es, R), es)
  BY <1>1, <1>4, <1>5 DEF ListedFrom
<1>7. QED BY <1>2, <1>4, <1>6

\* The files a Get consults, in the order it reads them.
LEMMA ReadsInOrder ==
  ASSUME NEW S \in SUBSET (Levels \X FileType), IsFiniteSet(S)
  PROVE  /\ InOrder(S, ReadBefore) \in Seq(S)
         /\ Len(InOrder(S, ReadBefore)) = Cardinality(S)
         /\ S # {} => \A y \in S : ~ReadBefore(y, InOrder(S, ReadBefore)[1])
<1> DEFINE R == {p \in S \X S : ReadBefore(p[1], p[2])}
<1>1. \A x, y \in S : <<x, y>> \in R <=> ReadBefore(x, y)
  OBVIOUS
<1>2. InOrder(S, ReadBefore) = Sorted(S, R)
  BY DEF InOrder, Pairs
<1>3. /\ \A x \in S : ~ReadBefore(x, x)
      /\ \A x, y, z \in S : ReadBefore(x, y) /\ ReadBefore(y, z) => ReadBefore(x, z)
  <2>1. \A x \in S : x[1] \in Int /\ x[2].num \in Int
    BY ConfigAssumption DEF Levels, FileType
  <2>2. QED BY <2>1 DEF ReadBefore
<1> HIDE DEF R
<1>4. /\ Sorted(S, R) \in Seq(S) /\ Len(Sorted(S, R)) = Cardinality(S)
      /\ S # {} => \A y \in S : <<y, Sorted(S, R)[1]>> \notin R
      /\ Cardinality(S) \in Nat
  BY <1>1, <1>3, SortedType
<1>5. ASSUME S # {} PROVE Sorted(S, R)[1] \in S
  <2>1. 1 \in 1 .. Len(Sorted(S, R))
    BY <1>4, <1>5, FS_EmptySet
  <2>2. QED BY <1>4, <2>1, ElementOfSeq
<1>6. QED BY <1>1, <1>2, <1>4, <1>5

-----------------------------------------------------------------------------
(* Reading.                                                                  *)

\* FindFile finds files of its set, at most one.
LEMMA FindFileType ==
  ASSUME NEW fs \in FileSets, NEW ik
  PROVE  /\ FindFile(fs, ik) \subseteq fs
         /\ \A f, g \in FindFile(fs, ik) : f = g
<1> DEFINE right == {f \in fs : LessEq(ik, f.large)}
<1>1. right \in FileSets
  <2>1. right \in SUBSET fs /\ fs \in SUBSET FileType /\ IsFiniteSet(fs)
    BY DEF FileSets
  <2> HIDE DEF right
  <2>2. IsFiniteSet(right)
    BY <2>1, FS_Subset
  <2>3. QED BY <2>1, <2>2 DEF FileSets
<1>2. right # {} => FirstFile(right) \in right
  <2> HIDE DEF right
  <2> QED BY <1>1, ExtremeFiles
<1>3. FindFile(fs, ik) = IF right = {} THEN {} ELSE {FirstFile(right)}
  BY DEF FindFile
<1>4. right \subseteq fs
  OBVIOUS
<1> HIDE DEF right
<1>5. QED BY <1>2, <1>3, <1>4

\* Parts and unions of finite sets of files.
LEMMA FilesClosed ==
  /\ \A fs \in FileSets : \A gs \in SUBSET fs : gs \in FileSets
  /\ \A fs, gs \in FileSets : fs \cup gs \in FileSets
  /\ \A f \in FileType : {f} \in FileSets
  /\ {} \in FileSets
<1>1. ASSUME NEW fs \in FileSets, NEW gs \in SUBSET fs PROVE gs \in FileSets
  BY FS_Subset DEF FileSets
<1>2. ASSUME NEW fs \in FileSets, NEW gs \in FileSets PROVE fs \cup gs \in FileSets
  <2>1. IsFiniteSet(fs) /\ IsFiniteSet(gs) /\ fs \in SUBSET FileType /\ gs \in SUBSET FileType
    BY DEF FileSets
  <2>2. IsFiniteSet(fs \cup gs)
    BY <2>1, FS_Union
  <2>3. QED BY <2>1, <2>2 DEF FileSets
<1>3. ASSUME NEW f \in FileType PROVE {f} \in FileSets
  BY FS_Singleton DEF FileSets
<1>4. {} \in FileSets
  BY FS_EmptySet DEF FileSets
<1>5. QED BY <1>1, <1>2, <1>3, <1>4

\* The files of one level of a version.
LEMMA LevelFiles ==
  ASSUME NEW v \in VersionType, NEW l \in Levels
  PROVE  v[l] \in FileSets /\ IsFiniteSet(v[l]) /\ v[l] \subseteq FileType
BY DEF VersionType, FileSets

\* Version::Get consults files of the version only, at most one of them on a
\* level other than 0.
LEMMA ConsultedFiles ==
  ASSUME NEW v \in VersionType, NEW l \in Levels, NEW u, NEW s
  PROVE  /\ Consulted(v, l, u, s) \subseteq v[l]
         /\ l # 0 => \A f, g \in Consulted(v, l, u, s) : f = g
<1>1. v[l] \in FileSets
  BY LevelFiles
<1>2. CASE l = 0
  BY <1>2 DEF Consulted
<1>3. CASE l # 0
  <2>1. /\ FindFile(v[l], IKey(u, s)) \subseteq v[l]
        /\ \A f, g \in FindFile(v[l], IKey(u, s)) : f = g
    BY <1>1, FindFileType
  <2>2. Consulted(v, l, u, s) = {f \in FindFile(v[l], IKey(u, s)) : f.small.u <= u}
    BY <1>3 DEF Consulted
  <2>3. QED BY <2>1, <2>2
<1>4. QED BY <1>2, <1>3

\* A version has finitely many files.
LEMMA VersionFilesFinite ==
  ASSUME NEW v \in VersionType
  PROVE  VersionFiles(v) \in FileSets
<1>1. IsFiniteSet(Levels)
  BY ConfigAssumption, FS_Interval DEF Levels
<1>2. IsFiniteSet({v[l] : l \in Levels})
  <2>1. DOMAIN v = Levels
    BY DEF VersionType
  <2>2. QED BY <1>1, <2>1, ImageFinite
<1>3. \A S \in {v[l] : l \in Levels} : IsFiniteSet(S) /\ S \subseteq FileType
  BY LevelFiles
<1>4. IsFiniteSet(UNION {v[l] : l \in Levels})
  BY <1>2, <1>3, FS_UNION
<1>5. UNION {v[l] : l \in Levels} \subseteq FileType
  BY <1>3
<1>6. QED BY <1>4, <1>5 DEF VersionFiles, FileSets

\* The files a Get may consult are finitely many files of the version.
LEMMA AllConsultedFiles ==
  ASSUME NEW v \in VersionType, NEW u, NEW s
  PROVE  /\ AllConsulted(v, u, s) \subseteq Levels \X FileType
         /\ IsFiniteSet(AllConsulted(v, u, s))
         /\ \A x \in AllConsulted(v, u, s) : x[2] \in Consulted(v, x[1], u, s) /\ x[2] \in v[x[1]]
<1>1. ASSUME NEW x \in AllConsulted(v, u, s)
      PROVE  /\ x \in Levels \X VersionFiles(v) /\ x[2] \in FileType
             /\ x[2] \in Consulted(v, x[1], u, s) /\ x[2] \in v[x[1]]
  <2>1. PICK l \in Levels : x \in {<<l, f>> : f \in Consulted(v, l, u, s)}
    BY DEF AllConsulted
  <2>2. PICK f \in Consulted(v, l, u, s) : x = <<l, f>>
    BY <2>1
  <2>3. f \in v[l]
    BY ConsultedFiles
  <2>4. f \in VersionFiles(v) /\ f \in FileType
    BY <2>3, LevelFiles DEF VersionFiles
  <2>5. QED BY <2>2, <2>3, <2>4
<1>2. IsFiniteSet(Levels) /\ IsFiniteSet(VersionFiles(v))
  BY ConfigAssumption, FS_Interval, VersionFilesFinite DEF Levels, FileSets
<1>3. IsFiniteSet(Levels \X VersionFiles(v))
  BY <1>2, FS_Product
<1>4. IsFiniteSet(AllConsulted(v, u, s))
  <2>1. AllConsulted(v, u, s) \subseteq Levels \X VersionFiles(v)
    BY <1>1
  <2>2. QED BY <1>3, <2>1, FS_Subset
<1>5. QED BY <1>1, <1>4

\* The file GetStats charges is a file of the version, and never one of the
\* last level: another file was read after it.
LEMMA SeekChargeFiles ==
  ASSUME NEW v \in VersionType, NEW tab, NEW u, NEW s
  PROVE  SeekCharge(v, tab, u, s) \subseteq {x \in Levels \X FileType : x[1] < NumLevels - 1 /\ x[2] \in v[x[1]]}
<1> DEFINE S == AllConsulted(v, u, s)
           order == InOrder(S, ReadBefore)
           hits == {i \in DOMAIN order : Lookup(tab[order[i][2].num], u, s) # {}}
           reads == IF hits = {} THEN Len(order) ELSE Min(hits)
<1>1. SeekCharge(v, tab, u, s) = IF reads > 1 THEN {order[1]} ELSE {}
  BY DEF SeekCharge
<1>2. SUFFICES ASSUME reads > 1
               PROVE  order[1] \in Levels \X FileType /\ order[1][1] < NumLevels - 1 /\ order[1][2] \in v[order[1][1]]
  BY <1>1
<1>3. S \in SUBSET (Levels \X FileType) /\ IsFiniteSet(S)
  BY AllConsultedFiles
<1>4. /\ order \in Seq(S) /\ Len(order) = Cardinality(S)
      /\ S # {} => \A y \in S : ~ReadBefore(y, order[1])
  <2> HIDE DEF S
  <2> QED BY <1>3, ReadsInOrder
<1>5. Len(order) \in Nat /\ DOMAIN order = 1 .. Len(order)
  <2> HIDE DEF S, order
  <2> QED BY <1>4, LenProperties
<1>6. Len(order) > 1
  <2>1. hits \subseteq 1 .. Len(order)
    BY <1>5
  <2> HIDE DEF hits, order
  <2>2. hits # {} => Min(hits) \in hits
    <3>1. hits \subseteq Nat
      BY <2>1, <1>5
    <3>2. QED BY <3>1, MinOfNats
  <2>3. CASE hits = {}
    BY <1>2, <2>3
  <2>4. CASE hits # {}
    <3>1. Min(hits) > 1 /\ Min(hits) \in 1 .. Len(order)
      BY <1>2, <2>1, <2>2, <2>4
    <3>2. QED BY <3>1, <1>5
  <2>5. QED BY <2>3, <2>4
<1>7. order[1] \in S
  <2> HIDE DEF S, order
  <2> QED BY <1>4, <1>5, <1>6, ElementOfSeq
<1>8. PICK y \in S : y # order[1]
  <2>1. SUFFICES ASSUME S \subseteq {order[1]} PROVE FALSE
    OBVIOUS
  <2> HIDE DEF S, order
  <2>2. Cardinality(S) <= Cardinality({order[1]}) /\ Cardinality({order[1]}) = 1
    BY <2>1, FS_Singleton, FS_Subset
  <2>3. QED BY <1>4, <1>6, <2>2
<1>9. /\ order[1] \in Levels \X FileType /\ y \in Levels \X FileType
      /\ y[2] \in Consulted(v, y[1], u, s)
      /\ order[1][2] \in Consulted(v, order[1][1], u, s) /\ order[1][2] \in v[order[1][1]]
  BY <1>3, <1>7, AllConsultedFiles
<1>10. ~ReadBefore(y, order[1])
  BY <1>4, <1>8
<1> DEFINE o == order[1]
<1>11. o[1] < NumLevels - 1
  <2>1. SUFFICES ASSUME ~(o[1] < NumLevels - 1) PROVE FALSE
    OBVIOUS
  <2> HIDE DEF o, S, order
  <2>2. o[1] = NumLevels - 1 /\ y[1] = o[1] /\ o[1] # 0 /\ o[1] \in Levels
    BY <1>9, <1>10, <2>1, ConfigAssumption DEF ReadBefore, Levels, o
  <2>3. y[2] = o[2]
    BY <1>9, <2>2, ConsultedFiles DEF o
  <2>4. y = <<y[1], y[2]>> /\ o = <<o[1], o[2]>>
    BY <1>9 DEF o
  <2>5. y = o
    BY <2>2, <2>3, <2>4
  <2>6. QED BY <1>8, <2>5 DEF o
<1>12. QED BY <1>9, <1>11

-----------------------------------------------------------------------------
(* Choosing what to compact.                                                 *)

\* Whatever range is asked for, GetOverlappingInputs gives files of its level.
LEMMA OverlappingType ==
  ASSUME NEW v \in VersionType, NEW l \in Levels, NEW lo, NEW hi
  PROVE  /\ GetOverlappingInputs(v, l, lo, hi) \subseteq v[l]
         /\ GetOverlappingInputs(v, l, lo, hi) \in FileSets
<1>1. \A a, b : InRange(v[l], a, b) \subseteq v[l]
  BY DEF InRange
<1>2. GetOverlappingInputs(v, l, lo, hi) \subseteq v[l]
  <2>1. CASE l > 0
    BY <1>1, <2>1 DEF GetOverlappingInputs
  <2>2. CASE l = 0
    <3> DEFINE N == Cardinality(v[0])
               widen == CHOOSE widen : widen = [n \in 0 .. N |->
                 IF n = 0 THEN <<lo, hi>>
                 ELSE LET r  == widen[n - 1]
                          in == InRange(v[0], r[1], r[2])
                          us == {f.small.u : f \in in}
                          ul == {f.large.u : f \in in}
                      IN << IF r[1] = NoBound THEN NoBound ELSE Min(us \cup {r[1]}),
                            IF r[2] = NoBound THEN NoBound ELSE Max(ul \cup {r[2]}) >>]
    <3>1. GetOverlappingInputs(v, 0, lo, hi) = InRange(v[0], widen[N][1], widen[N][2])
      BY DEF GetOverlappingInputs
    <3> HIDE DEF widen, N
    <3>2. QED BY <1>1, <2>2, <3>1
  <2>3. QED BY <2>1, <2>2, ConfigAssumption DEF Levels
<1>3. QED BY <1>2, LevelFiles, FilesClosed

\* The smallest and the largest key of some files.
LEMMA RangeType ==
  ASSUME NEW fs \in FileSets, fs # {}
  PROVE  RangeSmallest(fs) \in IKeyType /\ RangeLargest(fs) \in IKeyType
<1> DEFINE sm == [f \in fs |-> f.small]
           la == [f \in fs |-> f.large]
<1>1. {f.small : f \in fs} = {sm[f] : f \in fs} /\ {f.large : f \in fs} = {la[f] : f \in fs}
  OBVIOUS
<1>2. DOMAIN sm = fs /\ DOMAIN la = fs /\ IsFiniteSet(fs)
  BY DEF FileSets
<1>3. \A f \in fs : sm[f] \in IKeyType /\ la[f] \in IKeyType
  BY DEF FileSets, FileType
<1> HIDE DEF sm, la
<1>4. IsFiniteSet({sm[f] : f \in fs}) /\ IsFiniteSet({la[f] : f \in fs})
  BY <1>2, ImageFinite
<1>5. /\ {sm[f] : f \in fs} \in SUBSET IKeyType /\ {sm[f] : f \in fs} # {}
      /\ {la[f] : f \in fs} \in SUBSET IKeyType /\ {la[f] : f \in fs} # {}
  BY <1>3
<1>6. Smallest({sm[f] : f \in fs}) \in IKeyType
  BY <1>4, <1>5, ExtremeKeys
<1>7. Largest({la[f] : f \in fs}) \in IKeyType
  BY <1>4, <1>5, ExtremeKeys
<1>8. QED BY <1>1, <1>6, <1>7 DEF RangeSmallest, RangeLargest

\* AddBoundaryInputs keeps the files it is given and adds files of the level.
LEMMA BoundaryType ==
  ASSUME NEW fs \in FileSets, NEW in \in SUBSET fs
  PROVE  in \subseteq AddBoundaryInputs(fs, in) /\ AddBoundaryInputs(fs, in) \subseteq fs
<1>1. CASE in = {}
  BY <1>1 DEF AddBoundaryInputs
<1>2. CASE in # {}
  <2> DEFINE N == Cardinality(fs)
             next(large) == {f \in fs : Less(large, f.small) /\ f.small.u = large.u}
             more(g) == IF next(g.large) = {} THEN g
                        ELSE [files |-> g.files \cup {FirstFile(next(g.large))},
                              large |-> FirstFile(next(g.large)).large]
             x0 == [files |-> in, large |-> Largest({f.large : f \in in})]
             X == [files : {s \in SUBSET fs : in \subseteq s}, large : IKeyType]
             grow == CHOOSE grow : grow = [n \in 0 .. N |-> IF n = 0 THEN x0 ELSE more(grow[n - 1])]
             G == [n \in 1 .. N |-> [g \in X |-> more(g)]]
  <2>1. AddBoundaryInputs(fs, in) = grow[N].files
    BY <1>2 DEF AddBoundaryInputs
  <2>2. N \in Nat
    BY FS_CardinalityType DEF FileSets
  <2>3. x0 \in X
    <3>1. RangeLargest(in) \in IKeyType
      BY <1>2, RangeType, FilesClosed
    <3>2. QED BY <3>1 DEF RangeLargest
  <2>4. ASSUME NEW g \in X PROVE more(g) \in X
    <3>1. next(g.large) \in SUBSET fs
      OBVIOUS
    <3> HIDE DEF next
    <3>2. ASSUME next(g.large) # {} PROVE FirstFile(next(g.large)) \in fs
      BY <3>1, <3>2, FilesClosed, ExtremeFiles
    <3>3. \A f \in fs : f.large \in IKeyType
      BY DEF FileSets, FileType
    <3>4. CASE next(g.large) # {}
      BY <3>2, <3>3, <3>4
    <3>5. CASE next(g.large) = {}
      BY <3>5
    <3>6. QED BY <3>4, <3>5
  <2> HIDE DEF N, x0, X, more
  <2>5. G \in [1 .. N -> [X -> X]]
    BY <2>4
  <2>6. \A n \in 1 .. N : \A g \in X : G[n][g] = more(g)
    OBVIOUS
  <2> HIDE DEF G
  <2>7. PICK h \in [0 .. N -> X] : \A n \in 0 .. N : h[n] = IF n = 0 THEN x0 ELSE G[n][h[n - 1]]
    <3>1. Steps(G, N, X)
      BY <2>5 DEF Steps
    <3>2. \E f : RunOf(f, G, N, X, x0)
      BY <2>2, <2>3, <3>1, RunExists
    <3>3. QED BY <3>2 DEF RunOf
  <2>8. ASSUME NEW n \in 0 .. N PROVE h[n] = IF n = 0 THEN x0 ELSE more(h[n - 1])
    <3>1. CASE n = 0
      BY <2>7, <3>1
    <3>2. CASE n # 0
      <4>1. n - 1 \in 0 .. N /\ n \in 1 .. N
        BY <2>2, <3>2
      <4>2. QED BY <2>6, <2>7, <3>2, <4>1
    <3>3. QED BY <3>1, <3>2
  <2>9. h = [n \in 0 .. N |-> IF n = 0 THEN x0 ELSE more(h[n - 1])]
    BY <2>7, <2>8
  <2>10. grow = [n \in 0 .. N |-> IF n = 0 THEN x0 ELSE more(grow[n - 1])]
    BY <2>9
  <2>11. ASSUME NEW n \in 0 .. N PROVE grow[n] \in X
    <3> DEFINE Q == {k \in 0 .. N : grow[k] \in X}
    <3> HIDE DEF grow
    <3>1. 0 \in Q
      BY <2>2, <2>3, <2>10
    <3>2. \A k \in 1 .. N : k - 1 \in Q => k \in Q
      <4>1. SUFFICES ASSUME NEW k \in 1 .. N, k - 1 \in Q PROVE k \in Q
        OBVIOUS
      <4>2. k \in 0 .. N /\ k # 0 /\ grow[k - 1] \in X
        BY <2>2, <4>1
      <4>3. grow[k] = more(grow[k - 1])
        BY <2>10, <4>2
      <4>4. QED BY <2>4, <4>2, <4>3
    <3> HIDE DEF Q
    <3>3. n \in Q
      BY <2>2, <3>1, <3>2, UpTo
    <3>4. QED BY <3>3 DEF Q
  <2>12. grow[N] \in X
    <3> HIDE DEF grow
    <3> QED BY <2>2, <2>11
  <2>13. QED
    <3> HIDE DEF grow
    <3> QED BY <2>1, <2>12 DEF X
<1>3. QED BY <1>1, <1>2

\* A compaction of version v takes files of one level of v and of the next.
CompactionOf(c, v) ==
  c \in CompactionType /\ c.ver = v /\ c.in0 \subseteq v[c.level] /\ c.in1 \subseteq v[c.level + 1]

\* The levels a compaction takes its files from.
LEMMA TwoLevels ==
  ASSUME NEW l \in 0 .. NumLevels - 2
  PROVE  l \in Levels /\ l + 1 \in Levels /\ l \in Nat /\ (l + 2 < NumLevels => l + 2 \in Levels)
BY ConfigAssumption DEF Levels

\* A compaction object made of files of two levels is one of that version.
LEMMA CompactionTyped ==
  ASSUME NEW v \in VersionType, NEW l \in 0 .. NumLevels - 2,
         NEW in0 \in SUBSET v[l], in0 # {}, NEW in1 \in SUBSET v[l + 1]
  PROVE  CompactionOf(Compaction(v, l, in0, in1), v)
<1> DEFINE grand == IF l + 2 < NumLevels THEN OverlappingFiles(v, l + 2, in0 \cup in1) ELSE {}
<1>1. in0 \in FileSets /\ in1 \in FileSets
  BY TwoLevels, LevelFiles, FilesClosed
<1>2. RangeLargest(in0) \in IKeyType
  BY <1>1, RangeType
<1>3. grand \in FileSets
  <2>1. CASE l + 2 < NumLevels
    BY <2>1, TwoLevels, OverlappingType DEF OverlappingFiles
  <2>2. CASE ~(l + 2 < NumLevels)
    BY <2>2, FilesClosed
  <2>3. QED BY <2>1, <2>2
<1>4. Compaction(v, l, in0, in1) =
        [level |-> l, in0 |-> in0, in1 |-> in1, ver |-> v, large |-> RangeLargest(in0), grand |-> grand]
  BY DEF Compaction
<1> HIDE DEF grand
<1>5. QED BY <1>1, <1>2, <1>3, <1>4 DEF CompactionOf, CompactionType

\* SetupOtherInputs makes a compaction of the files it is given.
LEMMA SetupTyped ==
  ASSUME NEW v \in VersionType, NEW l \in 0 .. NumLevels - 2,
         NEW picked \in SUBSET v[l], picked # {}
  PROVE  CompactionOf(SetupOtherInputs(v, l, picked), v)
<1> DEFINE in0 == AddBoundaryInputs(v[l], picked)
           in1 == OverlappingFiles(v, l + 1, in0)
           more == OverlappingFiles(v, l, in0 \cup in1)
           exp0 == AddBoundaryInputs(v[l], more)
           exp1 == OverlappingFiles(v, l + 1, exp0)
<1>1. v[l] \in FileSets /\ l \in Levels /\ l + 1 \in Levels
  BY TwoLevels, LevelFiles
<1>2. in0 \subseteq v[l] /\ in0 # {}
  BY <1>1, BoundaryType
<1>3. in1 \subseteq v[l + 1] /\ exp1 \subseteq v[l + 1]
  BY <1>1, OverlappingType DEF OverlappingFiles
<1>4. more \subseteq v[l]
  BY <1>1, OverlappingType DEF OverlappingFiles
<1>5. exp0 \subseteq v[l]
  <2> HIDE DEF more
  <2> QED BY <1>1, <1>4, BoundaryType
<1>6. CompactionOf(Compaction(v, l, in0, in1), v)
  <2> HIDE DEF in0, in1
  <2> QED BY <1>2, <1>3, CompactionTyped
<1>7. ASSUME exp0 # {} PROVE CompactionOf(Compaction(v, l, exp0, exp1), v)
  <2> HIDE DEF exp0, exp1
  <2> QED BY <1>3, <1>5, <1>7, CompactionTyped
<1>8. Cardinality(exp0) > Cardinality(in0) => exp0 # {}
  <2>1. IsFiniteSet(in0)
    BY <1>1, <1>2, FilesClosed DEF FileSets
  <2> HIDE DEF in0, exp0
  <2>2. Cardinality(in0) \in Nat /\ Cardinality({}) = 0
    BY <2>1, FS_CardinalityType, FS_EmptySet
  <2>3. QED BY <2>2
<1>9. SetupOtherInputs(v, l, picked) = ExpandInputs(v, l, in0, in1, exp0)
  BY DEF SetupOtherInputs
<1>10. \/ SetupOtherInputs(v, l, picked) = Compaction(v, l, in0, in1)
       \/ /\ SetupOtherInputs(v, l, picked) = Compaction(v, l, exp0, exp1)
          /\ Cardinality(exp0) > Cardinality(in0)
  <2> HIDE DEF in0, in1, exp0
  <2> QED BY <1>9 DEF ExpandInputs
<1> HIDE DEF in0, in1, exp0, exp1
<1>11. QED BY <1>6, <1>7, <1>8, <1>10

\* A manual compaction.
LEMMA CompactRangeTyped ==
  ASSUME NEW v \in VersionType, NEW l \in 0 .. NumLevels - 2, NEW lo, NEW hi
  PROVE  \A c \in CompactRange(v, l, lo, hi) : CompactionOf(c, v)
<1> DEFINE S == GetOverlappingInputs(v, l, lo, hi)
           in == InOrder(S, BySmallestKey)
           upTo(i) == TotalFileSize({in[j] : j \in 1 .. i})
           full == {i \in DOMAIN in : upTo(i) >= MaxFileSize}
           last == IF l > 0 /\ full # {} THEN Min(full) ELSE Len(in)
           picked == {in[i] : i \in 1 .. last}
<1>1. CompactRange(v, l, lo, hi) = IF in = <<>> THEN {} ELSE {SetupOtherInputs(v, l, picked)}
  BY DEF CompactRange
<1>2. SUFFICES ASSUME in # <<>> PROVE picked \subseteq v[l] /\ picked # {}
  <2> HIDE DEF picked, in
  <2> QED BY <1>1, SetupTyped
<1>3. S \subseteq v[l] /\ S \in FileSets
  BY TwoLevels, OverlappingType
<1>4. in \in Seq(S)
  <2> HIDE DEF S
  <2> QED BY <1>3, FilesInOrder
<1>5. /\ Len(in) \in Nat /\ DOMAIN in = 1 .. Len(in) /\ Len(in) # 0
      /\ \A i \in 1 .. Len(in) : in[i] \in S
  <2> HIDE DEF S, in
  <2> QED BY <1>2, <1>4, LenProperties, ElementOfSeq, EmptySeq
<1>6. full \subseteq 1 .. Len(in)
  BY <1>5
<1> HIDE DEF full, in, S
<1>7. last \in 1 .. Len(in)
  <2>1. full # {} => Min(full) \in full
    <3>1. full \subseteq Nat
      BY <1>5, <1>6
    <3>2. QED BY <3>1, MinOfNats
  <2>2. CASE l > 0 /\ full # {}
    BY <1>6, <2>1, <2>2
  <2>3. CASE ~(l > 0 /\ full # {})
    BY <1>5, <2>3
  <2>4. QED BY <2>2, <2>3
<1> HIDE DEF last
<1>8. QED BY <1>3, <1>5, <1>7

\* However often the range is widened on level 0, a file it was started from
\* stays in it.
LEMMA OverlapsItself ==
  ASSUME NEW v \in VersionType, NEW f \in v[0]
  PROVE  f \in GetOverlappingInputs(v, 0, f.small.u, f.large.u)
<1> DEFINE N == Cardinality(v[0])
           lo == f.small.u
           hi == f.large.u
           in(r) == InRange(v[0], r[1], r[2])
           us(r) == {g.small.u : g \in in(r)}
           ul(r) == {g.large.u : g \in in(r)}
           wider(r) == << IF r[1] = NoBound THEN NoBound ELSE Min(us(r) \cup {r[1]}),
                          IF r[2] = NoBound THEN NoBound ELSE Max(ul(r) \cup {r[2]}) >>
           X == {r \in Nat \X Nat : (r[1] = NoBound \/ r[1] <= lo) /\ (r[2] = NoBound \/ r[2] >= hi)}
           x0 == <<lo, hi>>
           widen == CHOOSE w : w = [n \in 0 .. N |-> IF n = 0 THEN x0 ELSE wider(w[n - 1])]
           G == [n \in 1 .. N |-> [r \in X |-> wider(r)]]
<1>1. GetOverlappingInputs(v, 0, lo, hi) = in(widen[N])
  BY DEF GetOverlappingInputs
<1>2. v[0] \in FileSets /\ IsFiniteSet(v[0]) /\ v[0] \subseteq FileType /\ N \in Nat
  BY ConfigAssumption, LevelFiles, FS_CardinalityType DEF Levels
<1>3. lo \in Nat /\ hi \in Nat /\ lo <= hi
  BY <1>2 DEF FileType, IKeyType
<1>4. x0 \in X
  BY <1>3
<1>5. ASSUME NEW r \in X PROVE wider(r) \in X
  <2>1. us(r) \subseteq Nat /\ ul(r) \subseteq Nat
    BY <1>2 DEF InRange, FileType, IKeyType
  <2>2. IsFiniteSet(ul(r) \cup {r[2]})
    <3> DEFINE large == [g \in in(r) |-> g.large.u]
    <3>1. in(r) \in SUBSET v[0]
      BY DEF InRange
    <3> HIDE DEF in
    <3>2. IsFiniteSet(in(r))
      BY <1>2, <3>1, FS_Subset
    <3>3. DOMAIN large = in(r) /\ ul(r) = {large[g] : g \in in(r)}
      OBVIOUS
    <3> HIDE DEF large, ul
    <3>4. IsFiniteSet(ul(r))
      BY <3>2, <3>3, ImageFinite
    <3>5. QED BY <3>4, FS_AddElement
  <2>3. r[1] \in Nat /\ r[2] \in Nat
    OBVIOUS
  <2> HIDE DEF us, ul
  <2>4. Min(us(r) \cup {r[1]}) \in Nat /\ Min(us(r) \cup {r[1]}) <= r[1]
    <3>1. us(r) \cup {r[1]} \subseteq Nat /\ us(r) \cup {r[1]} # {} /\ r[1] \in us(r) \cup {r[1]}
      BY <2>1, <2>3
    <3>2. QED BY <3>1, MinOfNats
  <2>5. Max(ul(r) \cup {r[2]}) \in Nat /\ Max(ul(r) \cup {r[2]}) >= r[2]
    <3> DEFINE M == ul(r) \cup {r[2]}
    <3>1. M \subseteq Nat /\ M # {} /\ r[2] \in M
      BY <2>1, <2>3
    <3>2. IsFiniteSet(M)
      BY <2>2
    <3> HIDE DEF M
    <3>3. PICK B \in Nat : \A x \in M : x <= B
      BY <3>1, <3>2, FiniteBounded
    <3>4. Max(M) \in M /\ \A x \in M : x <= Max(M)
      BY <3>1, <3>3, MaxOfNats
    <3>5. Max(M) \in Nat /\ r[2] <= Max(M)
      BY <3>1, <3>4
    <3>6. QED BY <2>3, <3>5 DEF M
  <2> DEFINE a == Min(us(r) \cup {r[1]})
             b == Max(ul(r) \cup {r[2]})
  <2>6. wider(r) = << IF r[1] = NoBound THEN NoBound ELSE a, IF r[2] = NoBound THEN NoBound ELSE b >>
    OBVIOUS
  <2>7. a \in Nat /\ a <= r[1] /\ b \in Nat /\ b >= r[2]
    BY <2>4, <2>5
  <2> HIDE DEF a, b, wider
  <2>8. QED BY <1>3, <2>6, <2>7 DEF NoBound
<1>6. ASSUME NEW r \in X PROVE f \in in(r)
  BY <1>2, <1>3, <1>6 DEF InRange, AfterFile, BeforeFile, NoBound
<1> HIDE DEF N, x0, X, wider, in
<1>7. Steps(G, N, X)
  BY <1>5 DEF Steps
<1>8. \A n \in 1 .. N : \A r \in X : G[n][r] = wider(r)
  OBVIOUS
<1> HIDE DEF G
<1>9. PICK h : RunOf(h, G, N, X, x0)
  BY <1>2, <1>4, <1>7, RunExists
<1>10. h \in [0 .. N -> X] /\ \A n \in 0 .. N : h[n] = IF n = 0 THEN x0 ELSE G[n][h[n - 1]]
  BY <1>9 DEF RunOf
<1>11. h = [n \in 0 .. N |-> IF n = 0 THEN x0 ELSE wider(h[n - 1])]
  <2>1. ASSUME NEW n \in 0 .. N PROVE h[n] = IF n = 0 THEN x0 ELSE wider(h[n - 1])
    <3>1. CASE n = 0
      BY <1>10, <3>1
    <3>2. CASE n # 0
      <4>1. n - 1 \in 0 .. N /\ n \in 1 .. N
        BY <1>2, <3>2
      <4>2. QED BY <1>8, <1>10, <3>2, <4>1
    <3>3. QED BY <3>1, <3>2
  <2>2. QED BY <1>10, <2>1
<1>12. widen = [n \in 0 .. N |-> IF n = 0 THEN x0 ELSE wider(widen[n - 1])]
  BY <1>11
<1> HIDE DEF widen
<1> DEFINE Q == {k \in 0 .. N : widen[k] \in X}
<1>13. 0 \in Q
  BY <1>2, <1>4, <1>12
<1>14. ASSUME NEW k \in 1 .. N, k - 1 \in Q PROVE k \in Q
  <2>1. k \in 0 .. N /\ k # 0 /\ widen[k - 1] \in X
    BY <1>2, <1>14
  <2>2. widen[k] = wider(widen[k - 1])
    BY <1>12, <2>1
  <2>3. QED BY <1>5, <2>1, <2>2
<1>15. N \in Q
  <2> HIDE DEF Q
  <2>1. \A n \in 0 .. N : n \in Q
    BY <1>2, <1>13, <1>14, UpTo
  <2>2. QED BY <1>2, <2>1
<1>16. QED BY <1>1, <1>6, <1>15

\* No files have no bytes.
LEMMA TotalSizeEmpty == TotalFileSize({}) = 0
<1> DEFINE size == [f \in {} |-> f.size]
           pick(s) == CHOOSE x \in s : TRUE
           sum(g, s) == IF s = {} THEN 0 ELSE size[pick(s)] + g[s \ {pick(s)}]
           iter == CHOOSE g : g = [s \in SUBSET DOMAIN size |-> sum(g, s)]
<1>1. TotalFileSize({}) = iter[DOMAIN size]
  BY DEF TotalFileSize, FoldFunction, FoldFunctionOnSet, MapThenFoldSet
<1>2. DOMAIN size = {}
  OBVIOUS
<1> HIDE DEF size
<1> DEFINE h == [s \in SUBSET DOMAIN size |-> 0]
<1>3. h = [s \in SUBSET DOMAIN size |-> sum(h, s)]
  BY <1>2
<1> HIDE DEF sum
<1>4. iter = [s \in SUBSET DOMAIN size |-> sum(iter, s)]
  BY <1>3
<1> HIDE DEF iter
<1>5. iter[{}] = sum(iter, {})
  BY <1>2, <1>4
<1>6. QED BY <1>1, <1>2, <1>5 DEF sum

\* The size limit of a level is positive (VersionSet's MaxBytesForLevel).
LEMMA MaxBytesPositive ==
  ASSUME NEW l \in Levels
  PROVE  MaxBytesForLevel[l] \in Nat \ {0}
<1> DEFINE N == NumLevels - 1
           X == Nat \ {0}
           next(n, x) == IF n <= 1 THEN LevelBase ELSE 10 * x
           G == [n \in 1 .. N |-> [x \in X |-> next(n, x)]]
           Is(w) == w = [n \in Levels |-> IF n <= 1 THEN LevelBase ELSE 10 * w[n - 1]]
<1>1. MaxBytesForLevel = CHOOSE w : Is(w)
  BY DEF MaxBytesForLevel
<1>2. N \in Nat /\ Levels = 0 .. N /\ LevelBase \in X
  BY ConfigAssumption DEF Levels
<1>3. \A n \in 1 .. N : \A x \in X : next(n, x) \in X
  BY <1>2
<1>4. Steps(G, N, X)
  <2> HIDE DEF N, X, next
  <2> QED BY <1>3 DEF Steps
<1>5. \A n \in 1 .. N : \A x \in X : G[n][x] = next(n, x)
  OBVIOUS
<1> HIDE DEF N, X, G
<1>6. PICK h : RunOf(h, G, N, X, LevelBase)
  BY <1>2, <1>4, RunExists
<1>7. h \in [0 .. N -> X] /\ \A n \in 0 .. N : h[n] = IF n = 0 THEN LevelBase ELSE G[n][h[n - 1]]
  BY <1>6 DEF RunOf
<1>8. ASSUME NEW n \in 0 .. N PROVE h[n] = IF n <= 1 THEN LevelBase ELSE 10 * h[n - 1]
  <2>1. CASE n = 0
    BY <1>7, <2>1
  <2>2. CASE n # 0
    <3>1. n - 1 \in 0 .. N /\ n \in 1 .. N
      BY <1>2, <2>2
    <3>2. h[n - 1] \in X
      BY <1>7, <3>1
    <3>3. h[n] = next(n, h[n - 1])
      BY <1>5, <1>7, <2>2, <3>1, <3>2
    <3>4. QED BY <3>3
  <2>3. QED BY <2>1, <2>2
<1>9. Is(h)
  BY <1>2, <1>7, <1>8
<1>10. Is(MaxBytesForLevel)
  <2> HIDE DEF Is
  <2> QED BY <1>1, <1>9
<1> DEFINE M == MaxBytesForLevel
           Q == {k \in 0 .. N : M[k] \in X}
<1>11. \A n \in 0 .. N : M[n] = IF n <= 1 THEN LevelBase ELSE 10 * M[n - 1]
  BY <1>2, <1>10
<1> HIDE DEF M
<1>12. 0 \in Q
  BY <1>2, <1>11
<1>13. ASSUME NEW k \in 1 .. N, k - 1 \in Q PROVE k \in Q
  <2>1. k \in 0 .. N /\ M[k - 1] \in X
    BY <1>2, <1>13
  <2>2. M[k] = next(k, M[k - 1])
    BY <1>11, <2>1
  <2>3. M[k] \in X
    <3> HIDE DEF next
    <3> QED BY <1>3, <2>1, <2>2
  <2>4. QED BY <2>1, <2>3
<1>14. l \in Q
  <2> HIDE DEF Q
  <2>1. \A n \in 0 .. N : n \in Q
    BY <1>2, <1>12, <1>13, UpTo
  <2>2. QED BY <1>2, <2>1
<1>15. QED BY <1>14 DEF X, M

\* A level's score is a fraction (VersionSet::Finalize).
LEMMA ScoreType ==
  ASSUME NEW v \in VersionType, NEW l \in Levels
  PROVE  Score(v, l)[1] \in Nat /\ Score(v, l)[2] \in Nat \ {0}
<1>1. v[l] \in FileSets /\ (l = 0 => Cardinality(v[0]) \in Nat)
  BY LevelFiles, FS_CardinalityType
<1>2. QED BY <1>1, TotalSizeNat, MaxBytesPositive, ConfigAssumption DEF Score

\* Comparing fractions is transitive.
LEMMA FractionOrder ==
  ASSUME NEW a \in Nat, NEW b \in Nat \ {0}, NEW c \in Nat, NEW d \in Nat \ {0},
         NEW e \in Nat, NEW f \in Nat \ {0},
         a * d > c * b, c * f > e * d
  PROVE  a * f > e * b
<1>1. f * (a * d) > f * (c * b)
  OBVIOUS
<1>2. b * (c * f) > b * (e * d)
  OBVIOUS
<1>3. f * (c * b) = b * (c * f) /\ f * (a * d) = d * (a * f) /\ b * (e * d) = d * (e * b)
  OBVIOUS
<1>4. /\ f * (a * d) \in Nat /\ f * (c * b) \in Nat /\ b * (c * f) \in Nat
      /\ b * (e * d) \in Nat /\ a * f \in Nat /\ e * b \in Nat
  OBVIOUS
<1>5. d * (a * f) > d * (e * b)
  BY <1>1, <1>2, <1>3, <1>4
<1>6. ASSUME a * f <= e * b PROVE FALSE
  <2>1. d * (a * f) <= d * (e * b)
    BY <1>4, <1>6
  <2>2. QED BY <1>5, <2>1, <1>4
<1>7. QED BY <1>4, <1>6

\* Some level has the best score.
LEMMA CompactionLevelType ==
  ASSUME NEW v \in VersionType
  PROVE  /\ CompactionLevel(v) \in 0 .. NumLevels - 2
         /\ \A m \in 0 .. NumLevels - 2 :
              Score(v, CompactionLevel(v))[1] * Score(v, m)[2] >= Score(v, m)[1] * Score(v, CompactionLevel(v))[2]
<1> DEFINE S == 0 .. NumLevels - 2
           a == [l \in S |-> Score(v, l)[1]]
           b == [l \in S |-> Score(v, l)[2]]
           R == {p \in S \X S : a[p[1]] * b[p[2]] > a[p[2]] * b[p[1]]}
           best == {l \in S : \A m \in S : a[l] * b[m] >= a[m] * b[l]}
<1>1. \A l \in S : a[l] \in Nat /\ b[l] \in Nat \ {0} /\ a[l] = Score(v, l)[1] /\ b[l] = Score(v, l)[2]
  BY ScoreType, TwoLevels
<1>2. CompactionLevel(v) = Min(best)
  BY DEF CompactionLevel
<1>3. IsFiniteSet(S) /\ S # {} /\ S \subseteq Nat
  <2>1. 0 \in Int /\ NumLevels - 2 \in Int /\ NumLevels - 2 >= 0
    BY ConfigAssumption
  <2>2. IsFiniteSet(S)
    BY <2>1, FS_Interval
  <2>3. QED BY <2>1, <2>2
<1>4. \A x, y \in S : <<x, y>> \in R <=> a[x] * b[y] > a[y] * b[x]
  OBVIOUS
<1> HIDE DEF S, a, b, R
<1>5. \A x \in S : <<x, x>> \notin R
  <2>1. \A x \in S : a[x] * b[x] \in Nat
    BY <1>1
  <2>2. QED BY <1>4, <2>1
<1>6. ASSUME NEW x \in S, NEW y \in S, NEW z \in S, <<x, y>> \in R, <<y, z>> \in R
      PROVE  <<x, z>> \in R
  <2>1. a[x] * b[y] > a[y] * b[x] /\ a[y] * b[z] > a[z] * b[y]
    BY <1>4, <1>6
  <2>2. a[x] * b[z] > a[z] * b[x]
    BY <1>1, <2>1, FractionOrder
  <2>3. QED BY <1>4, <2>2
<1>7. PICK x \in S : \A y \in S : <<y, x>> \notin R
  BY <1>3, <1>5, <1>6, MinimalElement
<1>8. x \in best
  <2>1. ASSUME NEW m \in S PROVE a[x] * b[m] >= a[m] * b[x]
    <3>1. ~(a[m] * b[x] > a[x] * b[m])
      BY <1>4, <1>7
    <3>2. a[m] * b[x] \in Nat /\ a[x] * b[m] \in Nat
      BY <1>1
    <3>3. QED BY <3>1, <3>2
  <2>2. QED BY <2>1
<1>9. Min(best) \in best
  <2>1. best \subseteq Nat /\ best # {}
    BY <1>3, <1>8
  <2> HIDE DEF best
  <2>2. QED BY <2>1, MinOfNats
<1>10. /\ Min(best) \in S
       /\ \A m \in S : a[Min(best)] * b[m] >= a[m] * b[Min(best)]
  BY <1>9
<1> HIDE DEF best
<1>11. QED BY <1>1, <1>2, <1>10 DEF S

\* As many files on level 0 as its trigger always ask for a compaction: no
\* other level's score makes Finalize overlook them.
LEMMA FullLevelZero ==
  ASSUME NEW v \in VersionType, Cardinality(v[0]) >= L0CompactionTrigger
  PROVE  SizeCompaction(v)
<1> DEFINE l == CompactionLevel(v)
           p == Score(v, l)[1]
           q == Score(v, l)[2]
           c == Cardinality(v[0])
           t == L0CompactionTrigger
<1>1. 0 \in 0 .. NumLevels - 2 /\ Score(v, 0) = <<c, t>>
  BY ConfigAssumption DEF Score
<1>2. l \in 0 .. NumLevels - 2 /\ p * t >= c * q
  BY <1>1, CompactionLevelType
<1>3. p \in Nat /\ q \in Nat \ {0}
  <2> HIDE DEF l
  <2> QED BY <1>2, TwoLevels, ScoreType
<1>4. t \in Nat \ {0} /\ c \in Nat /\ c >= t
  <2>1. c \in Nat
    <3>1. 0 \in Levels
      BY ConfigAssumption DEF Levels
    <3>2. QED BY <3>1, LevelFiles, FS_CardinalityType
  <2>2. QED BY <2>1, ConfigAssumption
<1>5. SizeCompaction(v) <=> p >= q
  BY DEF SizeCompaction
<1> HIDE DEF l, p, q, c, t
<1>6. ASSUME p < q PROVE FALSE
  <2>1. p * t < q * t
    BY <1>3, <1>4, <1>6
  <2>2. q * t <= c * q
    <3>1. t * q <= c * q
      BY <1>3, <1>4
    <3>2. q * t = t * q
      BY <1>3, <1>4
    <3>3. QED BY <3>1, <3>2
  <2>3. p * t \in Nat /\ q * t \in Nat /\ c * q \in Nat
    BY <1>3, <1>4
  <2>4. QED BY <1>2, <2>1, <2>2, <2>3
<1>7. QED BY <1>3, <1>5, <1>6

\* The files charged with too many seeks are files of the version that have a
\* level below them.
SeekType(v) == SUBSET {x \in Levels \X FileType : x[1] < NumLevels - 1 /\ x[2] \in v[x[1]]}

\* The compaction the version asks for by itself.
LEMMA PickCompactionTyped ==
  ASSUME NEW v \in VersionType, NEW ptr, NEW seek \in SeekType(v)
  PROVE  \A c \in PickCompaction(v, ptr, seek) : CompactionOf(c, v)
<1> DEFINE big == SizeCompaction(v)
           level == IF big THEN CompactionLevel(v)
                    ELSE CHOOSE l \in Levels : \E f \in v[l] : <<l, f>> \in seek
           after == {f \in v[level] : ptr[level] = NoPointer \/ Less(ptr[level], f.large)}
           first == IF ~big THEN CHOOSE f \in v[level] : <<level, f>> \in seek
                    ELSE FirstFile(IF after = {} THEN v[level] ELSE after)
           picked == IF level > 0 THEN {first}
                     ELSE GetOverlappingInputs(v, 0, first.small.u, first.large.u)
<1>1. PickCompaction(v, ptr, seek) =
        IF ~big /\ seek = {} THEN {} ELSE {SetupOtherInputs(v, level, picked)}
  BY DEF PickCompaction
<1>2. SUFFICES ASSUME big \/ seek # {}
               PROVE  level \in 0 .. NumLevels - 2 /\ picked \subseteq v[level] /\ picked # {}
  <2> HIDE DEF big, level, picked
  <2> QED BY <1>1, SetupTyped
<1>3. ASSUME big PROVE level \in 0 .. NumLevels - 2 /\ first \in v[level]
  <2>1. level = CompactionLevel(v) /\ level \in 0 .. NumLevels - 2
    BY <1>3, CompactionLevelType
  <2>2. level \in Levels
    BY <2>1, TwoLevels
  <2> DEFINE sc == Score(v, level)
  <2>3. sc[1] >= sc[2] /\ sc[1] \in Nat /\ sc[2] \in Nat \ {0}
    <3>1. sc[1] >= sc[2]
      BY <1>3, <2>1 DEF SizeCompaction
    <3> HIDE DEF level
    <3>2. QED BY <2>2, <3>1, ScoreType
  <2> HIDE DEF level
  <2>4. v[level] # {}
    <3>1. SUFFICES ASSUME v[level] = {} PROVE sc[1] = 0
      BY <2>3
    <3>2. CASE level = 0
      BY <3>1, <3>2, FS_EmptySet DEF Score
    <3>3. CASE level # 0
      BY <3>1, <3>3, TotalSizeEmpty DEF Score
    <3>4. QED BY <3>2, <3>3
  <2> DEFINE from == IF after = {} THEN v[level] ELSE after
  <2>5. from \subseteq v[level] /\ from # {} /\ first = FirstFile(from)
    BY <1>3, <2>4
  <2> HIDE DEF from, first
  <2>6. from \in FileSets
    BY <2>2, <2>5, LevelFiles, FilesClosed
  <2>7. first \in from
    BY <2>5, <2>6, ExtremeFiles
  <2>8. QED BY <2>1, <2>5, <2>7
<1>4. ASSUME ~big PROVE level \in 0 .. NumLevels - 2 /\ first \in v[level]
  <2>1. PICK x \in seek : TRUE
    BY <1>2, <1>4
  <2>2. x \in Levels \X FileType /\ x[1] < NumLevels - 1 /\ x[2] \in v[x[1]]
    BY DEF SeekType
  <2>3. x[1] \in Levels /\ x[2] \in v[x[1]] /\ <<x[1], x[2]>> \in seek
    BY <2>2
  <2> HIDE DEF big
  <2>4. level \in Levels /\ \E f \in v[level] : <<level, f>> \in seek
    BY <1>4, <2>3
  <2> HIDE DEF level
  <2>5. first \in v[level] /\ <<level, first>> \in seek
    BY <1>4, <2>4
  <2> HIDE DEF first
  <2>6. <<level, first>>[1] < NumLevels - 1
    BY <2>5 DEF SeekType
  <2>7. QED BY <2>4, <2>5, <2>6, ConfigAssumption DEF Levels
<1>5. level \in 0 .. NumLevels - 2 /\ first \in v[level]
  <2> HIDE DEF level, first, big
  <2> QED BY <1>3, <1>4
<1> HIDE DEF level, first
<1>6. CASE level > 0
  BY <1>5, <1>6
<1>7. CASE level = 0
  <2>1. picked = GetOverlappingInputs(v, 0, first.small.u, first.large.u)
    BY <1>7
  <2>2. first \in picked
    BY <1>5, <1>7, <2>1, OverlapsItself
  <2>3. picked \subseteq v[0]
    BY <1>5, <1>7, <2>1, TwoLevels, OverlappingType
  <2>4. QED BY <1>5, <1>7, <2>2, <2>3
<1>8. QED BY <1>5, <1>6, <1>7

\* A memtable goes to one of the levels.
LEMMA PickLevelType ==
  ASSUME NEW v, NEW lo, NEW hi
  PROVE  PickLevelForMemTableOutput(v, lo, hi) \in Levels
<1> DEFINE fits(l) == /\ ~OverlapInLevel(v, l + 1, lo, hi)
                      /\ \/ l + 2 >= NumLevels
                         \/ TotalFileSize(GetOverlappingInputs(v, l + 2, lo, hi)) <= GrandParentLimit
           stops == {l \in 0 .. MaxMemCompactLevel : l = MaxMemCompactLevel \/ ~fits(l)}
<1>1. PickLevelForMemTableOutput(v, lo, hi) = IF OverlapInLevel(v, 0, lo, hi) THEN 0 ELSE Min(stops)
  BY DEF PickLevelForMemTableOutput
<1> HIDE DEF fits
<1>2. MaxMemCompactLevel \in stops /\ stops \subseteq 0 .. MaxMemCompactLevel /\ stops \subseteq Nat
  BY ConfigAssumption
<1> HIDE DEF stops
<1>3. Min(stops) \in stops
  BY <1>2, MinOfNats
<1>4. Min(stops) \in Levels /\ 0 \in Levels
  <2>1. Min(stops) \in 0 .. MaxMemCompactLevel
    BY <1>2, <1>3
  <2>2. QED BY <2>1, ConfigAssumption DEF Levels
<1>5. QED BY <1>1, <1>4

-----------------------------------------------------------------------------
(* The merge loop.                                                           *)

\* The state of the merge loop over the entries es: the outputs so far hold at
\* least one entry each.
MergeType(c, es) ==
  [outs : Seq((SUBSET es) \ {{}}), open : SUBSET es, user : Nat, lastSeq : Nat,
   passed : SUBSET c.grand, overlapped : Nat, seen : BOOLEAN]

\* One entry of the merge keeps the state of DoCompactionWork's loop typed.
LEMMA MergeStepType ==
  ASSUME NEW c \in CompactionType, NEW es \in SUBSET RawEntry, NEW oldest,
         NEW st \in MergeType(c, es), NEW e \in es
  PROVE  MergeStep(c, oldest, st, e) \in MergeType(c, es)
<1> DEFINE sb == ShouldStopBefore(c, st, KeyOf(e))
           drop == Dropped(c, st, e, oldest)
           cut == sb.stop /\ st.open # {}
           outs == IF cut THEN Append(st.outs, st.open) ELSE st.outs
           open == IF cut THEN {} ELSE st.open
           added == IF drop THEN open ELSE open \cup {e}
           full == ~drop /\ Cardinality(added) >= MaxFileSize
           O == (SUBSET es) \ {{}}
<1>1. MergeStep(c, oldest, st, e) =
        [outs |-> IF full THEN Append(outs, added) ELSE outs,
         open |-> IF full THEN {} ELSE added,
         user |-> e.k, lastSeq |-> e.s,
         passed |-> sb.passed, overlapped |-> sb.overlapped, seen |-> TRUE]
  BY DEF MergeStep
<1>2. sb.passed \in SUBSET c.grand /\ sb.overlapped \in Nat
  <2> DEFINE passed == {g \in c.grand : Less(g.large, KeyOf(e))} \ st.passed
             bytes == st.overlapped + IF st.seen THEN TotalFileSize(passed) ELSE 0
  <2>1. sb = [stop |-> bytes > GrandParentLimit, passed |-> st.passed \cup passed,
              overlapped |-> IF bytes > GrandParentLimit THEN 0 ELSE bytes]
    BY DEF ShouldStopBefore
  <2>2. c.grand \in FileSets /\ st.passed \in SUBSET c.grand /\ st.overlapped \in Nat
    BY DEF CompactionType, MergeType
  <2>3. passed \in SUBSET c.grand
    OBVIOUS
  <2> HIDE DEF passed
  <2>4. TotalFileSize(passed) \in Nat
    BY <2>2, <2>3, FilesClosed, TotalSizeNat
  <2>5. bytes \in Nat
    BY <2>2, <2>4
  <2> HIDE DEF bytes
  <2>6. QED BY <2>1, <2>2, <2>3, <2>5
<1>3. e.k \in Nat /\ e.s \in Nat
  BY DEF RawEntry
<1>4. st.outs \in Seq(O) /\ st.open \in SUBSET es
  BY DEF MergeType
<1>5. \A s \in Seq(O) : \A x \in SUBSET es : x # {} => Append(s, x) \in Seq(O)
  <2> HIDE DEF O
  <2>1. \A x \in SUBSET es : x # {} => x \in O
    BY DEF O
  <2>2. QED BY <2>1, AppendProperties
<1> HIDE DEF sb, drop, O
<1>6. outs \in Seq(O) /\ open \in SUBSET es
  BY <1>4, <1>5
<1> HIDE DEF outs, open
<1>7. added \in SUBSET es /\ (~drop => added # {})
  BY <1>6
<1> HIDE DEF added
<1>8. (IF full THEN Append(outs, added) ELSE outs) \in Seq(O)
  BY <1>5, <1>6, <1>7
<1>9. (IF full THEN {} ELSE added) \in SUBSET es
  BY <1>7
<1> HIDE DEF full
<1>10. QED BY <1>1, <1>2, <1>3, <1>8, <1>9 DEF MergeType, O

\* The states m of the loop over the entries es, one after each entry.
MergeRun(m, c, es, oldest) ==
  LET order == InOrder(es, EntryBefore)
      end   == m[Len(order)]
  IN /\ m[0] = MergeStart
     /\ \A n \in 0 .. Len(order) : m[n] \in MergeType(c, es)
     /\ \A n \in 1 .. Len(order) : m[n] = MergeStep(c, oldest, m[n - 1], order[n])
     /\ MergedOutputs(c, es, oldest) = IF end.open = {} THEN end.outs ELSE Append(end.outs, end.open)

\* The loop runs through all entries.
LEMMA MergeRunExists ==
  ASSUME NEW c \in CompactionType, NEW es \in SUBSET RawEntry, IsFiniteSet(es), NEW oldest
  PROVE  \E m : MergeRun(m, c, es, oldest)
<1> DEFINE order == InOrder(es, EntryBefore)
           N == Len(order)
           X == MergeType(c, es)
           G == [n \in 1 .. N |-> [st \in X |-> MergeStep(c, oldest, st, order[n])]]
           Is(m) == m = [i \in 0 .. N |-> IF i = 0 THEN MergeStart
                                          ELSE MergeStep(c, oldest, m[i - 1], order[i])]
           merge == CHOOSE m : Is(m)
           end == merge[N]
<1>1. MergedOutputs(c, es, oldest) = IF end.open = {} THEN end.outs ELSE Append(end.outs, end.open)
  BY DEF MergedOutputs
<1>2. N \in Nat /\ \A i \in 1 .. N : order[i] \in es
  <2>1. order \in Seq(es)
    BY EntriesInOrder
  <2> HIDE DEF order
  <2>2. QED BY <2>1, LenProperties, ElementOfSeq
<1>3. MergeStart \in X
  <2>1. <<>> \in Seq((SUBSET es) \ {{}}) /\ {} \in SUBSET es /\ {} \in SUBSET c.grand
    OBVIOUS
  <2>2. QED BY <2>1, ConfigAssumption DEF MergeStart, MergeType, NoBound
<1>4. \A n \in 1 .. N : \A st \in X : MergeStep(c, oldest, st, order[n]) \in X
  <2> HIDE DEF order, N
  <2> QED BY <1>2, MergeStepType
<1> HIDE DEF N, X, order
<1>5. Steps(G, N, X)
  BY <1>4 DEF Steps
<1>6. \A n \in 1 .. N : \A st \in X : G[n][st] = MergeStep(c, oldest, st, order[n])
  OBVIOUS
<1> HIDE DEF G
<1>7. PICK h : RunOf(h, G, N, X, MergeStart)
  BY <1>2, <1>3, <1>5, RunExists
<1>8. h \in [0 .. N -> X] /\ \A n \in 0 .. N : h[n] = IF n = 0 THEN MergeStart ELSE G[n][h[n - 1]]
  BY <1>7 DEF RunOf
<1>9. Is(h)
  <2>1. ASSUME NEW n \in 0 .. N
        PROVE  h[n] = IF n = 0 THEN MergeStart ELSE MergeStep(c, oldest, h[n - 1], order[n])
    <3>1. CASE n = 0
      BY <1>8, <3>1
    <3>2. CASE n # 0
      <4>1. n - 1 \in 0 .. N /\ n \in 1 .. N
        BY <1>2, <3>2
      <4>2. QED BY <1>6, <1>8, <3>2, <4>1
    <3>3. QED BY <3>1, <3>2
  <2>2. QED BY <1>8, <2>1
<1>10. Is(merge)
  <2> HIDE DEF Is
  <2> QED BY <1>9
<1> HIDE DEF merge
<1>11. merge = [i \in 0 .. N |-> IF i = 0 THEN MergeStart ELSE MergeStep(c, oldest, merge[i - 1], order[i])]
  BY <1>10
<1> DEFINE Q == {k \in 0 .. N : merge[k] \in X}
<1>12. 0 \in Q
  BY <1>2, <1>3, <1>11
<1>13. ASSUME NEW k \in 1 .. N, k - 1 \in Q PROVE k \in Q
  <2>1. k \in 0 .. N /\ k # 0 /\ merge[k - 1] \in X
    BY <1>2, <1>13
  <2>2. merge[k] = MergeStep(c, oldest, merge[k - 1], order[k])
    BY <1>11, <2>1
  <2>3. QED BY <1>4, <2>1, <2>2
<1>14. \A n \in 0 .. N : merge[n] \in X
  <2> HIDE DEF Q
  <2>1. \A n \in 0 .. N : n \in Q
    BY <1>2, <1>12, <1>13, UpTo
  <2>2. QED BY <2>1 DEF Q
<1>15. merge[0] = MergeStart /\ \A n \in 1 .. N : merge[n] = MergeStep(c, oldest, merge[n - 1], order[n])
  <2>1. 0 \in 0 .. N /\ \A n \in 1 .. N : n \in 0 .. N /\ n # 0
    BY <1>2
  <2>2. QED BY <1>11, <2>1
<1>16. MergeRun(merge, c, es, oldest)
  BY <1>1, <1>14, <1>15 DEF MergeRun, N, X, order
<1>17. QED BY <1>16

\* Every output of a compaction holds at least one of the entries that went
\* into it, and nothing else.
LEMMA MergedOutputsType ==
  ASSUME NEW c \in CompactionType, NEW es \in SUBSET RawEntry, IsFiniteSet(es), NEW oldest
  PROVE  MergedOutputs(c, es, oldest) \in Seq((SUBSET es) \ {{}})
<1> DEFINE order == InOrder(es, EntryBefore)
           O == (SUBSET es) \ {{}}
<1>1. Len(order) \in Nat
  <2>1. order \in Seq(es)
    BY EntriesInOrder
  <2> HIDE DEF order
  <2>2. QED BY <2>1, LenProperties
<1>2. PICK m : MergeRun(m, c, es, oldest)
  BY MergeRunExists
<1> DEFINE end == m[Len(order)]
<1>3. /\ end \in MergeType(c, es)
      /\ MergedOutputs(c, es, oldest) = IF end.open = {} THEN end.outs ELSE Append(end.outs, end.open)
  BY <1>1, <1>2 DEF MergeRun
<1> HIDE DEF end
<1>4. end.outs \in Seq(O) /\ end.open \in SUBSET es
  BY <1>3 DEF MergeType
<1>5. end.open # {} => end.open \in O
  BY <1>4
<1> HIDE DEF O
<1>6. MergedOutputs(c, es, oldest) \in Seq(O)
  BY <1>3, <1>4, <1>5, AppendProperties
<1>7. QED BY <1>6 DEF O

\* What is in the outputs of a merge.
InOutputs(outs) == UNION {outs[i] : i \in 1 .. Len(outs)}

Written(st) == InOutputs(st.outs) \cup st.open

\* One output more.
LEMMA OneMoreOutput ==
  ASSUME NEW T, NEW outs \in Seq(T), NEW x \in T
  PROVE  InOutputs(Append(outs, x)) = InOutputs(outs) \cup x
<1> DEFINE more == Append(outs, x)
<1>1. /\ Len(outs) \in Nat /\ Len(more) = Len(outs) + 1 /\ more[Len(outs) + 1] = x
      /\ \A i \in 1 .. Len(outs) : more[i] = outs[i]
  BY LenProperties, AppendProperties
<1> HIDE DEF more
<1>2. ASSUME NEW y, y \in InOutputs(more) PROVE y \in InOutputs(outs) \cup x
  <2>1. PICK i \in 1 .. Len(more) : y \in more[i]
    BY <1>2 DEF InOutputs
  <2>2. i \in 1 .. Len(outs) \/ i = Len(outs) + 1
    BY <1>1
  <2>3. QED BY <1>1, <2>1, <2>2 DEF InOutputs
<1>3. ASSUME NEW y \in x PROVE y \in InOutputs(more)
  <2>1. Len(outs) + 1 \in 1 .. Len(more)
    BY <1>1
  <2>2. QED BY <1>1, <1>3, <2>1 DEF InOutputs
<1>4. ASSUME NEW y, y \in InOutputs(outs) PROVE y \in InOutputs(more)
  <2>1. PICK i \in 1 .. Len(outs) : y \in outs[i]
    BY <1>4 DEF InOutputs
  <2>2. i \in 1 .. Len(more)
    BY <1>1
  <2>3. QED BY <1>1, <2>1, <2>2 DEF InOutputs
<1>5. QED BY <1>2, <1>3, <1>4 DEF more

\* A turn of the loop writes its entry or drops it, and remembers its key.
LEMMA MergeStepWrites ==
  ASSUME NEW c \in CompactionType, NEW es \in SUBSET RawEntry, NEW oldest,
         NEW st \in MergeType(c, es), NEW e \in es, NEW next, next = MergeStep(c, oldest, st, e)
  PROVE  /\ Written(next) = Written(st) \cup IF Dropped(c, st, e, oldest) THEN {} ELSE {e}
         /\ next.user = e.k /\ next.lastSeq = e.s
<1> DEFINE sb == ShouldStopBefore(c, st, KeyOf(e))
           drop == Dropped(c, st, e, oldest)
           cut == sb.stop /\ st.open # {}
           outs == IF cut THEN Append(st.outs, st.open) ELSE st.outs
           open == IF cut THEN {} ELSE st.open
           added == IF drop THEN open ELSE open \cup {e}
           full == ~drop /\ Cardinality(added) >= MaxFileSize
           O == (SUBSET es) \ {{}}
<1>1. /\ next.outs = IF full THEN Append(outs, added) ELSE outs
      /\ next.open = IF full THEN {} ELSE added
      /\ next.user = e.k /\ next.lastSeq = e.s
  BY DEF MergeStep
<1>2. st.outs \in Seq(O) /\ st.open \in SUBSET es
  BY DEF MergeType
<1>3. st.open # {} => st.open \in O
  BY <1>2
<1> HIDE DEF sb, drop, O
<1>4. outs \in Seq(O) /\ InOutputs(outs) \cup open = InOutputs(st.outs) \cup st.open
  <2>1. CASE cut
    BY <1>2, <1>3, <2>1, AppendProperties, OneMoreOutput
  <2>2. CASE ~cut
    BY <1>2, <2>2
  <2>3. QED BY <2>1, <2>2
<1>5. open \in SUBSET es
  BY <1>2
<1> HIDE DEF outs, open
<1>6. added = open \cup (IF drop THEN {} ELSE {e}) /\ (~drop => added \in O)
  BY <1>5 DEF O
<1> HIDE DEF added
<1>7. InOutputs(next.outs) \cup next.open = InOutputs(outs) \cup added
  <2>1. CASE full
    <3>1. added \in O
      BY <1>6, <2>1
    <3>2. InOutputs(Append(outs, added)) = InOutputs(outs) \cup added
      BY <1>4, <3>1, OneMoreOutput
    <3>3. QED BY <1>1, <2>1, <3>2
  <2>2. CASE ~full
    BY <1>1, <2>2
  <2>3. QED BY <2>1, <2>2
<1>8. QED BY <1>1, <1>4, <1>6, <1>7 DEF Written, drop

\* After n entries the outputs hold those that were not dropped.
LEMMA WrittenSoFar ==
  ASSUME NEW c \in CompactionType, NEW es \in SUBSET RawEntry, IsFiniteSet(es), NEW oldest,
         NEW m, MergeRun(m, c, es, oldest), NEW order, order = InOrder(es, EntryBefore)
  PROVE  \A n \in 0 .. Len(order) :
           Written(m[n]) = {order[j] : j \in {i \in 1 .. n : ~Dropped(c, m[i - 1], order[i], oldest)}}
<1> DEFINE N == Len(order)
           D(i) == Dropped(c, m[i - 1], order[i], oldest)
           Kept(n) == {order[j] : j \in {i \in 1 .. n : ~D(i)}}
           Q == {n \in 0 .. N : Written(m[n]) = Kept(n)}
<1>1. N \in Nat /\ \A i \in 1 .. N : order[i] \in es
  <2>1. order \in Seq(es)
    BY EntriesInOrder
  <2>2. QED BY <2>1, LenProperties, ElementOfSeq
<1>2. /\ m[0] = MergeStart
      /\ \A n \in 0 .. N : m[n] \in MergeType(c, es)
      /\ \A n \in 1 .. N : m[n] = MergeStep(c, oldest, m[n - 1], order[n])
  BY DEF MergeRun
<1>3. 0 \in Q
  <2>1. Written(MergeStart) = {}
    <3>1. MergeStart.outs = <<>> /\ MergeStart.open = {}
      BY DEF MergeStart
    <3>2. QED BY <3>1 DEF Written, InOutputs
  <2>2. Kept(0) = {}
    OBVIOUS
  <2>3. QED BY <1>1, <1>2, <2>1, <2>2
<1>4. ASSUME NEW n \in 1 .. N, n - 1 \in Q PROVE n \in Q
  <2>1. n - 1 \in 0 .. N /\ n \in 0 .. N /\ Written(m[n - 1]) = Kept(n - 1)
    BY <1>1, <1>4
  <2>2. m[n - 1] \in MergeType(c, es) /\ order[n] \in es /\ m[n] = MergeStep(c, oldest, m[n - 1], order[n])
    BY <1>1, <1>2, <2>1
  <2>3. Written(m[n]) = Written(m[n - 1]) \cup IF D(n) THEN {} ELSE {order[n]}
    BY <2>2, MergeStepWrites
  <2>4. Kept(n) = Kept(n - 1) \cup IF D(n) THEN {} ELSE {order[n]}
    <3> HIDE DEF D
    <3>1. {i \in 1 .. n : ~D(i)} = {i \in 1 .. n - 1 : ~D(i)} \cup IF D(n) THEN {} ELSE {n}
      BY <1>1
    <3>2. QED BY <3>1
  <2>5. QED BY <2>1, <2>3, <2>4
<1>5. \A n \in 0 .. N : n \in Q
  <2> HIDE DEF Q, N
  <2> QED BY <1>1, <1>3, <1>4, UpTo
<1>6. QED BY <1>5

\* Whatever a snapshot that is not older than `oldest' sees of the key of e, it
\* does not see e.
Hidden(es, e, oldest) == \E n \in es : n.k = e.k /\ n.s > e.s /\ n.s <= oldest

\* A deletion that is not needed any more, if it is the newest of its key.
Spent(c, e, oldest) == e.d /\ e.s <= oldest /\ IsBaseLevelForKey(c, e.k)

\* Entries are in the order of their keys, newest first.
LEMMA EntryOrder ==
  ASSUME NEW es \in SUBSET RawEntry
  PROVE  /\ \A x \in es : x.k \in Nat /\ x.s \in Nat
         /\ \A x, y \in es : EntryBefore(x, y) <=> x.k < y.k \/ (x.k = y.k /\ x.s > y.s)
         /\ KeysDistinct(es) => \A x, y \in es : x = y \/ EntryBefore(x, y) \/ EntryBefore(y, x)
<1>1. \A x \in es : x.k \in Nat /\ x.s \in Nat
  BY DEF RawEntry
<1>2. \A x, y \in es : EntryBefore(x, y) <=> x.k < y.k \/ (x.k = y.k /\ x.s > y.s)
  BY DEF EntryBefore, Less, KeyOf, IKey
<1>3. ASSUME KeysDistinct(es), NEW x \in es, NEW y \in es, x # y PROVE EntryBefore(x, y) \/ EntryBefore(y, x)
  <2>1. ~(x.k = y.k /\ x.s = y.s)
    BY <1>3 DEF KeysDistinct
  <2>2. QED BY <1>1, <1>2, <2>1
<1>4. QED BY <1>1, <1>2, <1>3

\* The entry directly before e in the order of a merge, if there is one.
Neighbour(es, e, first, p) ==
  /\ ~first => p \in es /\ EntryBefore(p, e)
  /\ \A n \in es : EntryBefore(n, e) => ~first /\ (n = p \/ EntryBefore(n, p))

\* The loop compares an entry with the one before it; that is as good as
\* comparing it with all.
LEMMA DroppedByNeighbour ==
  ASSUME NEW es \in SUBSET RawEntry, NEW e \in es, NEW oldest \in Nat, oldest < MaxSeq, NEW c, NEW st,
         NEW first \in BOOLEAN, NEW p, Neighbour(es, e, first, p),
         first => st.lastSeq = MaxSeq, ~first => st.user = p.k /\ st.lastSeq = p.s
  PROVE  Dropped(c, st, e, oldest) <=> Hidden(es, e, oldest) \/ Spent(c, e, oldest)
<1> DEFINE newer == IF st.user = e.k THEN st.lastSeq ELSE MaxSeq
<1>1. MaxSeq \in Nat
  BY ConfigAssumption
<1>2. ASSUME newer <= oldest PROVE Hidden(es, e, oldest)
  <2>1. ~first /\ st.user = e.k /\ st.lastSeq <= oldest
    BY <1>1, <1>2
  <2>2. p \in es /\ EntryBefore(p, e) /\ p.k = e.k /\ p.s <= oldest
    BY <2>1 DEF Neighbour
  <2>3. p.s > e.s
    BY <2>2, EntryOrder
  <2>4. QED BY <2>2, <2>3 DEF Hidden
<1>3. ASSUME Hidden(es, e, oldest) PROVE newer <= oldest
  <2>1. PICK n \in es : n.k = e.k /\ n.s > e.s /\ n.s <= oldest
    BY <1>3 DEF Hidden
  <2>2. EntryBefore(n, e)
    BY <2>1, EntryOrder
  <2>3. ~first /\ (n = p \/ EntryBefore(n, p)) /\ p \in es /\ EntryBefore(p, e)
    BY <2>2 DEF Neighbour
  <2>4. p.k = e.k /\ p.s <= n.s
    BY <2>1, <2>3, EntryOrder
  <2>5. p.s <= oldest
    BY <2>1, <2>3, <2>4, EntryOrder
  <2>6. QED BY <2>3, <2>4, <2>5
<1>4. Dropped(c, st, e, oldest) <=> newer <= oldest \/ Spent(c, e, oldest)
  BY DEF Dropped, Spent
<1> HIDE DEF newer
<1>5. QED BY <1>2, <1>3, <1>4

\* In a list of entries, the one before the j-th is its neighbour.
LEMMA ListNeighbour ==
  ASSUME NEW es \in SUBSET RawEntry, KeysDistinct(es), NEW order \in Seq(es), ListedFrom(order, es),
         NEW j \in 1 .. Len(order)
  PROVE  order[j] \in es /\ Neighbour(es, order[j], j = 1, order[j - 1])
<1>1. Len(order) \in Nat /\ \A i \in 1 .. Len(order) : order[i] \in es
  BY LenProperties, ElementOfSeq
<1>2. ASSUME NEW i \in 1 .. Len(order), NEW k \in 1 .. Len(order), i < k
      PROVE  EntryBefore(order[i], order[k])
  <2>1. PICK x \in es : x = order[i]
    BY <1>1
  <2>2. PICK y \in es : y = order[k]
    BY <1>1
  <2>3. x # y /\ ~EntryBefore(y, x)
    BY <1>2, <2>1, <2>2 DEF ListedFrom
  <2>4. EntryBefore(x, y)
    BY ONLY es \in SUBSET RawEntry, KeysDistinct(es), <2>3, EntryOrder
  <2>5. QED BY <2>1, <2>2, <2>4
<1>3. ASSUME j # 1 PROVE order[j - 1] \in es /\ EntryBefore(order[j - 1], order[j])
  <2>1. j - 1 \in 1 .. Len(order) /\ j - 1 < j
    BY <1>1, <1>3
  <2>2. QED BY <1>1, <1>2, <2>1
<1>4. ASSUME NEW n \in es, EntryBefore(n, order[j])
      PROVE  j # 1 /\ (n = order[j - 1] \/ EntryBefore(n, order[j - 1]))
  <2>1. PICK i \in 1 .. Len(order) : order[i] = n
    BY DEF ListedFrom
  <2>2. ~(j < i)
    BY <1>4, <2>1 DEF ListedFrom
  <2>3. i # j
    <3>1. PICK x \in es : x = order[j]
      BY <1>1
    <3>2. EntryBefore(n, x)
      BY <1>4, <3>1
    <3>3. n # x
      BY ONLY es \in SUBSET RawEntry, <3>2, EntryOrder
    <3>4. QED BY <2>1, <3>1, <3>3
  <2>4. j - 1 \in 1 .. Len(order) /\ (i = j - 1 \/ i < j - 1)
    BY <1>1, <2>2, <2>3
  <2>5. n = order[j - 1] \/ EntryBefore(n, order[j - 1])
    BY <1>2, <2>1, <2>4
  <2>6. QED BY <1>1, <2>4, <2>5
<1>5. QED BY <1>1, <1>3, <1>4 DEF Neighbour

\* What the loop has in its hands when it comes to the j-th entry.
LEMMA DroppedIs ==
  ASSUME NEW c \in CompactionType, NEW es \in SUBSET RawEntry, IsFiniteSet(es), KeysDistinct(es),
         NEW oldest \in Nat, oldest < MaxSeq,
         NEW m, MergeRun(m, c, es, oldest), NEW j \in 1 .. Len(InOrder(es, EntryBefore))
  PROVE  Dropped(c, m[j - 1], InOrder(es, EntryBefore)[j], oldest) <=>
           \/ Hidden(es, InOrder(es, EntryBefore)[j], oldest)
           \/ Spent(c, InOrder(es, EntryBefore)[j], oldest)
<1> DEFINE order == InOrder(es, EntryBefore)
<1>1. order \in Seq(es) /\ ListedFrom(order, es)
  BY EntriesInOrder
<1>2. /\ m[0] = MergeStart
      /\ \A n \in 0 .. Len(order) : m[n] \in MergeType(c, es)
      /\ \A n \in 1 .. Len(order) : m[n] = MergeStep(c, oldest, m[n - 1], order[n])
  BY DEF MergeRun
<1> HIDE DEF order
<1>3. Len(order) \in Nat /\ \A i \in 1 .. Len(order) : order[i] \in es
  BY <1>1, LenProperties, ElementOfSeq
<1>4. j \in 1 .. Len(order)
  BY DEF order
<1>5. order[j] \in es /\ Neighbour(es, order[j], j = 1, order[j - 1])
  BY <1>1, <1>4, ListNeighbour
<1>6. j = 1 => m[j - 1].lastSeq = MaxSeq
  BY <1>2 DEF MergeStart
<1>7. ASSUME j # 1 PROVE m[j - 1].user = order[j - 1].k /\ m[j - 1].lastSeq = order[j - 1].s
  <2>1. PICK i \in 1 .. Len(order) : i = j - 1
    BY <1>3, <1>4, <1>7
  <2>2. i - 1 \in 0 .. Len(order)
    BY <1>3
  <2>3. m[i - 1] \in MergeType(c, es) /\ m[i] = MergeStep(c, oldest, m[i - 1], order[i]) /\ order[i] \in es
    BY <1>2, <1>3, <2>2
  <2>4. m[i].user = order[i].k /\ m[i].lastSeq = order[i].s
    BY ONLY <2>3 DEF MergeStep
  <2>5. QED BY <2>1, <2>4
<1>8. PICK first \in BOOLEAN : first <=> j = 1
  OBVIOUS
<1>9. PICK p : p = order[j - 1]
  OBVIOUS
<1>10. PICK st : st = m[j - 1]
  OBVIOUS
<1>11. PICK e \in es : e = order[j]
  BY <1>5
<1>12. Neighbour(es, e, first, p) /\ (first => st.lastSeq = MaxSeq) /\ (~first => st.user = p.k /\ st.lastSeq = p.s)
  BY <1>5, <1>6, <1>7, <1>8, <1>9, <1>10, <1>11 DEF Neighbour
<1>13. Dropped(c, st, e, oldest) <=> Hidden(es, e, oldest) \/ Spent(c, e, oldest)
  BY ONLY es \in SUBSET RawEntry, oldest \in Nat, oldest < MaxSeq, <1>12, DroppedByNeighbour
<1>14. QED BY <1>10, <1>11, <1>13 DEF order

\* DoCompactionWork, which sees its entries one by one and cuts them into files
\* as it goes, keeps exactly the entries that no newer one hides from all
\* snapshots and that are not deletions of what is not there.
THEOREM MergeKeeps ==
  ASSUME NEW c \in CompactionType, NEW es \in SUBSET RawEntry, IsFiniteSet(es), KeysDistinct(es),
         NEW oldest \in Nat, oldest < MaxSeq
  PROVE  InOutputs(MergedOutputs(c, es, oldest)) =
           {e \in es : ~Hidden(es, e, oldest) /\ ~Spent(c, e, oldest)}
<1>1. PICK order : order = InOrder(es, EntryBefore)
  OBVIOUS
<1>2. PICK m : MergeRun(m, c, es, oldest)
  BY MergeRunExists
<1>3. PICK N \in Nat : N = Len(order)
  <2>1. order \in Seq(es)
    BY <1>1, EntriesInOrder
  <2>2. QED BY <2>1, LenProperties
<1>4. ListedFrom(order, es) /\ \A i \in 1 .. N : order[i] \in es
  <2>1. order \in Seq(es) /\ ListedFrom(order, es)
    BY <1>1, EntriesInOrder
  <2>2. QED BY <1>3, <2>1, ElementOfSeq
<1> DEFINE end == m[N]
<1>5. /\ end \in MergeType(c, es)
      /\ MergedOutputs(c, es, oldest) = IF end.open = {} THEN end.outs ELSE Append(end.outs, end.open)
  BY <1>1, <1>2, <1>3 DEF MergeRun
<1>6. InOutputs(MergedOutputs(c, es, oldest)) = Written(end)
  <2> HIDE DEF end
  <2>1. end.outs \in Seq((SUBSET es) \ {{}}) /\ end.open \in SUBSET es
    BY <1>5 DEF MergeType
  <2>2. CASE end.open = {}
    BY <1>5, <2>2 DEF Written
  <2>3. CASE end.open # {}
    <3>1. end.open \in (SUBSET es) \ {{}}
      BY <2>1, <2>3
    <3>2. InOutputs(Append(end.outs, end.open)) = InOutputs(end.outs) \cup end.open
      BY <2>1, <3>1, OneMoreOutput
    <3>3. QED BY <1>5, <2>3, <3>2 DEF Written
  <2>4. QED BY <2>2, <2>3
<1>7. Written(end) = {order[j] : j \in {i \in 1 .. N : ~Dropped(c, m[i - 1], order[i], oldest)}}
  BY <1>1, <1>2, <1>3, WrittenSoFar
<1>8. \A j \in 1 .. N : Dropped(c, m[j - 1], order[j], oldest) <=>
                          Hidden(es, order[j], oldest) \/ Spent(c, order[j], oldest)
  BY <1>1, <1>2, <1>3, DroppedIs
<1>9. \A e \in es : \E j \in 1 .. N : order[j] = e
  BY <1>3, <1>4 DEF ListedFrom
<1>10. QED BY <1>4, <1>6, <1>7, <1>8, <1>9

\* What a lookup sees has a newest entry, and only one.
LEMMA LookupFinds ==
  ASSUME NEW es \in SUBSET RawEntry, KeysDistinct(es), NEW u, NEW s \in Nat
  PROVE  /\ \A e \in es : e.k = u /\ e.s <= s => Lookup(es, u, s) # {}
         /\ \A e \in Lookup(es, u, s) : e \in es /\ e.k = u /\ e.s <= s /\ Lookup(es, u, s) = {e}
<1> DEFINE seen == {e \in es : e.k = u /\ e.s <= s}
           ss == {e.s : e \in seen}
<1>1. \A x \in es : x.s \in Nat
  BY EntryOrder
<1>2. Lookup(es, u, s) = {e \in seen : \A o \in seen : o.s <= e.s}
  BY DEF Lookup
<1>3. ASSUME NEW e \in Lookup(es, u, s) PROVE e \in es /\ e.k = u /\ e.s <= s /\ Lookup(es, u, s) = {e}
  <2>1. e \in es /\ e.k = u /\ e.s <= s /\ \A o \in seen : o.s <= e.s
    BY <1>2, <1>3
  <2>2. ASSUME NEW f \in Lookup(es, u, s) PROVE f = e
    <3>1. f \in es /\ f.k = u /\ f.s <= e.s /\ e.s <= f.s
      BY <1>2, <2>1, <2>2
    <3>2. f.s = e.s
      BY <1>1, <2>1, <3>1
    <3>3. QED BY <2>1, <3>1, <3>2 DEF KeysDistinct
  <2>3. QED BY <1>3, <2>1, <2>2
<1>4. ASSUME NEW e \in es, e.k = u, e.s <= s PROVE Lookup(es, u, s) # {}
  <2>1. e.s \in ss /\ ss \subseteq Nat
    BY <1>1, <1>4
  <2>2. \A x \in ss : x <= s
    OBVIOUS
  <2>3. Max(ss) \in ss /\ \A x \in ss : x <= Max(ss)
    <3> HIDE DEF ss
    <3> QED BY <2>1, <2>2, MaxOfNats
  <2>4. PICK f \in seen : f.s = Max(ss)
    BY <2>3
  <2>5. \A o \in seen : o.s <= f.s
    BY <2>3, <2>4
  <2>6. QED BY <1>2, <2>4, <2>5
<1>5. QED BY <1>3, <1>4

\* A merge takes no answer away from a snapshot that is not older than `oldest':
\* a lookup finds in its outputs what it found in its inputs, or nothing where
\* it found a deletion of a key that no deeper level has.
THEOREM MergePreservesReads ==
  ASSUME NEW c \in CompactionType, NEW es \in SUBSET RawEntry, IsFiniteSet(es), KeysDistinct(es),
         NEW oldest \in Nat, oldest < MaxSeq, NEW u, NEW s \in Nat, oldest <= s,
         NEW kept, kept = InOutputs(MergedOutputs(c, es, oldest))
  PROVE  \/ Lookup(kept, u, s) = Lookup(es, u, s)
         \/ /\ Lookup(kept, u, s) = {} /\ IsBaseLevelForKey(c, u)
            /\ \A e \in Lookup(es, u, s) : e.d
<1>1. kept = {e \in es : ~Hidden(es, e, oldest) /\ ~Spent(c, e, oldest)}
  BY MergeKeeps
<1>2. PICK K \in SUBSET es : K = kept
  BY <1>1
<1>3. \A e \in es : e \in K <=> ~Hidden(es, e, oldest) /\ ~Spent(c, e, oldest)
  BY <1>1, <1>2
<1>4. K \in SUBSET RawEntry /\ IsFiniteSet(K) /\ KeysDistinct(K)
  BY <1>2, FS_Subset DEF KeysDistinct
<1>5. \A x \in es : x.s \in Nat
  BY EntryOrder
<1>6. SUFFICES \/ Lookup(K, u, s) = Lookup(es, u, s)
               \/ /\ Lookup(K, u, s) = {} /\ IsBaseLevelForKey(c, u)
                  /\ \A e \in Lookup(es, u, s) : e.d
  BY <1>2
<1>7. ASSUME NEW f \in Lookup(K, u, s) PROVE f \in K /\ f \in es /\ f.k = u /\ f.s <= s /\ Lookup(K, u, s) = {f}
  BY <1>4, LookupFinds
<1>8. CASE Lookup(es, u, s) = {}
  <2>1. ASSUME NEW f \in Lookup(K, u, s) PROVE FALSE
    BY <1>7, <1>8, LookupFinds
  <2>2. QED BY <1>8, <2>1
<1>9. ASSUME NEW e \in Lookup(es, u, s)
      PROVE  \/ Lookup(K, u, s) = {e}
             \/ Lookup(K, u, s) = {} /\ IsBaseLevelForKey(c, u) /\ e.d
  <2>1. /\ e \in es /\ e.k = u /\ e.s <= s
        /\ \A o \in es : o.k = u /\ o.s <= s => o.s <= e.s
    BY <1>9 DEF Lookup
  <2>2. ~Hidden(es, e, oldest)
    <3>1. ASSUME NEW n \in es, n.k = e.k, n.s > e.s, n.s <= oldest PROVE FALSE
      BY <1>5, <2>1, <3>1
    <3>2. QED BY <3>1 DEF Hidden
  <2>3. CASE ~Spent(c, e, oldest)
    <3>1. e \in K
      BY <1>3, <2>1, <2>2, <2>3
    <3>2. e \in Lookup(K, u, s)
      BY <1>2, <2>1, <3>1 DEF Lookup
    <3>3. QED BY <1>7, <3>2
  <2>4. CASE Spent(c, e, oldest)
    <3>1. e.d /\ e.s <= oldest /\ IsBaseLevelForKey(c, u) /\ e \notin K
      BY <1>3, <2>1, <2>4 DEF Spent
    <3>2. ASSUME NEW f \in Lookup(K, u, s) PROVE FALSE
      <4>1. f \in K /\ f \in es /\ f.k = u /\ f.s <= e.s
        BY <1>7, <2>1, <3>2
      <4>2. f # e /\ f.s # e.s
        BY <2>1, <3>1, <4>1 DEF KeysDistinct
      <4>3. e.s > f.s
        BY <1>5, <2>1, <4>1, <4>2
      <4>4. Hidden(es, f, oldest)
        BY <2>1, <3>1, <4>1, <4>3 DEF Hidden
      <4>5. QED BY <1>3, <4>1, <4>4
    <3>3. QED BY <3>1, <3>2
  <2>5. QED BY <2>3, <2>4
<1>10. CASE Lookup(es, u, s) # {}
  <2>1. PICK e \in Lookup(es, u, s) : Lookup(es, u, s) = {e}
    BY <1>10, LookupFinds
  <2>2. QED BY <1>9, <2>1
<1>11. QED BY <1>8, <1>10

-----------------------------------------------------------------------------
(* Reading through the levels of a version.                                  *)

\* The binary search of a level does not pass the file of the newest entry that
\* the snapshot sees, although an older entry may be in the next file.
LEMMA SearchFindsNewest ==
  ASSUME NEW fs \in FileSets, NEW tab, NEW u \in Nat, NEW s \in Nat, NEW f \in fs,
         \A g \in fs : Described(g, tab[g.num]) /\ tab[g.num] \in SUBSET RawEntry,
         \A g, h \in fs : g # h => Less(g.large, h.small) \/ Less(h.large, g.small),
         NEW e \in tab[f.num], e.k = u, e.s <= s,
         \A g \in fs : \A o \in tab[g.num] : o.k = u /\ o.s <= s => o.s <= e.s
  PROVE  FindFile(fs, IKey(u, s)) = {f}
<1> DEFINE ik == IKey(u, s)
           right == {g \in fs : LessEq(ik, g.large)}
<1>1. right \in FileSets
  <2>1. right \in SUBSET fs /\ fs \in SUBSET FileType /\ IsFiniteSet(fs)
    BY DEF FileSets
  <2> HIDE DEF right
  <2>2. IsFiniteSet(right)
    BY <2>1, FS_Subset
  <2>3. QED BY <2>1, <2>2 DEF FileSets
<1>2. ik \in IKeyType /\ ik.u = u /\ ik.s = s
  BY DEF IKey, IKeyType
<1>3. \A g \in fs : g.small \in IKeyType /\ g.large \in IKeyType
  BY DEF FileSets, FileType
<1>4. e \in RawEntry /\ KeyOf(e) \in IKeyType /\ KeyOf(e).u = u /\ KeyOf(e).s = e.s
  BY DEF Described, RawEntry, KeyOf, IKey, IKeyType
<1>5. LessEq(f.small, KeyOf(e)) /\ LessEq(KeyOf(e), f.large)
  BY DEF Described
<1>6. LessEq(ik, KeyOf(e))
  BY <1>2, <1>4 DEF LessEq, Less, IKeyType
<1>7. f \in right
  <2>1. LessEq(ik, f.large)
    <3> HIDE DEF ik
    <3> QED BY <1>2, <1>3, <1>4, <1>5, <1>6, LessOrder DEF LessEq
  <2>2. QED BY <2>1
<1>8. PICK g \in right : g = FirstFile(right) /\ ~BySmallestKey(f, g)
  <2> HIDE DEF right
  <2> QED BY <1>1, <1>7, ExtremeFiles
<1>9. FindFile(fs, ik) = {g}
  BY <1>7, <1>8 DEF FindFile
<1>10. ASSUME g # f PROVE FALSE
  <2>1. g \in fs /\ LessEq(ik, g.large)
    BY <1>8
  <2> HIDE DEF ik, right
  <2>2. CASE Less(f.large, g.small)
    <3>1. Less(f.small, g.small)
      BY <1>3, <1>4, <1>5, <2>1, <2>2, LessOrder DEF LessEq
    <3>2. QED BY <1>8, <3>1 DEF BySmallestKey
  <2>3. CASE Less(g.large, f.small)
    <3>1. Less(g.large, KeyOf(e))
      BY <1>3, <1>4, <1>5, <2>1, <2>3, LessOrder DEF LessEq
    <3>2. g.large.u = u /\ g.large.s <= s /\ g.large.s > e.s
      BY <1>2, <1>3, <1>4, <2>1, <3>1 DEF LessEq, Less, IKeyType
    <3>3. PICK o \in tab[g.num] : KeyOf(o) = g.large
      BY <2>1 DEF Described
    <3>4. o.k = u /\ o.s = g.large.s
      BY <3>2, <3>3 DEF KeyOf, IKey
    <3>5. o.s <= e.s
      BY <2>1, <3>2, <3>4
    <3>6. e.s \in Nat /\ o.s \in Nat
      BY <1>3, <1>4, <2>1, <3>4 DEF RawEntry, IKeyType
    <3>7. QED BY <3>2, <3>4, <3>5, <3>6
  <2>4. QED BY <1>10, <2>1, <2>2, <2>3
<1>11. QED BY <1>9, <1>10

\* Version::Get finds the newest entry that the snapshot sees of all the files
\* of the version, with its one binary search on each level and its stop at the
\* first file that knows the key.
THEOREM GetFindsNewest ==
  ASSUME NEW v \in VersionType, NEW tab, \A f \in VersionFiles(v) : tab[f.num] \in SUBSET RawEntry,
         Disjoint(v), WellPlaced(v, tab), NEW u \in Nat, NEW s \in Nat
  PROVE  VersionGet(v, tab, u, s) = Lookup(InVersion(v, tab), u, s)
<1> DEFINE A == InVersion(v, tab)
           found(x) == Lookup(tab[x[2].num], u, s)
           hits == {x \in AllConsulted(v, u, s) : found(x) # {}}
           first == {h \in hits : \A o \in hits \ {h} : ReadBefore(h, o)}
<1>1. VersionGet(v, tab, u, s) = UNION {found(x) : x \in first}
  BY DEF VersionGet
<1>2. \A l \in Levels : v[l] \in FileSets
  BY DEF VersionType
<1>3. \A x \in AllConsulted(v, u, s) : x \in Placed(v) /\ x[1] \in Levels /\ x[2] \in Consulted(v, x[1], u, s)
  <2>1. ASSUME NEW l \in Levels, NEW f \in Consulted(v, l, u, s) PROVE f \in v[l]
    BY <1>2, <2>1, FindFileType DEF Consulted
  <2>2. QED BY <2>1 DEF AllConsulted, Placed
<1>4. \A x \in Placed(v) : x[1] \in Levels /\ x[2] \in v[x[1]] /\ x[2] \in FileType /\ x = <<x[1], x[2]>>
  BY <1>2 DEF Placed, FileSets
<1>5. \A x \in Placed(v) : tab[x[2].num] \subseteq A /\ tab[x[2].num] \in SUBSET RawEntry
  BY <1>4 DEF InVersion, VersionFiles
<1>6. A \in SUBSET RawEntry /\ KeysDistinct(A) /\ \A a \in A : \E x \in Placed(v) : a \in tab[x[2].num]
  BY <1>5 DEF InVersion, WellPlaced
<1>7. \A x \in Placed(v) : \A e \in found(x) : e \in tab[x[2].num] /\ e \in A /\ e.k = u /\ e.s <= s
  BY <1>5 DEF Lookup
<1> HIDE DEF A
<1>8. /\ \A a \in A : a.k = u /\ a.s <= s => Lookup(A, u, s) # {}
      /\ \A a \in Lookup(A, u, s) : a \in A /\ a.k = u /\ a.s <= s /\ Lookup(A, u, s) = {a}
  BY <1>6, LookupFinds
<1>9. CASE Lookup(A, u, s) = {}
  <2>1. ASSUME NEW x \in hits PROVE FALSE
    <3>1. x \in Placed(v)
      BY <1>3
    <3>2. PICK a \in found(x) : TRUE
      OBVIOUS
    <3>3. QED BY <1>7, <1>8, <1>9, <3>1, <3>2
  <2>2. UNION {found(x) : x \in first} = {}
    <3>1. first \subseteq hits
      OBVIOUS
    <3> HIDE DEF first, hits
    <3>2. QED BY <2>1, <3>1
  <2>3. QED BY <1>1, <1>9, <2>2 DEF A
<1>10. ASSUME NEW e \in Lookup(A, u, s) PROVE UNION {found(x) : x \in first} = {e}
  <2>1. e \in A /\ e.k = u /\ e.s <= s /\ e.s \in Nat
    BY <1>6, <1>8 DEF RawEntry
  <2>2. \A o \in A : o.k = u /\ o.s <= s => o.s <= e.s
    BY <1>10 DEF Lookup
  <2>3. PICK x \in Placed(v) : e \in tab[x[2].num]
    BY <1>6, <2>1
  <2>l. PICK l \in Levels : x[1] = l
    BY <1>4
  <2>4. PICK f \in v[l] : x = <<l, f>> /\ e \in tab[f.num] /\ f \in FileType
    BY <1>4, <2>3, <2>l
  <2>5. found(x) = {e}
    <3>1. tab[x[2].num] \subseteq A /\ KeysDistinct(tab[x[2].num]) /\ tab[x[2].num] \in SUBSET RawEntry
      BY <1>5, <1>6 DEF KeysDistinct
    <3>2. e \in found(x)
      BY <2>1, <2>2, <2>3, <3>1 DEF Lookup
    <3>3. QED BY <3>1, <3>2, LookupFinds
  <2>6. x \in AllConsulted(v, u, s)
    <3>1. f \in Consulted(v, l, u, s)
      <4>1. Described(f, tab[f.num])
        BY <2>3, <2>4 DEF WellPlaced
      <4>2. LessEq(f.small, KeyOf(e)) /\ LessEq(KeyOf(e), f.large) /\ KeyOf(e).u = u
        BY <2>1, <2>4, <4>1 DEF Described, KeyOf, IKey
      <4>3. f.small.u <= u /\ u <= f.large.u
        BY <2>4, <4>2 DEF LessEq, Less, FileType, IKeyType
      <4>4. CASE l = 0
        BY <4>3, <4>4 DEF Consulted
      <4>5. CASE l # 0
        <5>1. \A g \in v[l] : <<l, g>> \in Placed(v)
          BY DEF Placed
        <5>2. \A g \in v[l] : Described(g, tab[g.num]) /\ tab[g.num] \in SUBSET RawEntry /\ tab[g.num] \subseteq A
          BY <1>5, <5>1 DEF WellPlaced
        <5>3. \A g, h \in v[l] : g # h => Less(g.large, h.small) \/ Less(h.large, g.small)
          BY <4>5 DEF Disjoint
        <5>4. FindFile(v[l], IKey(u, s)) = {f}
          <6>1. \A g \in v[l] : \A o \in tab[g.num] : o.k = u /\ o.s <= s => o.s <= e.s
            BY <2>2, <5>2
          <6>2. \A g \in v[l] : Described(g, tab[g.num]) /\ tab[g.num] \in SUBSET RawEntry
            BY <5>2
          <6>3. PICK fs \in FileSets : fs = v[l]
            BY <1>2
          <6>4. FindFile(fs, IKey(u, s)) = {f}
            BY ONLY <2>1, <2>4, <5>3, <6>1, <6>2, <6>3, fs \in FileSets, f \in v[l], u \in Nat, s \in Nat, SearchFindsNewest
          <6>5. QED BY <6>3, <6>4
        <5>5. QED BY <4>3, <4>5, <5>4 DEF Consulted
      <4>6. QED BY <4>4, <4>5
    <3>2. QED BY <2>4, <3>1 DEF AllConsulted
  <2>7. x \in hits
    BY <2>5, <2>6
  <2>8. ASSUME NEW o \in hits, o # x PROVE ReadBefore(x, o) /\ ~ReadBefore(o, x)
    <3>1. o \in AllConsulted(v, u, s) /\ o \in Placed(v) /\ o[1] \in Levels /\ o[2] \in Consulted(v, o[1], u, s)
      BY <1>3
    <3>m. PICK m \in Levels : o[1] = m
      BY <3>1
    <3>2. PICK g \in v[m] : o = <<m, g>> /\ g \in FileType /\ g \in Consulted(v, m, u, s)
      BY <1>4, <3>1, <3>m
    <3>3. PICK a \in found(o) : TRUE
      OBVIOUS
    <3>4. a \in tab[o[2].num] /\ a \in A /\ a.k = u /\ a.s <= s /\ a.s \in Nat
      BY <1>6, <1>7, <3>1, <3>3 DEF RawEntry
    <3>5. ~Above(o, x)
      <4>1. a.s <= e.s
        BY <2>2, <3>4
      <4>2. Above(o, x) => a.s > e.s
        BY <2>1, <2>3, <3>1, <3>4 DEF WellPlaced
      <4>3. QED BY <2>1, <3>4, <4>1, <4>2
    <3>6. l \in Int /\ m \in Int /\ f.num \in Nat /\ g.num \in Nat
      BY <2>4, <3>2, ConfigAssumption DEF Levels, FileType
    <3>7. x[1] = l /\ x[2] = f /\ o[1] = m /\ o[2] = g
      BY <2>4, <3>2
    <3>8. CASE l # m
      BY <3>5, <3>6, <3>7, <3>8 DEF Above, ReadBefore
    <3>9. CASE l = m /\ l = 0
      <4>1. f.num # g.num
        BY <2>4, <2>8, <3>2, <3>9 DEF WellPlaced
      <4>2. QED BY <3>5, <3>6, <3>7, <3>9, <4>1 DEF Above, ReadBefore
    <3>10. CASE l = m /\ l # 0
      <4>1. f \in Consulted(v, l, u, s) /\ g \in Consulted(v, l, u, s)
        BY <1>3, <2>6, <3>2, <3>7, <3>10
      <4>2. f = g
        BY <1>2, <3>10, <4>1, FindFileType DEF Consulted
      <4>3. QED BY <2>4, <2>8, <3>2, <3>10, <4>2
    <3>11. QED BY <3>8, <3>9, <3>10
  <2>9. first = {x}
    <3> HIDE DEF hits
    <3> QED BY <2>7, <2>8
  <2>10. QED
    <3> HIDE DEF first
    <3> QED BY <2>5, <2>9
<1>11. CASE Lookup(A, u, s) # {}
  <2>1. PICK e \in Lookup(A, u, s) : Lookup(A, u, s) = {e}
    BY <1>8, <1>11
  <2>2. QED BY <1>1, <1>10, <2>1 DEF A
<1>12. QED BY <1>9, <1>11 DEF A

-----------------------------------------------------------------------------
(* The types of the state.                                                   *)

Ops == [k : Keys, d : BOOLEAN]

EntrySets == {es \in SUBSET EntryType : IsFiniteSet(es)}

\* What a record of a log and what a table holds.
Groups == EntrySets \ {{}}

OptNat == Nat \cup {None}

Adds == {S \in SUBSET (Levels \X FileType) : IsFiniteSet(S)}

EditType ==
  [log : OptNat, next : OptNat, last : OptNat, ptrs : SUBSET (Levels \X IKeyType),
   del : SUBSET (Levels \X Nat), add : Adds]

FilledEdit ==
  [log : Nat, next : Nat, last : Nat, ptrs : SUBSET (Levels \X IKeyType),
   del : SUBSET (Levels \X Nat), add : Adds]

FileOf(R) == [recs : Seq(R), sync : Nat, torn : BOOLEAN, bad : SUBSET Nat]

IsDir(d, R) ==
  /\ DOMAIN d \subseteq Nat /\ IsFiniteSet(DOMAIN d)
  /\ d = [n \in DOMAIN d |-> d[n]] /\ \A n \in DOMAIN d : d[n] \in FileOf(R)

IsDisk(d) ==
  /\ d \in [log : {d.log}, tab : {d.tab}, man : {d.man}, cur : Nat]
  /\ IsDir(d.log, Groups) /\ IsDir(d.tab, Groups) /\ IsDir(d.man, EditType)

VSType ==
  {v \in [next : Nat, man : Nat, last : Nat, log : Nat, ver : VersionType,
          ptr : [Levels -> IKeyType], seek : SUBSET (Levels \X FileType)] :
     v.seek \in SeekType(v.ver)}

DBType ==
  [phase : {"closed", "recovering", "manifest", "open"}, mem : Nat, imm : Nat,
   pending : SUBSET Nat, err : BOOLEAN, shut : BOOLEAN, sched : BOOLEAN, manual : BOOLEAN,
   queue : Seq(Threads), waiting : SUBSET (Threads \cup {Closer}),
   todo : Seq([es : EntrySets, mark : Nat]), add : Adds]

IsMems(m) ==
  DOMAIN m \subseteq Nat /\ m = [n \in DOMAIN m |-> m[n]] /\ \A n \in DOMAIN m : m[n] \in EntrySets

WriterType ==
  {w \in [pc : {"idle", "queued", "delayed", "logged", "inserted"}, batch : Seq(Ops),
          sync : BOOLEAN, ents : EntrySets, group : Seq(Threads)] :
     w.pc \in {"logged", "inserted"} => w.ents # {}}

WorkType == [c : CompactionType, manual : BOOLEAN, outs : FileSets, todo : Seq(Groups)]

BGType ==
  {b \in [pc : {"idle", "build", "merge", "install"}, job : {"none", "flush", "move", "compact"},
          num : Nat, edit : FilledEdit, comp : SUBSET WorkType] :
     b.pc = "install" /\ b.job = "compact" => b.comp # {}}

CompactType ==
  [pc : {"idle", "memtable", "levels"}, level : 0 .. NumLevels - 2, max : 0 .. NumLevels - 1,
   lo : Nat, begin : Nat, end : Nat, done : BOOLEAN]

PinType == [snap : Nat, mem : Nat, imm : Nat, ver : VersionType]

Typed ==
  /\ IsDisk(disk) /\ vs \in VSType /\ db \in DBType /\ IsMems(mems)
  /\ wr \in [Threads -> WriterType] /\ bg \in BGType /\ cr \in CompactType
  /\ rd \in [Readers -> SUBSET PinType] /\ snaps \in SUBSET Nat
  /\ hist \in SUBSET EntrySets /\ synced \in SUBSET EntrySets

\* A database that is not open has no client call and no background call.
Quiet ==
  db.phase # "open" =>
    /\ rd = [r \in Readers |-> {}] /\ wr = [t \in Threads |-> IdleWriter]
    /\ bg.pc = "idle" /\ bg.comp = {} /\ cr = IdleCompact
    /\ db.queue = <<>> /\ db.waiting = {} /\ db.imm = 0
    /\ ~db.shut /\ ~db.err /\ ~db.sched /\ ~db.manual

\* The memtables the database and the readers point to are there.
MemRefs ==
  /\ db.phase \in {"manifest", "open"} => db.mem \in DOMAIN mems
  /\ db.imm # 0 => db.imm \in DOMAIN mems
  /\ \A r \in Readers : \A p \in rd[r] : p.mem \in DOMAIN mems /\ (p.imm # 0 => p.imm \in DOMAIN mems)
  /\ bg.pc = "build" => db.imm # 0

\* The background thread works for a call that is scheduled; work there is
\* means a call is scheduled; a database being closed has no other client.
Scheduled ==
  /\ bg.pc # "idle" => db.sched
  /\ db.phase = "open" /\ ~db.shut /\ ~db.err /\ (db.imm # 0 \/ db.manual \/ NeedsCompaction(vs)) => db.sched
  /\ db.shut => db.queue = <<>> /\ cr.pc = "idle"
  /\ WaitersAreSignalled

Inv == Typed /\ Quiet /\ MemRefs /\ Scheduled

-----------------------------------------------------------------------------
(* Files and directories.                                                    *)

\* Entries are entries of tables, and finite sets of them stay so.
LEMMA EntryFacts ==
  /\ EntryType \subseteq RawEntry
  /\ \A es, fs \in EntrySets : es \cup fs \in EntrySets
  /\ \A es \in EntrySets : \A fs \in SUBSET es : fs \in EntrySets
  /\ {} \in EntrySets
<1>1. EntryType \subseteq RawEntry
  BY DBAssumption DEF EntryType, RawEntry
<1>2. ASSUME NEW es \in EntrySets, NEW fs \in EntrySets PROVE es \cup fs \in EntrySets
  BY FS_Union DEF EntrySets
<1>3. ASSUME NEW es \in EntrySets, NEW fs \in SUBSET es PROVE fs \in EntrySets
  BY FS_Subset DEF EntrySets
<1>4. {} \in EntrySets
  BY FS_EmptySet DEF EntrySets
<1>5. QED BY <1>1, <1>2, <1>3, <1>4

\* The files actions make: new ones, longer ones, synced ones.
LEMMA FileFacts ==
  ASSUME NEW R
  PROVE  /\ \A recs \in Seq(R) : NewFile(recs) \in FileOf(R)
         /\ \A f \in FileOf(R) : Synced(f) \in FileOf(R)
         /\ \A f \in FileOf(R), x \in R : Appended(f, x) \in FileOf(R)
<1>1. ASSUME NEW recs \in Seq(R) PROVE NewFile(recs) \in FileOf(R)
  BY LenProperties DEF NewFile, FileOf
<1>2. ASSUME NEW f \in FileOf(R) PROVE Synced(f) \in FileOf(R)
  BY LenProperties DEF Synced, FileOf
<1>3. ASSUME NEW f \in FileOf(R), NEW x \in R PROVE Appended(f, x) \in FileOf(R)
  <2>1. f \in [recs : Seq(R), sync : Nat, torn : BOOLEAN, bad : SUBSET Nat]
    BY DEF FileOf
  <2>2. Append(f.recs, x) \in Seq(R) /\ Len(Append(f.recs, x)) = Len(f.recs) + 1 /\ Len(f.recs) \in Nat
    BY <2>1, AppendProperties, LenProperties
  <2> DEFINE y == Append(f.recs, x)
  <2>3. Appended(f, x) = [f EXCEPT !.recs = y] /\ y \in Seq(R)
    BY <2>2 DEF Appended
  <2> HIDE DEF y
  <2>4. QED BY <2>1, <2>3 DEF FileOf
<1>4. QED BY <1>1, <1>2, <1>3

\* What the files actions make hold.
LEMMA FileParts ==
  ASSUME NEW R, NEW f \in FileOf(R)
  PROVE  /\ f.recs \in Seq(R) /\ f.sync \in Nat /\ Len(f.recs) \in Nat /\ f.torn \in BOOLEAN /\ f.bad \subseteq Nat
         /\ Synced(f).recs = f.recs /\ Synced(f).torn = f.torn /\ Synced(f).bad = f.bad
         /\ Synced(f).sync = IF f.bad = {} THEN Len(f.recs) ELSE f.sync
         /\ \A x : /\ Appended(f, x).recs = Append(f.recs, x) /\ Appended(f, x).sync = f.sync
                   /\ Appended(f, x).torn = f.torn /\ Appended(f, x).bad = f.bad
<1>1. f \in [recs : Seq(R), sync : Nat, torn : BOOLEAN, bad : SUBSET Nat]
  BY DEF FileOf
<1>2. f.recs \in Seq(R) /\ f.sync \in Nat /\ Len(f.recs) \in Nat /\ f.torn \in BOOLEAN /\ f.bad \subseteq Nat
  BY <1>1, LenProperties
<1>3. /\ Synced(f).recs = f.recs /\ Synced(f).torn = f.torn /\ Synced(f).bad = f.bad
      /\ Synced(f).sync = IF f.bad = {} THEN Len(f.recs) ELSE f.sync
  BY <1>1 DEF Synced
<1>4. \A x : /\ Appended(f, x).recs = Append(f.recs, x) /\ Appended(f, x).sync = f.sync
            /\ Appended(f, x).torn = f.torn /\ Appended(f, x).bad = f.bad
  BY <1>1 DEF Appended
<1>5. QED BY <1>2, <1>3, <1>4

\* A file and the same with x appended, where a reader may find it or not.
Grows(f, x, g) ==
  /\ g.recs = Append(f.recs, x) /\ g.sync = f.sync /\ g.torn = f.torn
  /\ g.bad \in {f.bad, f.bad \cup {Len(f.recs) + 1}} /\ (~f.torn => g.bad = f.bad)

\* AddRecord.
LEMMA AppendsFacts ==
  ASSUME NEW R, NEW f \in FileOf(R), NEW x \in R, NEW g \in Appends(f, x)
  PROVE  g \in FileOf(R) /\ Grows(f, x, g)
<1> DEFINE a == Appended(f, x)
<1>1. /\ a \in FileOf(R) /\ a.recs = Append(f.recs, x) /\ a.sync = f.sync /\ a.torn = f.torn /\ a.bad = f.bad
      /\ Len(f.recs) \in Nat /\ f.bad \subseteq Nat /\ f.torn \in BOOLEAN
  BY FileFacts, FileParts
<1>2. g = a \/ (f.torn /\ g = [a EXCEPT !.bad = @ \cup {Len(f.recs) + 1}])
  BY DEF Appends
<1> HIDE DEF a
<1>3. CASE g = a
  BY <1>1, <1>3 DEF Grows
<1>4. CASE f.torn /\ g = [a EXCEPT !.bad = @ \cup {Len(f.recs) + 1}]
  <2>1. a \in [recs : Seq(R), sync : Nat, torn : BOOLEAN, bad : SUBSET Nat]
    BY <1>1 DEF FileOf
  <2> DEFINE b == a.bad \cup {Len(f.recs) + 1}
  <2>2. b \in SUBSET Nat /\ g = [a EXCEPT !.bad = b]
    BY <1>1, <1>4
  <2> HIDE DEF b
  <2>3. g.recs = a.recs /\ g.sync = a.sync /\ g.torn = a.torn /\ g.bad = b /\ g \in FileOf(R)
    BY <2>1, <2>2 DEF FileOf
  <2>4. QED BY <1>1, <1>4, <2>3 DEF Grows, b
<1>5. QED BY <1>2, <1>3, <1>4

\* An append that failed after all.
LEMMA TornFacts ==
  ASSUME NEW R, NEW f \in FileOf(R)
  PROVE  /\ Torn(f).recs = Front(f.recs) /\ Torn(f).sync = f.sync /\ Torn(f).torn /\ Torn(f).bad = f.bad \ {Len(f.recs)}
         /\ Front(f.recs) \in Seq(R) => Torn(f) \in FileOf(R)
BY FileParts DEF Torn, FileOf

\* A file after a crash.
LEMMA CutFacts ==
  ASSUME NEW R, NEW f \in FileOf(R), NEW n \in CutPoints(f)
  PROVE  /\ CutAt(f, n) \in FileOf(R)
         /\ Len(CutAt(f, n).recs) = n /\ CutAt(f, n).sync = n /\ f.sync <= n /\ n <= Len(f.recs)
         /\ CutAt(f, n).recs = SubSeq(f.recs, 1, n)
         /\ CutAt(f, n).torn = f.torn /\ CutAt(f, n).bad = f.bad \cap 1 .. n
<1>1. f.recs \in Seq(R) /\ f.sync \in Nat /\ Len(f.recs) \in Nat /\ f.torn \in BOOLEAN /\ f.bad \subseteq Nat
  BY FileParts
<1>2. n \in Nat /\ n <= Len(f.recs) /\ f.sync <= n
  BY <1>1 DEF CutPoints
<1>3. SubSeq(f.recs, 1, n) \in Seq(R) /\ Len(SubSeq(f.recs, 1, n)) = n
  BY <1>1, <1>2, SubSeqProperties
<1>4. QED BY <1>1, <1>2, <1>3 DEF CutAt, FileOf

\* A directory with one more file, with fewer files, or with a changed file.
LEMMA DirWith ==
  ASSUME NEW R, NEW d, IsDir(d, R), NEW n \in Nat, NEW x \in FileOf(R)
  PROVE  IsDir(With(d, n, x), R)
<1>1. DOMAIN With(d, n, x) = DOMAIN d \cup {n} /\ \A m \in DOMAIN d \cup {n} : With(d, n, x)[m] = IF m = n THEN x ELSE d[m]
  BY DEF With
<1>2. IsFiniteSet(DOMAIN d \cup {n})
  BY FS_AddElement DEF IsDir
<1>3. With(d, n, x) = [m \in DOMAIN With(d, n, x) |-> With(d, n, x)[m]]
  BY DEF With
<1>4. QED BY <1>1, <1>2, <1>3 DEF IsDir

\* A directory some of whose files were deleted.
LEMMA DirRestrict ==
  ASSUME NEW R, NEW d, IsDir(d, R), NEW S \in SUBSET DOMAIN d
  PROVE  IsDir(Restrict(d, S), R)
<1>1. IsFiniteSet(S)
  BY FS_Subset DEF IsDir
<1>2. DOMAIN Restrict(d, S) = S /\ \A m \in S : Restrict(d, S)[m] = d[m]
  BY RestrictTo
<1>3. Restrict(d, S) = [m \in DOMAIN Restrict(d, S) |-> Restrict(d, S)[m]]
  BY DEF Restrict
<1>4. QED BY <1>1, <1>2, <1>3 DEF IsDir

\* A directory one of whose files was written to.
LEMMA DirUpdate ==
  ASSUME NEW R, NEW d, IsDir(d, R), NEW n, NEW x, n \in DOMAIN d => x \in FileOf(R)
  PROVE  IsDir([d EXCEPT ![n] = x], R)
BY DEF IsDir

\* The empty directory.
LEMMA DirEmpty ==
  ASSUME NEW R
  PROVE  IsDir(<<>>, R)
<1>1. DOMAIN <<>> = {}
  OBVIOUS
<1>2. <<>> = [n \in DOMAIN <<>> |-> <<>>[n]]
  OBVIOUS
<1>3. QED BY <1>1, <1>2, FS_EmptySet DEF IsDir

\* The files that survive a crash: the same numbers, each file a prefix of
\* itself that holds its durable part.
LEMMA SurvivingFacts ==
  ASSUME NEW R, NEW fs, IsDir(fs, R), NEW gs \in SurvivingFiles(fs)
  PROVE  /\ IsDir(gs, R) /\ DOMAIN gs = DOMAIN fs
         /\ \A n \in DOMAIN fs : \/ gs[n] = fs[n] /\ ~(fs[n].sync < Len(fs[n].recs))
                                 \/ \E m \in CutPoints(fs[n]) : gs[n] = CutAt(fs[n], m)
<1> DEFINE open == {n \in DOMAIN fs : fs[n].sync < Len(fs[n].recs)}
           cuts == {c \in [open -> UNION {CutPoints(fs[n]) : n \in open}] :
                      \A n \in open : c[n] \in CutPoints(fs[n])}
<1>1. PICK c \in cuts : gs = [n \in DOMAIN fs |-> IF n \in open THEN CutAt(fs[n], c[n]) ELSE fs[n]]
  BY DEF SurvivingFiles
<1>2. \A n \in DOMAIN fs : \/ n \in open /\ c[n] \in CutPoints(fs[n])
                           \/ n \notin open /\ ~(fs[n].sync < Len(fs[n].recs))
  <2>1. \A n \in open : c[n] \in CutPoints(fs[n])
    BY Zenon
  <2>2. \A n \in DOMAIN fs : n \notin open => ~(fs[n].sync < Len(fs[n].recs))
    BY Zenon
  <2> HIDE DEF cuts, open
  <2>3. QED BY <2>1, <2>2, Zenon
<1> HIDE DEF cuts, open
<1>3. DOMAIN gs = DOMAIN fs /\ gs = [n \in DOMAIN gs |-> gs[n]]
  BY <1>1
<1>4. ASSUME NEW n \in DOMAIN fs
      PROVE  \/ gs[n] = fs[n] /\ ~(fs[n].sync < Len(fs[n].recs))
             \/ \E m \in CutPoints(fs[n]) : gs[n] = CutAt(fs[n], m)
  BY <1>1, <1>2
<1>5. ASSUME NEW n \in DOMAIN fs PROVE gs[n] \in FileOf(R)
  <2>1. fs[n] \in FileOf(R)
    BY DEF IsDir
  <2>2. QED BY <1>4, <2>1, CutFacts
<1>6. QED BY <1>3, <1>4, <1>5 DEF IsDir

\* DeleteObsoleteFiles only takes files away.
LEMMA DeleteObsoleteType ==
  ASSUME NEW d, IsDisk(d), NEW v, NEW isErr, NEW live
  PROVE  /\ IsDisk(DeleteObsolete(d, v, isErr, live))
         /\ DeleteObsolete(d, v, isErr, live).cur = d.cur
         /\ isErr => DeleteObsolete(d, v, isErr, live) = d
         /\ ~isErr => /\ DeleteObsolete(d, v, isErr, live).log = Restrict(d.log, {n \in DOMAIN d.log : n >= v.log})
                      /\ DeleteObsolete(d, v, isErr, live).man = Restrict(d.man, {n \in DOMAIN d.man : n >= v.man})
                      /\ DeleteObsolete(d, v, isErr, live).tab = Restrict(d.tab, DOMAIN d.tab \cap live)
<1> DEFINE lg == Restrict(d.log, {n \in DOMAIN d.log : n >= v.log})
           mn == Restrict(d.man, {n \in DOMAIN d.man : n >= v.man})
           tb == Restrict(d.tab, DOMAIN d.tab \cap live)
           e == DeleteObsolete(d, v, isErr, live)
<1>1. d \in [log : {d.log}, tab : {d.tab}, man : {d.man}, cur : Nat]
  BY DEF IsDisk
<1>2. e = IF isErr THEN d ELSE [d EXCEPT !.log = lg, !.man = mn, !.tab = tb]
  BY DEF DeleteObsolete
<1>3. IsDir(lg, Groups)
  BY DirRestrict DEF IsDisk
<1>4. IsDir(mn, EditType)
  BY DirRestrict DEF IsDisk
<1>5. IsDir(tb, Groups)
  BY DirRestrict DEF IsDisk
<1> HIDE DEF lg, mn, tb, e
<1>6. CASE isErr
  BY <1>2, <1>6 DEF e
<1>7. CASE ~isErr
  <2>1. e.log = lg /\ e.man = mn /\ e.tab = tb /\ e.cur = d.cur
    BY <1>1, <1>2, <1>7
  <2>2. e \in [log : {lg}, tab : {tb}, man : {mn}, cur : Nat]
    BY <1>1, <1>2, <1>7
  <2>3. IsDisk(e)
    BY <1>3, <1>4, <1>5, <2>1, <2>2 DEF IsDisk
  <2>4. QED BY <1>7, <2>1, <2>3 DEF e, lg, mn, tb
<1>8. QED BY <1>6, <1>7

-----------------------------------------------------------------------------
(* Edits and the manifest.                                                   *)

\* The files an edit adds to one level.
LEMMA AddedFiles ==
  ASSUME NEW S \in Adds, NEW l
  PROVE  {a[2] : a \in {x \in S : x[1] = l}} \in FileSets
<1> DEFINE T == {x \in S : x[1] = l}
           f == [a \in T |-> a[2]]
<1>1. T \in SUBSET S /\ IsFiniteSet(S) /\ S \subseteq Levels \X FileType
  BY DEF Adds
<1> HIDE DEF T
<1>2. IsFiniteSet(T)
  BY <1>1, FS_Subset
<1>3. {a[2] : a \in T} = {f[a] : a \in T} /\ DOMAIN f = T
  OBVIOUS
<1>4. {a[2] : a \in T} \subseteq FileType
  BY <1>1
<1> HIDE DEF f
<1>5. IsFiniteSet({f[a] : a \in T})
  BY <1>2, <1>3, ImageFinite
<1>6. {a[2] : a \in T} \in FileSets
  BY <1>3, <1>4, <1>5 DEF FileSets
<1>7. QED BY <1>6 DEF T

\* Applying an edit to a version gives a version.
LEMMA ApplyEditType ==
  ASSUME NEW v \in VersionType, NEW e, e.add \in Adds
  PROVE  ApplyEdit(v, e) \in VersionType
<1>1. ASSUME NEW l \in Levels
      PROVE  {f \in v[l] : <<l, f.num>> \notin e.del} \cup {a[2] : a \in {x \in e.add : x[1] = l}} \in FileSets
  <2> DEFINE keep == {f \in v[l] : <<l, f.num>> \notin e.del}
             new == {a[2] : a \in {x \in e.add : x[1] = l}}
  <2>1. keep \in FileSets
    BY LevelFiles, FilesClosed
  <2>2. new \in FileSets
    BY AddedFiles
  <2> HIDE DEF keep, new
  <2>3. keep \cup new \in FileSets
    BY <2>1, <2>2, FilesClosed
  <2>4. QED BY <2>3 DEF keep, new
<1>2. QED BY <1>1 DEF ApplyEdit, VersionType

\* Compaction pointers after an edit.
LEMMA ApplyPointersType ==
  ASSUME NEW ptr \in [Levels -> IKeyType], NEW e, e.ptrs \in SUBSET (Levels \X IKeyType)
  PROVE  ApplyPointers(ptr, e) \in [Levels -> IKeyType]
<1>1. ASSUME NEW l \in Levels
      PROVE  (LET new == {p \in e.ptrs : p[1] = l}
              IN IF new = {} THEN ptr[l] ELSE (CHOOSE p \in new : TRUE)[2]) \in IKeyType
  <2> DEFINE new == {p \in e.ptrs : p[1] = l}
  <2>1. CASE new = {}
    BY <2>1
  <2>2. CASE new # {}
    <3>1. (CHOOSE p \in new : TRUE) \in new
      BY <2>2
    <3>2. (CHOOSE p \in new : TRUE) \in Levels \X IKeyType
      BY <3>1
    <3>3. QED BY <2>2, <3>2
  <2>3. QED BY <2>1, <2>2
<1>2. QED BY <1>1 DEF ApplyPointers

\* Installing a filled edit.
LEMMA InstalledType ==
  ASSUME NEW v \in VSType, NEW e \in FilledEdit
  PROVE  /\ Installed(v, e) \in VSType
         /\ Installed(v, e).next = v.next /\ Installed(v, e).man = v.man /\ Installed(v, e).last = v.last
         /\ Installed(v, e).log = e.log /\ Installed(v, e).seek = {}
         /\ Installed(v, e).ver = ApplyEdit(v.ver, e) /\ Installed(v, e).ptr = ApplyPointers(v.ptr, e)
<1>1. v \in [next : Nat, man : Nat, last : Nat, log : Nat, ver : VersionType,
             ptr : [Levels -> IKeyType], seek : SUBSET (Levels \X FileType)]
  BY DEF VSType
<1>2. e.log \in Nat /\ e.add \in Adds /\ e.ptrs \in SUBSET (Levels \X IKeyType)
  BY DEF FilledEdit
<1>3. ApplyEdit(v.ver, e) \in VersionType
  BY <1>1, <1>2, ApplyEditType
<1>4. ApplyPointers(v.ptr, e) \in [Levels -> IKeyType]
  BY <1>1, <1>2, ApplyPointersType
<1>5. Installed(v, e) =
        [v EXCEPT !.ver = ApplyEdit(v.ver, e), !.ptr = ApplyPointers(v.ptr, e), !.log = e.log, !.seek = {}]
  BY DEF Installed
<1>6. {} \in SeekType(ApplyEdit(v.ver, e))
  BY DEF SeekType
<1>7. QED BY <1>1, <1>2, <1>3, <1>4, <1>5, <1>6 DEF VSType

\* A filled edit is an edit.
LEMMA FilledIsEdit == FilledEdit \subseteq EditType
BY DEF FilledEdit, EditType, OptNat

\* The greatest of some positions of a sequence is one of them.
LEMMA LastPosition ==
  ASSUME NEW N \in Nat, NEW S \in SUBSET (1 .. N), S # {}
  PROVE  Max(S) \in S /\ \A i \in S : i <= Max(S)
<1>1. S \subseteq Nat /\ \A x \in S : x <= N
  OBVIOUS
<1>2. QED BY <1>1, MaxOfNats

\* The state a manifest describes is a version, pointers and three numbers
\* that may be missing.
LEMMA ManifestFilesType ==
  ASSUME NEW recs \in Seq(EditType), NEW l \in Levels
  PROVE  ManifestFiles(recs, l) \in FileSets
<1> DEFINE N == Len(recs)
           F == [i \in 1 .. N |-> StillAdded(recs, l, i)]
           U == UNION {F[i] : i \in 1 .. N}
<1>1. N \in Nat /\ DOMAIN recs = 1 .. N /\ \A i \in 1 .. N : recs[i] \in EditType
  BY LenProperties, ElementOfSeq
<1>2. ManifestFiles(recs, l) = {a[2] : a \in U}
  <2>1. UNION {StillAdded(recs, l, i) : i \in DOMAIN recs} = U
    BY <1>1
  <2>2. QED BY <2>1 DEF ManifestFiles
<1>3. \A i \in 1 .. N : F[i] \in SUBSET recs[i].add /\ \A x \in F[i] : x[1] = l
  BY DEF StillAdded
<1>4. DOMAIN F = 1 .. N
  OBVIOUS
<1> HIDE DEF F, N
<1>5. \A i \in 1 .. N : IsFiniteSet(recs[i].add) /\ recs[i].add \subseteq Levels \X FileType
  BY <1>1 DEF EditType, Adds
<1>6. \A i \in 1 .. N : IsFiniteSet(F[i]) /\ F[i] \subseteq Levels \X FileType
  BY <1>3, <1>5, FS_Subset
<1>7. IsFiniteSet({F[i] : i \in 1 .. N})
  <2>1. IsFiniteSet(1 .. N)
    BY <1>1, FS_Interval
  <2>2. QED BY <1>4, <2>1, ImageFinite
<1>8. IsFiniteSet(U)
  BY <1>6, <1>7, FS_UNION
<1>9. U \in Adds
  BY <1>6, <1>8 DEF Adds
<1>10. U = {x \in U : x[1] = l}
  BY <1>3
<1> HIDE DEF U
<1>11. QED BY <1>2, <1>9, <1>10, AddedFiles

\* The compaction pointer a manifest records for a level.
LEMMA ManifestPointerType ==
  ASSUME NEW recs \in Seq(EditType), NEW l \in Levels
  PROVE  ManifestPointer(recs, l) \in IKeyType
<1> DEFINE N == Len(recs)
           set == {i \in DOMAIN recs : \E p \in recs[i].ptrs : p[1] = l}
<1>1. N \in Nat /\ DOMAIN recs = 1 .. N /\ \A i \in 1 .. N : recs[i] \in EditType
  BY LenProperties, ElementOfSeq
<1>2. ManifestPointer(recs, l) = IF set = {} THEN NoPointer ELSE (CHOOSE p \in recs[Max(set)].ptrs : p[1] = l)[2]
  BY DEF ManifestPointer
<1>3. set \in SUBSET (1 .. N) /\ \A i \in set : \E p \in recs[i].ptrs : p[1] = l
  BY <1>1
<1> HIDE DEF set, N
<1>4. CASE set = {}
  BY <1>2, <1>4 DEF NoPointer, IKey, IKeyType
<1>5. CASE set # {}
  <2>1. Max(set) \in set
    BY <1>1, <1>3, <1>5, LastPosition
  <2> DEFINE ps == recs[Max(set)].ptrs
             q == CHOOSE p \in ps : p[1] = l
  <2>2. ps \subseteq Levels \X IKeyType /\ \E p \in ps : p[1] = l
    BY <1>1, <1>3, <2>1 DEF EditType
  <2>3. ManifestPointer(recs, l) = q[2]
    BY <1>2, <1>5
  <2> HIDE DEF ps
  <2>4. q \in ps
    BY <2>2
  <2> HIDE DEF q
  <2>5. QED BY <2>2, <2>3, <2>4
<1>6. QED BY <1>4, <1>5

\* The fields a manifest records: a number, or not set.
LEMMA ManifestFieldType ==
  ASSUME NEW recs \in Seq(EditType)
  PROVE  /\ ManifestField(recs, "log") \in OptNat
         /\ ManifestField(recs, "next") \in OptNat
         /\ ManifestField(recs, "last") \in OptNat
<1> DEFINE N == Len(recs)
<1>1. N \in Nat /\ DOMAIN recs = 1 .. N /\ \A i \in 1 .. N : recs[i] \in EditType
  BY LenProperties, ElementOfSeq
<1>2. \A i \in 1 .. N : recs[i]["log"] \in OptNat /\ recs[i]["next"] \in OptNat /\ recs[i]["last"] \in OptNat
  BY <1>1 DEF EditType
<1>3. ASSUME NEW f, \A i \in 1 .. N : recs[i][f] \in OptNat
      PROVE  ManifestField(recs, f) \in OptNat
  <2> DEFINE set == {i \in DOMAIN recs : recs[i][f] # None}
  <2>1. ManifestField(recs, f) = IF set = {} THEN None ELSE recs[Max(set)][f]
    BY DEF ManifestField
  <2>2. set \in SUBSET (1 .. N)
    BY <1>1
  <2> HIDE DEF set
  <2>3. set # {} => Max(set) \in set
    <3> HIDE DEF N
    <3> QED BY <1>1, <2>2, LastPosition
  <2>4. QED BY <1>3, <2>1, <2>2, <2>3 DEF OptNat
<1>4. QED BY <1>2, <1>3

\* The version and pointers a manifest describes are typed.
LEMMA ManifestType ==
  ASSUME NEW recs \in Seq(EditType)
  PROVE  /\ ManifestState(recs).ver \in VersionType
         /\ ManifestState(recs).ptr \in [Levels -> IKeyType]
         /\ ManifestState(recs).log \in OptNat
         /\ ManifestState(recs).next \in OptNat
         /\ ManifestState(recs).last \in OptNat
<1>1. [l \in Levels |-> ManifestFiles(recs, l)] \in VersionType
  BY ManifestFilesType DEF VersionType
<1>2. [l \in Levels |-> ManifestPointer(recs, l)] \in [Levels -> IKeyType]
  BY ManifestPointerType
<1>3. QED BY <1>1, <1>2, ManifestFieldType DEF ManifestState

-----------------------------------------------------------------------------
(* Recovery.                                                                 *)

\* The elements of a sequence.
LEMMA SeqElements ==
  ASSUME NEW S, NEW s \in Seq(S)
  PROVE  Range(s) = {s[i] : i \in 1 .. Len(s)} /\ Range(s) \subseteq S /\ IsFiniteSet(Range(s))
<1>1. Len(s) \in Nat /\ DOMAIN s = 1 .. Len(s) /\ \A i \in 1 .. Len(s) : s[i] \in S
  BY LenProperties, ElementOfSeq
<1>2. Range(s) = {s[i] : i \in 1 .. Len(s)}
  BY <1>1 DEF Range
<1>3. IsFiniteSet(1 .. Len(s))
  BY <1>1, FS_Interval
<1>4. IsFiniteSet({s[i] : i \in 1 .. Len(s)})
  BY <1>1, <1>3, ImageFinite
<1>5. QED BY <1>1, <1>2, <1>4

\* The entries a reader finds in some logs are finitely many.
LEMMA LogEntries ==
  ASSUME NEW lg, IsDir(lg, Groups), NEW S \in SUBSET DOMAIN lg
  PROVE  /\ UNION {Range(lg[n].recs) : n \in S} \subseteq Groups
         /\ UNION {Readable(lg[n]) : n \in S} \subseteq Groups
         /\ UNION {UNION Readable(lg[n]) : n \in S} \in EntrySets
<1>1. IsFiniteSet(S)
  BY FS_Subset DEF IsDir
<1>2. ASSUME NEW n \in S
      PROVE  /\ Range(lg[n].recs) \subseteq Groups /\ Readable(lg[n]) \subseteq Groups
             /\ UNION Readable(lg[n]) \in EntrySets
  <2>1. lg[n].recs \in Seq(Groups)
    BY DEF IsDir, FileOf
  <2>2. Range(lg[n].recs) \subseteq Groups /\ IsFiniteSet(Range(lg[n].recs))
    BY <2>1, SeqElements
  <2>3. Readable(lg[n]) \subseteq Range(lg[n].recs)
    BY DEF Readable, Range
  <2>4. Readable(lg[n]) \subseteq Groups /\ IsFiniteSet(Readable(lg[n]))
    BY <2>2, <2>3, FS_Subset
  <2>5. \A es \in Readable(lg[n]) : IsFiniteSet(es) /\ es \subseteq EntryType
    BY <2>4 DEF Groups, EntrySets
  <2>6. IsFiniteSet(UNION Readable(lg[n]))
    BY <2>4, <2>5, FS_UNION
  <2>7. UNION Readable(lg[n]) \subseteq EntryType
    BY <2>5
  <2>8. QED BY <2>2, <2>4, <2>6, <2>7 DEF EntrySets
<1> DEFINE F == [n \in S |-> UNION Readable(lg[n])]
<1>3. \A n \in S : IsFiniteSet(F[n]) /\ F[n] \subseteq EntryType
  BY <1>2 DEF EntrySets
<1>4. {UNION Readable(lg[n]) : n \in S} = {F[n] : n \in S} /\ DOMAIN F = S
  OBVIOUS
<1> HIDE DEF F
<1>5. IsFiniteSet({F[n] : n \in S})
  BY <1>1, <1>4, ImageFinite
<1>6. IsFiniteSet(UNION {F[n] : n \in S})
  BY <1>3, <1>5, FS_UNION
<1>7. UNION {F[n] : n \in S} \subseteq EntryType
  BY <1>3
<1>8. UNION {F[n] : n \in S} \in EntrySets
  BY <1>6, <1>7 DEF EntrySets
<1>9. QED BY <1>2, <1>4, <1>8

\* The greatest sequence number of finitely many entries.
LEMMA MaxSeqNat ==
  ASSUME NEW es \in EntrySets
  PROVE  /\ Max({0} \cup {e.s : e \in es}) \in Nat
         /\ \A e \in es : e.s <= Max({0} \cup {e2.s : e2 \in es})
         /\ es # {} => /\ LastOf(es) \in Nat /\ \A e \in es : e.s <= LastOf(es)
                       /\ \E e \in es : e.s = LastOf(es)
<1> DEFINE f == [e \in es |-> e.s]
           T == {e.s : e \in es}
<1>1. T = {f[e] : e \in es} /\ DOMAIN f = es
  OBVIOUS
<1>2. T \subseteq Nat /\ IsFiniteSet(es)
  BY DEF EntrySets, EntryType
<1>3. \A e \in es : e.s \in T
  OBVIOUS
<1>4. \A x \in T : \E e \in es : e.s = x
  OBVIOUS
<1>5. es # {} => T # {}
  OBVIOUS
<1>6. LastOf(es) = Max(T)
  BY DEF LastOf
<1> HIDE DEF f, T
<1>7. IsFiniteSet(T)
  BY <1>1, <1>2, ImageFinite
<1>8. PICK B \in Nat : \A x \in T : x <= B
  BY <1>2, <1>7, FiniteBounded
<1>9. T # {} => Max(T) \in T /\ \A x \in T : x <= Max(T)
  BY <1>2, <1>8, MaxOfNats
<1> DEFINE Z == {0} \cup T
<1>10. Z \subseteq Nat /\ Z # {} /\ T \subseteq Z /\ \A x \in Z : x <= B
  BY <1>2, <1>8
<1> HIDE DEF Z
<1>11. Max(Z) \in Z /\ \A x \in Z : x <= Max(Z)
  BY <1>10, MaxOfNats
<1>12. Max(Z) \in Nat /\ \A e \in es : e.s <= Max(Z)
  BY <1>3, <1>10, <1>11
<1>13. es # {} => Max(T) \in Nat /\ (\A e \in es : e.s <= Max(T)) /\ \E e \in es : e.s = Max(T)
  BY <1>2, <1>3, <1>4, <1>5, <1>9
<1>14. QED BY <1>6, <1>12, <1>13 DEF Z, T

ItemType == [es : EntrySets, mark : Nat]

\* RecoverLogFile's memtables; the last one marks the log's number.
LEMMA ReplayItemsType ==
  ASSUME NEW n \in Nat, NEW f \in FileOf(Groups)
  PROVE  /\ ReplayItems(n, f) \in Seq(ItemType)
         /\ \E k \in 1 .. Len(ReplayItems(n, f)) : ReplayItems(n, f)[k].mark = n
<1> DEFINE N == Len(f.recs)
           rec(i) == IF i \in f.bad THEN {} ELSE f.recs[i]
           X == [outs : Seq(ItemType), mem : EntrySets]
           x0 == [outs |-> <<>>, mem |-> {}]
           more(st, r) == LET es == st.mem \cup r
                          IN IF Cardinality(es) > WriteBuffer
                             THEN [outs |-> Append(st.outs, [es |-> es, mark |-> 0]), mem |-> {}]
                             ELSE [outs |-> st.outs, mem |-> es]
           G == [i \in 1 .. N |-> [st \in X |-> more(st, rec(i))]]
           Is(m) == m = [i \in 0 .. N |-> IF i = 0 THEN x0 ELSE more(m[i - 1], rec(i))]
           run == CHOOSE m : Is(m)
           end == run[N]
<1>1. ReplayItems(n, f) = Append(end.outs, [es |-> end.mem, mark |-> n])
  BY DEF ReplayItems
<1>2. N \in Nat /\ \A i \in 1 .. N : rec(i) \in EntrySets
  <2>1. f.recs \in Seq(Groups)
    BY FileParts
  <2>2. N \in Nat /\ \A i \in 1 .. N : f.recs[i] \in Groups
    BY <2>1, LenProperties, ElementOfSeq
  <2>3. QED BY <2>2, EntryFacts DEF Groups
<1>3. x0 \in X
  BY EntryFacts
<1>4. \A i \in 1 .. N : \A st \in X : more(st, rec(i)) \in X
  <2>1. SUFFICES ASSUME NEW i \in 1 .. N, NEW st \in X PROVE more(st, rec(i)) \in X
    OBVIOUS
  <2> DEFINE es == st.mem \cup rec(i)
             it == [es |-> es, mark |-> 0]
  <2>2. es \in EntrySets
    BY <1>2, EntryFacts
  <2> HIDE DEF es
  <2>3. it \in ItemType
    BY <2>2 DEF ItemType
  <2> HIDE DEF it
  <2>4. Append(st.outs, it) \in Seq(ItemType)
    BY <2>3, AppendProperties
  <2>5. more(st, rec(i)) = IF Cardinality(es) > WriteBuffer THEN [outs |-> Append(st.outs, it), mem |-> {}]
                            ELSE [outs |-> st.outs, mem |-> es]
    BY DEF es, it
  <2> HIDE DEF more
  <2>6. QED BY <2>2, <2>4, <2>5, EntryFacts
<1> HIDE DEF N, X, x0, more, rec
<1>5. Steps(G, N, X)
  BY <1>4 DEF Steps
<1>6. \A i \in 1 .. N : \A st \in X : G[i][st] = more(st, rec(i))
  OBVIOUS
<1> HIDE DEF G
<1>7. PICK h : RunOf(h, G, N, X, x0)
  BY <1>2, <1>3, <1>5, RunExists
<1>8. h \in [0 .. N -> X] /\ \A i \in 0 .. N : h[i] = IF i = 0 THEN x0 ELSE G[i][h[i - 1]]
  BY <1>7 DEF RunOf
<1>9. Is(h)
  <2>1. ASSUME NEW i \in 0 .. N PROVE h[i] = IF i = 0 THEN x0 ELSE more(h[i - 1], rec(i))
    <3>1. CASE i = 0
      BY <1>8, <3>1
    <3>2. CASE i # 0
      <4>1. i - 1 \in 0 .. N /\ i \in 1 .. N
        BY <1>2, <3>2
      <4>2. QED BY <1>6, <1>8, <3>2, <4>1
    <3>3. QED BY <3>1, <3>2
  <2>2. QED BY <1>8, <2>1
<1>10. Is(run)
  <2> HIDE DEF Is
  <2> QED BY <1>9
<1> HIDE DEF run
<1>11. run = [i \in 0 .. N |-> IF i = 0 THEN x0 ELSE more(run[i - 1], rec(i))]
  BY <1>10
<1> DEFINE Q == {k \in 0 .. N : run[k] \in X}
<1>12. 0 \in Q
  BY <1>2, <1>3, <1>11
<1>13. ASSUME NEW k \in 1 .. N, k - 1 \in Q PROVE k \in Q
  <2>1. k \in 0 .. N /\ k # 0 /\ run[k - 1] \in X
    BY <1>2, <1>13
  <2>2. run[k] = more(run[k - 1], rec(k))
    BY <1>11, <2>1
  <2>3. QED BY <1>4, <2>1, <2>2
<1>14. N \in Q
  <2> HIDE DEF Q
  <2>1. \A i \in 0 .. N : i \in Q
    BY <1>2, <1>12, <1>13, UpTo
  <2>2. QED BY <1>2, <2>1
<1>15. end.outs \in Seq(ItemType) /\ end.mem \in EntrySets
  BY <1>14 DEF X
<1> DEFINE it == [es |-> end.mem, mark |-> n]
<1> HIDE DEF end
<1>16. it \in ItemType /\ it.mark = n
  BY <1>15 DEF ItemType
<1> HIDE DEF it
<1>17. /\ Append(end.outs, it) \in Seq(ItemType) /\ Len(end.outs) \in Nat
       /\ Len(Append(end.outs, it)) = Len(end.outs) + 1 /\ Append(end.outs, it)[Len(end.outs) + 1] = it
  BY <1>15, <1>16, AppendProperties, LenProperties
<1>18. Len(end.outs) + 1 \in 1 .. Len(Append(end.outs, it)) /\ Append(end.outs, it)[Len(end.outs) + 1].mark = n
  BY <1>16, <1>17
<1>19. ReplayItems(n, f) = Append(end.outs, it)
  BY <1>1 DEF it
<1>20. QED BY <1>17, <1>18, <1>19

-----------------------------------------------------------------------------
(* Writing.                                                                  *)

\* A group is the front of the queue, the leader included.
LEMMA BatchGroupType ==
  ASSUME NEW t, db.queue \in Seq(Threads), db.queue # <<>>
  PROVE  /\ BatchGroup(t) \in Seq(Threads)
         /\ Len(BatchGroup(t)) \in 1 .. Len(db.queue)
         /\ \A i \in 1 .. Len(BatchGroup(t)) : BatchGroup(t)[i] = db.queue[i]
<1> DEFINE q == db.queue
           size(i) == FoldFunctionOnSet(+, 0, [j \in DOMAIN q |-> Len(wr[q[j]].batch)], 1 .. i)
           stops == {i \in 2 .. Len(q) :
                       \/ wr[q[i]].sync /\ ~wr[t].sync
                       \/ wr[q[i]].batch # <<>> /\ size(i) > GroupLimit}
           last == IF stops = {} THEN Len(q) ELSE Min(stops) - 1
<1>1. BatchGroup(t) = SubSeq(q, 1, last)
  BY DEF BatchGroup
<1>2. Len(q) \in Nat /\ Len(q) # 0
  BY LenProperties, EmptySeq
<1> HIDE DEF size
<1>3. stops \subseteq 2 .. Len(q)
  OBVIOUS
<1> HIDE DEF stops
<1>4. stops # {} => Min(stops) \in stops
  <2>1. stops \subseteq Nat
    BY <1>2, <1>3
  <2>2. QED BY <2>1, MinOfNats
<1>5. last \in 1 .. Len(q)
  <2>1. CASE stops = {}
    BY <1>2, <2>1
  <2>2. CASE stops # {}
    <3>1. Min(stops) \in 2 .. Len(q)
      BY <1>3, <1>4, <2>2
    <3>2. QED BY <1>2, <2>2, <3>1
  <2>3. QED BY <2>1, <2>2
<1> HIDE DEF last
<1>6. /\ SubSeq(q, 1, last) \in Seq(Threads) /\ Len(SubSeq(q, 1, last)) = last
      /\ \A i \in 1 .. last : SubSeq(q, 1, last)[i] = q[i]
  BY <1>2, <1>5, SubSeqProperties
<1>7. QED BY <1>1, <1>5, <1>6

\* The entries of a group are numbered from the last sequence number on, and
\* there are some if one of its batches is not empty.
LEMMA NumberedType ==
  ASSUME wr \in [Threads -> WriterType], NEW group \in Seq(Threads), NEW last \in Nat
  PROVE  /\ Numbered(group, last) \in EntrySets
         /\ \A e \in Numbered(group, last) : e.s > last
         /\ (\E i \in 1 .. Len(group) : wr[group[i]].batch # <<>>) => Numbered(group, last) # {}
<1> DEFINE bs == [i \in DOMAIN group |-> wr[group[i]].batch]
           ops == FlattenSeq(bs)
           F == [i \in 1 .. Len(ops) |-> [k |-> ops[i].k, s |-> last + i, d |-> ops[i].d]]
<1>1. Numbered(group, last) = {[k |-> ops[i].k, s |-> last + i, d |-> ops[i].d] : i \in DOMAIN ops}
  BY DEF Numbered
<1>2. Len(group) \in Nat /\ DOMAIN group = 1 .. Len(group) /\ \A i \in 1 .. Len(group) : group[i] \in Threads
  BY LenProperties, ElementOfSeq
<1>3. \A i \in 1 .. Len(group) : wr[group[i]].batch \in Seq(Ops)
  BY <1>2 DEF WriterType
<1>4. bs \in Seq(Seq(Ops)) /\ Len(bs) = Len(group) /\ \A i \in 1 .. Len(group) : bs[i] = wr[group[i]].batch
  <2>1. bs = [i \in 1 .. Len(group) |-> wr[group[i]].batch]
    BY <1>2
  <2>2. \A i \in 1 .. Len(group) : bs[i] = wr[group[i]].batch
    BY <2>1
  <2>3. bs \in [1 .. Len(group) -> Seq(Ops)]
    BY <1>3, <2>1
  <2> HIDE DEF bs
  <2>4. bs \in Seq(Seq(Ops))
    BY <1>2, <2>3, IsASeq
  <2>5. Len(bs) = Len(group)
    BY <1>2, <2>3, <2>4, LenProperties
  <2>6. QED BY <2>2, <2>4, <2>5
<1> HIDE DEF bs
<1>5. /\ ops \in Seq(Ops)
      /\ \A j \in 1 .. Len(bs) : \A k \in 1 .. Len(bs[j]) : \E i \in 1 .. Len(ops) : ops[i] = bs[j][k]
  BY <1>4, FlattenType
<1> HIDE DEF ops
<1>6. Len(ops) \in Nat /\ DOMAIN ops = 1 .. Len(ops) /\ \A i \in 1 .. Len(ops) : ops[i] \in Ops
  BY <1>5, LenProperties, ElementOfSeq
<1>7. \A i \in 1 .. Len(ops) : F[i] \in EntryType /\ F[i].s > last
  BY <1>6 DEF Ops, EntryType
<1>8. Numbered(group, last) = {F[i] : i \in 1 .. Len(ops)} /\ DOMAIN F = 1 .. Len(ops)
  BY <1>1, <1>6
<1> HIDE DEF F
<1>9. IsFiniteSet(1 .. Len(ops))
  BY <1>6, FS_Interval
<1>10. IsFiniteSet({F[i] : i \in 1 .. Len(ops)})
  BY <1>8, <1>9, ImageFinite
<1>11. ASSUME NEW j \in 1 .. Len(group), wr[group[j]].batch # <<>> PROVE Numbered(group, last) # {}
  <2>1. bs[j] # <<>> /\ bs[j] \in Seq(Ops)
    BY <1>3, <1>4, <1>11
  <2>2. Len(bs[j]) \in Nat /\ Len(bs[j]) # 0
    BY <2>1, LenProperties, EmptySeq
  <2>3. 1 \in 1 .. Len(bs[j])
    BY <2>2
  <2>4. \E i \in 1 .. Len(ops) : ops[i] = bs[j][1]
    BY <1>4, <1>5, <2>3
  <2>5. QED BY <1>8, <2>4
<1>12. QED BY <1>7, <1>8, <1>10, <1>11 DEF EntrySets

\* What MaybeScheduleCompaction changes.
LEMMA ScheduleFacts ==
  ASSUME NEW d \in DBType, NEW v
  PROVE  /\ MaybeSchedule(d, v) \in DBType
         /\ MaybeSchedule(d, v).sched <=>
              \/ d.sched
              \/ ~d.shut /\ ~d.err /\ (d.imm # 0 \/ d.manual \/ NeedsCompaction(v))
         /\ MaybeSchedule(d, v).phase = d.phase /\ MaybeSchedule(d, v).mem = d.mem
         /\ MaybeSchedule(d, v).imm = d.imm /\ MaybeSchedule(d, v).pending = d.pending
         /\ MaybeSchedule(d, v).err = d.err /\ MaybeSchedule(d, v).shut = d.shut
         /\ MaybeSchedule(d, v).manual = d.manual /\ MaybeSchedule(d, v).queue = d.queue
         /\ MaybeSchedule(d, v).waiting = d.waiting /\ MaybeSchedule(d, v).todo = d.todo
         /\ MaybeSchedule(d, v).add = d.add
<1> DEFINE x == d.sched \/ (~d.shut /\ ~d.err /\ (d.imm # 0 \/ d.manual \/ NeedsCompaction(v)))
<1>1. MaybeSchedule(d, v) = [d EXCEPT !.sched = x]
  BY DEF MaybeSchedule
<1>2. x \in BOOLEAN
  OBVIOUS
<1> HIDE DEF x
<1>3. [d EXCEPT !.sched = x] \in DBType
  BY <1>2 DEF DBType
<1>4. [d EXCEPT !.sched = x].sched = x
  BY DEF DBType
<1>5. QED BY <1>1, <1>3, <1>4 DEF DBType, x

\* What the end of BackgroundCall changes: everybody is woken, and what is
\* left to do is scheduled.
LEMMA EndCallFacts ==
  ASSUME NEW d \in DBType, NEW v
  PROVE  /\ EndCall(d, v) \in DBType
         /\ EndCall(d, v).sched <=> ~d.shut /\ ~d.err /\ (d.imm # 0 \/ d.manual \/ NeedsCompaction(v))
         /\ EndCall(d, v).waiting = {}
         /\ EndCall(d, v).phase = d.phase /\ EndCall(d, v).mem = d.mem
         /\ EndCall(d, v).imm = d.imm /\ EndCall(d, v).pending = d.pending
         /\ EndCall(d, v).err = d.err /\ EndCall(d, v).shut = d.shut
         /\ EndCall(d, v).manual = d.manual /\ EndCall(d, v).queue = d.queue
         /\ EndCall(d, v).todo = d.todo /\ EndCall(d, v).add = d.add
<1> DEFINE c == [d EXCEPT !.sched = FALSE]
           m == MaybeSchedule(c, v)
<1>1. /\ c \in DBType /\ ~c.sched /\ c.phase = d.phase /\ c.mem = d.mem /\ c.imm = d.imm
      /\ c.pending = d.pending /\ c.err = d.err /\ c.shut = d.shut /\ c.manual = d.manual
      /\ c.queue = d.queue /\ c.waiting = d.waiting /\ c.todo = d.todo /\ c.add = d.add
  BY DEF DBType
<1> HIDE DEF c
<1>2. /\ m \in DBType
      /\ m.sched <=> ~d.shut /\ ~d.err /\ (d.imm # 0 \/ d.manual \/ NeedsCompaction(v))
      /\ m.phase = d.phase /\ m.mem = d.mem /\ m.imm = d.imm
      /\ m.pending = d.pending /\ m.err = d.err /\ m.shut = d.shut /\ m.manual = d.manual
      /\ m.queue = d.queue /\ m.todo = d.todo /\ m.add = d.add
  BY <1>1, ScheduleFacts
<1>3. EndCall(d, v) = [m EXCEPT !.waiting = {}]
  BY DEF EndCall, SignalAll, c
<1> HIDE DEF m
<1>4. [m EXCEPT !.waiting = {}] \in DBType
  BY <1>2 DEF DBType
<1>5. /\ [m EXCEPT !.waiting = {}].sched = m.sched /\ [m EXCEPT !.waiting = {}].waiting = {}
      /\ [m EXCEPT !.waiting = {}].phase = m.phase /\ [m EXCEPT !.waiting = {}].mem = m.mem
      /\ [m EXCEPT !.waiting = {}].imm = m.imm /\ [m EXCEPT !.waiting = {}].pending = m.pending
      /\ [m EXCEPT !.waiting = {}].err = m.err /\ [m EXCEPT !.waiting = {}].shut = m.shut
      /\ [m EXCEPT !.waiting = {}].manual = m.manual /\ [m EXCEPT !.waiting = {}].queue = m.queue
      /\ [m EXCEPT !.waiting = {}].todo = m.todo /\ [m EXCEPT !.waiting = {}].add = m.add
  BY <1>2 DEF DBType
<1>6. QED BY <1>2, <1>3, <1>4, <1>5

\* What RecordBackgroundError changes.
LEMMA ErrorFacts ==
  ASSUME NEW d \in DBType
  PROVE  /\ RecordBackgroundError(d) \in DBType
         /\ RecordBackgroundError(d).err /\ RecordBackgroundError(d).waiting = {}
         /\ RecordBackgroundError(d).sched = d.sched
         /\ RecordBackgroundError(d).phase = d.phase /\ RecordBackgroundError(d).mem = d.mem
         /\ RecordBackgroundError(d).imm = d.imm /\ RecordBackgroundError(d).pending = d.pending
         /\ RecordBackgroundError(d).shut = d.shut /\ RecordBackgroundError(d).manual = d.manual
         /\ RecordBackgroundError(d).queue = d.queue /\ RecordBackgroundError(d).todo = d.todo
         /\ RecordBackgroundError(d).add = d.add
<1>1. RecordBackgroundError(d) = [[d EXCEPT !.err = TRUE] EXCEPT !.waiting = {}]
  BY DEF RecordBackgroundError, SignalAll
<1>2. QED BY <1>1 DEF DBType

\* What leaving the queue changes.
LEMMA LeaveFacts ==
  ASSUME NEW d \in DBType, wr \in [Threads -> WriterType], NEW group \in Seq(Threads), Leave(d, wr, group)
  PROVE  /\ db' \in DBType /\ wr' \in [Threads -> WriterType]
         /\ db'.queue = SubSeq(d.queue, Len(group) + 1, Len(d.queue))
         /\ d.queue = <<>> => db'.queue = <<>>
         /\ db'.sched = d.sched /\ db'.waiting = d.waiting
         /\ db'.phase = d.phase /\ db'.mem = d.mem /\ db'.imm = d.imm /\ db'.pending = d.pending
         /\ db'.err = d.err /\ db'.shut = d.shut /\ db'.manual = d.manual
         /\ db'.todo = d.todo /\ db'.add = d.add
         /\ \A t \in Threads : wr'[t] = IF t \in Range(group) THEN IdleWriter ELSE wr[t]
<1> DEFINE q == SubSeq(d.queue, Len(group) + 1, Len(d.queue))
<1>1. d.queue \in Seq(Threads) /\ Len(d.queue) \in Nat /\ Len(group) \in Nat
  BY LenProperties DEF DBType
<1>2. q \in Seq(Threads) /\ (d.queue = <<>> => q = <<>>)
  <2>1. q \in Seq(Threads)
    BY <1>1, SubSeqProperties
  <2>2. ASSUME d.queue = <<>> PROVE q = <<>>
    <3>1. Len(d.queue) = 0
      BY <2>2
    <3>2. Len(q) = 0
      BY <1>1, <3>1, SubSeqProperties
    <3>3. QED BY <2>1, <3>2, EmptySeq
  <2>3. QED BY <2>1, <2>2
<1>3. db' = [d EXCEPT !.queue = q]
  BY DEF Leave
<1> HIDE DEF q
<1>4. db' \in DBType
  BY <1>2, <1>3 DEF DBType
<1>5. /\ db'.queue = q
      /\ db'.sched = d.sched /\ db'.waiting = d.waiting
      /\ db'.phase = d.phase /\ db'.mem = d.mem /\ db'.imm = d.imm /\ db'.pending = d.pending
      /\ db'.err = d.err /\ db'.shut = d.shut /\ db'.manual = d.manual
      /\ db'.todo = d.todo /\ db'.add = d.add
  BY <1>3 DEF DBType
<1>6. IdleWriter \in WriterType
  BY EntryFacts DEF IdleWriter, WriterType
<1>7. wr' = [t \in Threads |-> IF t \in Range(group) THEN IdleWriter ELSE wr[t]]
  BY DEF Leave
<1>8. QED BY <1>2, <1>4, <1>5, <1>6, <1>7 DEF q

-----------------------------------------------------------------------------
(* The invariant: opening.                                                   *)

\* Changing one kind of file of the disk.
LEMMA DiskChange ==
  ASSUME NEW d, IsDisk(d), NEW x
  PROVE  /\ IsDir(x, Groups) => IsDisk([d EXCEPT !.log = x])
         /\ IsDir(x, Groups) => IsDisk([d EXCEPT !.tab = x])
         /\ IsDir(x, EditType) => IsDisk([d EXCEPT !.man = x])
         /\ [d EXCEPT !.log = x].log = x /\ [d EXCEPT !.log = x].tab = d.tab
         /\ [d EXCEPT !.log = x].man = d.man /\ [d EXCEPT !.log = x].cur = d.cur
         /\ [d EXCEPT !.tab = x].tab = x /\ [d EXCEPT !.tab = x].log = d.log
         /\ [d EXCEPT !.tab = x].man = d.man /\ [d EXCEPT !.tab = x].cur = d.cur
         /\ [d EXCEPT !.man = x].man = x /\ [d EXCEPT !.man = x].tab = d.tab
         /\ [d EXCEPT !.man = x].log = d.log /\ [d EXCEPT !.man = x].cur = d.cur
BY DEF IsDisk

\* The edit NewDB writes.
LEMMA NewDBEditType == NewDBEdit \in FilledEdit /\ IdleBG \in BGType
<1>1. {} \in Adds
  BY FS_EmptySet DEF Adds
<1>2. NewDBEdit \in FilledEdit
  BY <1>1 DEF NewDBEdit, Edit, FilledEdit
<1>3. QED BY <1>2 DEF IdleBG, BGType

\* The state of a database that is closed is typed.
LEMMA ClosedTypes ==
  /\ ClosedVS \in VSType /\ ClosedDB \in DBType /\ IdleCompact \in CompactType
  /\ [t \in Threads |-> IdleWriter] \in [Threads -> WriterType] /\ IsMems(<<>>)
<1>1. EmptyVersion \in VersionType
  BY FilesClosed DEF EmptyVersion, VersionType
<1>2. NoPointers \in [Levels -> IKeyType]
  BY DEF NoPointers, NoPointer, IKey, IKeyType
<1>3. ClosedVS \in VSType
  BY <1>1, <1>2 DEF ClosedVS, VSType, SeekType
<1>4. ClosedDB \in DBType
  <2>1. {} \in Adds
    BY FS_EmptySet DEF Adds
  <2>2. QED BY <2>1 DEF ClosedDB, DBType
<1>5. IdleCompact \in CompactType
  BY ConfigAssumption DEF IdleCompact, CompactType, NoBound
<1>6. IdleWriter \in WriterType
  BY EntryFacts DEF IdleWriter, WriterType
<1>7. IsMems(<<>>)
  <2>1. DOMAIN <<>> = {}
    OBVIOUS
  <2>2. <<>> = [n \in DOMAIN <<>> |-> <<>>[n]]
    OBVIOUS
  <2>3. QED BY <2>1, <2>2 DEF IsMems
<1>8. QED BY <1>3, <1>4, <1>5, <1>6, <1>7

\* The invariant holds in a process that has just started on a disk.
LEMMA ClosedInv ==
  ASSUME NEW d, IsDisk(d), NEW h \in SUBSET EntrySets, NEW s \in SUBSET EntrySets,
         disk = d, vs = ClosedVS, db = ClosedDB, mems = <<>>, wr = [t \in Threads |-> IdleWriter],
         bg = IdleBG, rd = [r \in Readers |-> {}], snaps = {}, cr = IdleCompact, hist = h, synced = s
  PROVE  Inv
<1>1. Typed
  <2>1. rd \in [Readers -> SUBSET PinType] /\ snaps \in SUBSET Nat
    OBVIOUS
  <2>2. QED BY <2>1, ClosedTypes, NewDBEditType DEF Typed
<1>2. Quiet
  BY DEF Quiet, ClosedDB, IdleBG
<1>3. MemRefs
  BY DEF MemRefs, ClosedDB, IdleBG
<1>4. Scheduled
  BY DEF Scheduled, WaitersAreSignalled, ClosedDB, IdleBG
<1>5. QED BY <1>1, <1>2, <1>3, <1>4 DEF Inv

\* The initial state.
LEMMA InitInv == Init => Inv
<1>1. SUFFICES ASSUME Init PROVE Inv
  OBVIOUS
<1> DEFINE d == [log |-> <<>>, tab |-> <<>>, man |-> <<>>, cur |-> 0]
<1>2. IsDisk(d)
  BY DirEmpty DEF IsDisk
<1> HIDE DEF d
<1>3. /\ disk = d /\ vs = ClosedVS /\ db = ClosedDB /\ mems = <<>> /\ wr = [t \in Threads |-> IdleWriter]
      /\ bg = IdleBG /\ rd = [r \in Readers |-> {}] /\ snaps = {} /\ cr = IdleCompact
      /\ hist = {} /\ synced = {}
  BY <1>1 DEF Init, d
<1>4. QED BY <1>2, <1>3, ClosedInv

\* NewDB.
LEMMA NewDBInv ==
  ASSUME Inv, NewDB
  PROVE  Inv'
<1> DEFINE mn == With(disk.man, 1, NewFile(<<NewDBEdit>>))
<1>1. IsDir(mn, EditType)
  <2>1. <<NewDBEdit>> \in Seq(EditType)
    BY NewDBEditType, FilledIsEdit
  <2>2. QED BY <2>1, FileFacts, DirWith DEF Inv, Typed, IsDisk
<1>2. disk' = [disk EXCEPT !.man = mn, !.cur = 1]
  BY DEF NewDB
<1> HIDE DEF mn
<1>3. IsDisk(disk')
  <2>1. disk \in [log : {disk.log}, tab : {disk.tab}, man : {disk.man}, cur : Nat]
    BY DEF Inv, Typed, IsDisk
  <2>2. /\ disk' \in [log : {disk.log}, tab : {disk.tab}, man : {mn}, cur : Nat]
        /\ disk'.log = disk.log /\ disk'.tab = disk.tab /\ disk'.man = mn
    BY <1>2, <2>1
  <2>3. QED BY <1>1, <2>2 DEF Inv, Typed, IsDisk
<1>4. UNCHANGED <<vs, db, mems, wr, bg, rd, snaps, cr, hist, synced>>
  BY DEF NewDB
<1>5. Typed'
  BY <1>3, <1>4 DEF Inv, Typed
<1>6. Quiet' /\ MemRefs' /\ Scheduled'
  BY <1>4 DEF Inv, Quiet, MemRefs, Scheduled, WaitersAreSignalled, NeedsCompaction
<1>7. QED BY <1>5, <1>6 DEF Inv

\* The greater of two numbers.
LEMMA MaxOfTwo ==
  ASSUME NEW a \in Nat, NEW b \in Nat
  PROVE  Max({a, b}) \in Nat /\ a <= Max({a, b}) /\ b <= Max({a, b})
<1>1. {a, b} \subseteq Nat /\ {a, b} # {} /\ a + b \in Nat /\ \A x \in {a, b} : x <= a + b
  OBVIOUS
<1>2. Max({a, b}) \in {a, b} /\ \A x \in {a, b} : x <= Max({a, b})
  BY <1>1, MaxOfNats
<1>3. QED BY <1>2

\* What recovery reads from a disk.
LEMMA CurrentStateType ==
  ASSUME NEW d, IsDisk(d), ManifestOK(d)
  PROVE  /\ CurrentState(d).ver \in VersionType /\ CurrentState(d).ptr \in [Levels -> IKeyType]
         /\ CurrentState(d).next \in Nat /\ CurrentState(d).log \in Nat /\ CurrentState(d).last \in Nat
<1>1. d.man[d.cur].recs \in Seq(EditType)
  BY DEF ManifestOK, IsDisk, IsDir, FileOf
<1>2. CurrentState(d).next # None /\ CurrentState(d).log # None /\ CurrentState(d).last # None
  BY DEF ManifestOK
<1>3. QED BY <1>1, <1>2, ManifestType DEF CurrentState, OptNat

\* The groups a recovery finds in the logs.
LEMMA ReplayedType ==
  ASSUME NEW d, IsDisk(d)
  PROVE  Replayed(d) \subseteq Groups
<1>1. CASE d.cur = 0 \/ ~ManifestOK(d)
  BY <1>1 DEF Replayed
<1>2. CASE ~(d.cur = 0 \/ ~ManifestOK(d))
  <2> DEFINE S == LogsToReplay(d, CurrentState(d))
  <2>1. S \subseteq DOMAIN d.log
    BY DEF LogsToReplay
  <2>2. Replayed(d) = UNION {Readable(d.log[n]) : n \in S}
    BY <1>2 DEF Replayed
  <2> HIDE DEF S
  <2>3. IsDir(d.log, Groups)
    BY DEF IsDisk
  <2>4. QED BY <2>1, <2>2, <2>3, LogEntries
<1>3. QED BY <1>1, <1>2

\* Recover: what the manifest and the logs say is typed.
LEMMA RecoverInv ==
  ASSUME Inv, Recover
  PROVE  Inv'
<1> DEFINE st == CurrentState(disk)
           S == LogsToReplay(disk, st)
           logs == InOrder(S, <)
           items == [i \in DOMAIN logs |-> ReplayItems(logs[i], disk.log[logs[i]])]
           last == Max({st.last, MaxReplayed(disk, st)})
<1>1. IsDisk(disk) /\ ManifestOK(disk)
  BY DEF Inv, Typed, Recover, RecoverOK
<1>2. st.ver \in VersionType /\ st.ptr \in [Levels -> IKeyType] /\ st.next \in Nat /\ st.log \in Nat /\ st.last \in Nat
  BY <1>1, CurrentStateType
<1>3. S \subseteq DOMAIN disk.log /\ IsDir(disk.log, Groups)
  BY <1>1 DEF LogsToReplay, IsDisk
<1> HIDE DEF st
<1>4. S \in SUBSET Nat /\ IsFiniteSet(S)
  BY <1>3, FS_Subset DEF IsDir
<1>5. MaxReplayed(disk, st) \in Nat
  <2> DEFINE es == UNION {UNION Readable(disk.log[n]) : n \in S}
  <2>1. MaxReplayed(disk, st) = Max({0} \cup {e.s : e \in es})
    BY DEF MaxReplayed
  <2>2. es \in EntrySets
    <3> HIDE DEF S
    <3> QED BY <1>3, LogEntries
  <2> HIDE DEF es
  <2>3. QED BY <2>1, <2>2, MaxSeqNat
<1>6. last \in Nat
  BY <1>2, <1>5, MaxOfTwo
<1>7. FlattenSeq(items) \in Seq(ItemType)
  <2> HIDE DEF S
  <2>1. logs \in Seq(S)
    BY <1>4, NumbersInOrder
  <2> HIDE DEF logs
  <2>2. Len(logs) \in Nat /\ DOMAIN logs = 1 .. Len(logs) /\ \A i \in 1 .. Len(logs) : logs[i] \in S
    BY <2>1, LenProperties, ElementOfSeq
  <2>3. ASSUME NEW n \in S PROVE ReplayItems(n, disk.log[n]) \in Seq(ItemType)
    <3>1. disk.log[n] \in FileOf(Groups) /\ n \in Nat
      BY <1>3, <1>4 DEF IsDir
    <3>2. QED BY <3>1, ReplayItemsType
  <2>4. items \in [1 .. Len(logs) -> Seq(ItemType)]
    BY <2>2, <2>3
  <2> HIDE DEF items
  <2>5. items \in Seq(Seq(ItemType))
    BY <2>2, <2>4, IsASeq
  <2>6. QED BY <2>5, FlattenType
<1>8. /\ vs' = [ClosedVS EXCEPT !.man = st.next, !.next = st.next + 1, !.log = st.log,
                               !.last = last, !.ver = st.ver, !.ptr = st.ptr]
      /\ db' = [ClosedDB EXCEPT !.phase = "recovering", !.todo = FlattenSeq(items)]
  BY DEF Recover, st
<1> HIDE DEF last, items, S, logs
<1>9. UNCHANGED <<disk, mems, wr, bg, rd, snaps, cr, hist, synced>> /\ db.phase # "open"
  BY DEF Recover
<1>10. vs' \in VSType
  <2> DEFINE P == [Levels -> IKeyType]
             K == SUBSET (Levels \X FileType)
             n == st.next + 1
  <2>1. ClosedVS \in [next : Nat, man : Nat, last : Nat, log : Nat, ver : VersionType, ptr : P, seek : K]
    BY ClosedTypes DEF VSType
  <2>2. ClosedVS.seek = {} /\ n \in Nat /\ st.ptr \in P
    BY <1>2 DEF ClosedVS
  <2>3. vs' = [ClosedVS EXCEPT !.man = st.next, !.next = n, !.log = st.log,
                               !.last = last, !.ver = st.ver, !.ptr = st.ptr]
    BY <1>8
  <2> HIDE DEF P, K, n
  <2>4. /\ vs' \in [next : Nat, man : Nat, last : Nat, log : Nat, ver : VersionType, ptr : P, seek : K]
        /\ vs'.seek = {}
    BY <1>2, <1>6, <2>1, <2>2, <2>3
  <2>5. QED BY <2>4 DEF VSType, SeekType, P, K
<1>11. /\ db' \in DBType
       /\ db'.phase = "recovering" /\ db'.queue = <<>> /\ db'.waiting = {} /\ db'.imm = 0
       /\ ~db'.shut /\ ~db'.err /\ ~db'.sched /\ ~db'.manual
  <2>1. /\ ClosedDB \in DBType
        /\ ClosedDB.queue = <<>> /\ ClosedDB.waiting = {} /\ ClosedDB.imm = 0
        /\ ~ClosedDB.shut /\ ~ClosedDB.err /\ ~ClosedDB.sched /\ ~ClosedDB.manual
    BY ClosedTypes DEF ClosedDB
  <2>2. QED BY <1>7, <1>8, <2>1 DEF DBType, ItemType
<1>12. Typed'
  BY <1>9, <1>10, <1>11 DEF Inv, Typed
<1>13. Quiet'
  BY <1>9, <1>11 DEF Inv, Quiet
<1>14. MemRefs'
  BY <1>9, <1>11 DEF Inv, MemRefs, Quiet
<1>15. Scheduled'
  BY <1>9, <1>11 DEF Inv, Scheduled, Quiet, WaitersAreSignalled
<1>16. QED BY <1>12, <1>13, <1>14, <1>15 DEF Inv

\* Changing one field of the VersionSet.
LEMMA VSChange ==
  ASSUME NEW v \in VSType
  PROVE  /\ \A n \in Nat : /\ [v EXCEPT !.next = n] \in VSType /\ [v EXCEPT !.next = n].next = n
                           /\ [v EXCEPT !.next = n].man = v.man /\ [v EXCEPT !.next = n].last = v.last
                           /\ [v EXCEPT !.next = n].log = v.log /\ [v EXCEPT !.next = n].ver = v.ver
                           /\ [v EXCEPT !.next = n].ptr = v.ptr /\ [v EXCEPT !.next = n].seek = v.seek
         /\ \A n \in Nat : /\ [v EXCEPT !.last = n] \in VSType /\ [v EXCEPT !.last = n].last = n
                           /\ [v EXCEPT !.last = n].man = v.man /\ [v EXCEPT !.last = n].next = v.next
                           /\ [v EXCEPT !.last = n].log = v.log /\ [v EXCEPT !.last = n].ver = v.ver
                           /\ [v EXCEPT !.last = n].ptr = v.ptr /\ [v EXCEPT !.last = n].seek = v.seek
         /\ \A s \in SeekType(v.ver) :
                           /\ [v EXCEPT !.seek = s] \in VSType /\ [v EXCEPT !.seek = s].seek = s
                           /\ [v EXCEPT !.seek = s].man = v.man /\ [v EXCEPT !.seek = s].next = v.next
                           /\ [v EXCEPT !.seek = s].log = v.log /\ [v EXCEPT !.seek = s].ver = v.ver
                           /\ [v EXCEPT !.seek = s].ptr = v.ptr /\ [v EXCEPT !.seek = s].last = v.last
         /\ \A l \in Levels, k \in IKeyType :
                           /\ [v EXCEPT !.ptr[l] = k] \in VSType /\ [v EXCEPT !.ptr[l] = k].seek = v.seek
                           /\ [v EXCEPT !.ptr[l] = k].man = v.man /\ [v EXCEPT !.ptr[l] = k].next = v.next
                           /\ [v EXCEPT !.ptr[l] = k].log = v.log /\ [v EXCEPT !.ptr[l] = k].ver = v.ver
                           /\ [v EXCEPT !.ptr[l] = k].last = v.last
<1> DEFINE P == [Levels -> IKeyType]
           K == SUBSET (Levels \X FileType)
<1>1. v \in [next : Nat, man : Nat, last : Nat, log : Nat, ver : VersionType, ptr : P, seek : K] /\ v.seek \in SeekType(v.ver)
  BY DEF VSType
<1>2. SeekType(v.ver) \subseteq K
  BY DEF SeekType
<1>3. \A l \in Levels, k \in IKeyType : [v.ptr EXCEPT ![l] = k] \in P
  BY <1>1
<1> HIDE DEF P, K
<1>4. ASSUME NEW n \in Nat
      PROVE  /\ [v EXCEPT !.next = n] \in [next : Nat, man : Nat, last : Nat, log : Nat, ver : VersionType, ptr : P, seek : K]
             /\ [v EXCEPT !.next = n].next = n
             /\ [v EXCEPT !.next = n].man = v.man /\ [v EXCEPT !.next = n].last = v.last
             /\ [v EXCEPT !.next = n].log = v.log /\ [v EXCEPT !.next = n].ver = v.ver
             /\ [v EXCEPT !.next = n].ptr = v.ptr /\ [v EXCEPT !.next = n].seek = v.seek
  BY <1>1
<1>5. ASSUME NEW n \in Nat
      PROVE  /\ [v EXCEPT !.last = n] \in [next : Nat, man : Nat, last : Nat, log : Nat, ver : VersionType, ptr : P, seek : K]
             /\ [v EXCEPT !.last = n].last = n
             /\ [v EXCEPT !.last = n].man = v.man /\ [v EXCEPT !.last = n].next = v.next
             /\ [v EXCEPT !.last = n].log = v.log /\ [v EXCEPT !.last = n].ver = v.ver
             /\ [v EXCEPT !.last = n].ptr = v.ptr /\ [v EXCEPT !.last = n].seek = v.seek
  BY <1>1
<1>6. ASSUME NEW s \in SeekType(v.ver)
      PROVE  /\ [v EXCEPT !.seek = s] \in [next : Nat, man : Nat, last : Nat, log : Nat, ver : VersionType, ptr : P, seek : K]
             /\ [v EXCEPT !.seek = s].seek = s
             /\ [v EXCEPT !.seek = s].man = v.man /\ [v EXCEPT !.seek = s].next = v.next
             /\ [v EXCEPT !.seek = s].log = v.log /\ [v EXCEPT !.seek = s].ver = v.ver
             /\ [v EXCEPT !.seek = s].ptr = v.ptr /\ [v EXCEPT !.seek = s].last = v.last
  BY <1>1, <1>2
<1>7. ASSUME NEW l \in Levels, NEW k \in IKeyType
      PROVE  /\ [v EXCEPT !.ptr[l] = k] \in [next : Nat, man : Nat, last : Nat, log : Nat, ver : VersionType, ptr : P, seek : K]
             /\ [v EXCEPT !.ptr[l] = k].seek = v.seek
             /\ [v EXCEPT !.ptr[l] = k].man = v.man /\ [v EXCEPT !.ptr[l] = k].next = v.next
             /\ [v EXCEPT !.ptr[l] = k].log = v.log /\ [v EXCEPT !.ptr[l] = k].ver = v.ver
             /\ [v EXCEPT !.ptr[l] = k].last = v.last
  BY <1>1, <1>3
<1>8. QED BY <1>1, <1>4, <1>5, <1>6, <1>7 DEF VSType, P, K

\* A set of additions with one more.
LEMMA AddsAdd ==
  ASSUME NEW S \in Adds, NEW l \in Levels, NEW f \in FileType
  PROVE  S \cup {<<l, f>>} \in Adds
<1>1. IsFiniteSet(S) /\ S \subseteq Levels \X FileType
  BY DEF Adds
<1>2. IsFiniteSet(S \cup {<<l, f>>})
  BY <1>1, FS_AddElement
<1>3. QED BY <1>1, <1>2 DEF Adds

\* A table that holds some entries.
LEMMA TableFacts ==
  ASSUME NEW es \in Groups, NEW n \in Nat
  PROVE  FileMeta(n, es) \in FileType /\ FileMeta(n, es).num = n /\ Synced(NewFile(<<es>>)) \in FileOf(Groups)
<1>1. es \in SUBSET RawEntry /\ IsFiniteSet(es) /\ es # {}
  BY EntryFacts DEF Groups, EntrySets
<1>2. FileMeta(n, es) \in FileType /\ FileMeta(n, es).num = n
  BY <1>1, FileMetaType
<1>3. <<es>> \in Seq(Groups)
  OBVIOUS
<1>4. QED BY <1>2, <1>3, FileFacts

\* A table from a log.
LEMMA ReplayTableInv ==
  ASSUME Inv, ReplayTable
  PROVE  Inv'
<1> DEFINE item == Head(db.todo)
           n == vs.next
<1>1. vs \in VSType /\ db \in DBType /\ IsDisk(disk) /\ n \in Nat
  BY DEF Inv, Typed, VSType
<1>2. db.phase = "recovering" /\ db.todo # <<>>
  BY DEF ReplayTable
<1>3. item \in ItemType /\ Tail(db.todo) \in Seq(ItemType)
  <2>1. db.todo \in Seq(ItemType)
    BY <1>1 DEF DBType, ItemType
  <2>2. QED BY <1>2, <2>1, HeadTailProperties
<1>4. /\ MarkFileNumberUsed(n, item.mark) \in Nat /\ MarkFileNumberUsed(n + 1, item.mark) \in Nat
      /\ item.es \in EntrySets
  BY <1>1, <1>3 DEF MarkFileNumberUsed, ItemType
<1>5. UNCHANGED <<mems, wr, bg, rd, snaps, cr, hist, synced>>
  BY DEF ReplayTable
<1> DEFINE td == Tail(db.todo)
           f == FileMeta(n, item.es)
           tb == With(disk.tab, n, Synced(NewFile(<<item.es>>)))
<1>6. \/ /\ vs' = [vs EXCEPT !.next = MarkFileNumberUsed(n, item.mark)]
         /\ db' = [db EXCEPT !.todo = td]
         /\ disk' = disk
      \/ /\ item.es # {}
         /\ vs' = [vs EXCEPT !.next = MarkFileNumberUsed(n + 1, item.mark)]
         /\ db' = [db EXCEPT !.todo = td, !.add = db.add \cup {<<0, f>>}]
         /\ disk' = [disk EXCEPT !.tab = tb]
  BY DEF ReplayTable
<1>7. vs' \in VSType
  <2>1. \E m \in Nat : vs' = [vs EXCEPT !.next = m]
    BY <1>4, <1>6
  <2>2. QED BY <1>1, <2>1, VSChange
<1>8. ASSUME item.es # {} PROVE f \in FileType /\ IsDir(tb, Groups)
  <2>1. item.es \in Groups
    BY <1>4, <1>8 DEF Groups
  <2>2. f \in FileType /\ Synced(NewFile(<<item.es>>)) \in FileOf(Groups)
    BY <1>1, <2>1, TableFacts
  <2>3. QED BY <1>1, <2>2, DirWith DEF IsDisk
<1>9. ASSUME item.es # {} PROVE db.add \cup {<<0, f>>} \in Adds
  <2>1. 0 \in Levels /\ db.add \in Adds
    BY <1>1, ConfigAssumption DEF Levels, DBType
  <2> HIDE DEF f
  <2>2. QED BY <1>8, <1>9, <2>1, AddsAdd
<1> HIDE DEF item, td, f, tb
<1>10. IsDisk(disk')
  <2>1. CASE disk' = disk
    BY <1>1, <2>1
  <2>2. CASE item.es # {} /\ disk' = [disk EXCEPT !.tab = tb]
    <3>1. IsDisk([disk EXCEPT !.tab = tb])
      BY <1>1, <1>8, <2>2, DiskChange
    <3>2. QED BY <2>2, <3>1
  <2>3. QED BY <1>6, <2>1, <2>2
<1>11. /\ db' \in DBType
       /\ db'.phase = db.phase /\ db'.queue = db.queue /\ db'.waiting = db.waiting /\ db'.imm = db.imm
       /\ db'.shut = db.shut /\ db'.err = db.err /\ db'.sched = db.sched /\ db'.manual = db.manual
  <2>1. td \in Seq([es : EntrySets, mark : Nat])
    BY <1>3 DEF td, ItemType
  <2>2. QED BY <1>1, <1>6, <1>9, <2>1 DEF DBType
<1>12. Typed'
  BY <1>5, <1>7, <1>10, <1>11 DEF Inv, Typed
<1>13. Quiet'
  BY <1>5, <1>11 DEF Inv, Quiet
<1>14. MemRefs'
  BY <1>2, <1>5, <1>11 DEF Inv, MemRefs
<1>15. Scheduled'
  BY <1>2, <1>5, <1>11 DEF Inv, Scheduled, WaitersAreSignalled
<1>16. QED BY <1>12, <1>13, <1>14, <1>15 DEF Inv

\* An edit whose fields LogAndApply has filled in.
LEMMA FilledType ==
  ASSUME NEW v \in VSType, NEW log \in Nat, NEW ptrs \in SUBSET (Levels \X IKeyType),
         NEW del \in SUBSET (Levels \X Nat), NEW add \in Adds
  PROVE  /\ Filled(v, log, ptrs, del, add) \in FilledEdit /\ Filled(v, log, ptrs, del, add) \in EditType
         /\ Filled(v, log, ptrs, del, add).log = log /\ Filled(v, log, ptrs, del, add).next = v.next
         /\ Filled(v, log, ptrs, del, add).last = v.last /\ Filled(v, log, ptrs, del, add).ptrs = ptrs
         /\ Filled(v, log, ptrs, del, add).del = del /\ Filled(v, log, ptrs, del, add).add = add
<1>1. v.next \in Nat /\ v.last \in Nat
  BY DEF VSType
<1>2. Filled(v, log, ptrs, del, add) =
        [log |-> log, next |-> v.next, last |-> v.last, ptrs |-> ptrs, del |-> del, add |-> add]
  BY DEF Filled, Edit
<1>3. QED BY <1>1, <1>2, FilledIsEdit DEF FilledEdit

\* The edit WriteSnapshot writes.
LEMMA SnapshotType ==
  ASSUME NEW v \in VersionType, NEW ptr \in [Levels -> IKeyType]
  PROVE  SnapshotEdit(v, ptr) \in EditType
<1> DEFINE add == UNION {{<<l, f>> : f \in v[l]} : l \in Levels}
           ptrs == {<<l, ptr[l]>> : l \in {m \in Levels : ptr[m] # NoPointer}}
<1>1. SnapshotEdit(v, ptr) = [log |-> None, next |-> None, last |-> None, ptrs |-> ptrs, del |-> {}, add |-> add]
  BY DEF SnapshotEdit, Edit
<1>2. add \subseteq Levels \X VersionFiles(v)
  BY DEF VersionFiles
<1>3. ptrs \in SUBSET (Levels \X IKeyType)
  OBVIOUS
<1> HIDE DEF add, ptrs
<1>4. IsFiniteSet(Levels) /\ IsFiniteSet(VersionFiles(v)) /\ VersionFiles(v) \subseteq FileType
  BY ConfigAssumption, FS_Interval, VersionFilesFinite DEF Levels, FileSets
<1>5. IsFiniteSet(Levels \X VersionFiles(v))
  BY <1>4, FS_Product
<1>6. IsFiniteSet(add)
  BY <1>2, <1>5, FS_Subset
<1>7. add \in Adds
  BY <1>2, <1>4, <1>6 DEF Adds
<1>8. QED BY <1>1, <1>3, <1>7 DEF EditType, OptNat

\* A new log, memtable and manifest.
LEMMA StartManifestInv ==
  ASSUME Inv, StartManifest
  PROVE  Inv'
<1> DEFINE n == vs.next
           v == [vs EXCEPT !.next = n + 1]
           e == Filled(v, n, {}, {}, db.add)
           lg == With(disk.log, n, NewFile(<<>>))
           mn == With(disk.man, vs.man, NewFile(<<SnapshotEdit(vs.ver, vs.ptr), e>>))
<1>1. /\ vs \in VSType /\ db \in DBType /\ IsDisk(disk) /\ n \in Nat /\ vs.man \in Nat /\ bg \in BGType
      /\ db.add \in Adds /\ vs.ver \in VersionType /\ vs.ptr \in [Levels -> IKeyType]
  BY DEF Inv, Typed, VSType, DBType
<1>2. db.phase = "recovering"
  BY DEF StartManifest
<1>3. v \in VSType /\ v.next = n + 1
  <2>1. n + 1 \in Nat
    BY <1>1
  <2>2. QED BY <1>1, <2>1, VSChange
<1>4. e \in FilledEdit /\ e \in EditType
  <2> HIDE DEF v
  <2> QED BY <1>1, <1>3, FilledType
<1>5. IsDir(lg, Groups)
  <2>1. <<>> \in Seq(Groups)
    OBVIOUS
  <2>2. NewFile(<<>>) \in FileOf(Groups)
    BY <2>1, FileFacts
  <2>3. QED BY <1>1, <2>2, DirWith DEF IsDisk
<1>6. IsDir(mn, EditType)
  <2> HIDE DEF e
  <2>1. SnapshotEdit(vs.ver, vs.ptr) \in EditType
    BY <1>1, SnapshotType
  <2>2. <<SnapshotEdit(vs.ver, vs.ptr), e>> \in Seq(EditType)
    BY <1>4, <2>1
  <2>3. NewFile(<<SnapshotEdit(vs.ver, vs.ptr), e>>) \in FileOf(EditType)
    BY <2>2, FileFacts
  <2>4. QED BY <1>1, <2>3, DirWith DEF IsDisk
<1>7. /\ vs' = v /\ disk' = [disk EXCEPT !.log = lg, !.man = mn]
      /\ db' = [db EXCEPT !.phase = "manifest", !.mem = n]
      /\ mems' = With(<<>>, n, {}) /\ bg' = [bg EXCEPT !.edit = e]
      /\ UNCHANGED <<wr, rd, snaps, cr, hist, synced>>
  BY DEF StartManifest
<1> HIDE DEF v, e, lg, mn
<1>8. IsDisk(disk')
  <2>1. IsDisk([disk EXCEPT !.log = lg])
    BY <1>1, <1>5, DiskChange
  <2>2. IsDisk([[disk EXCEPT !.log = lg] EXCEPT !.man = mn])
    BY <1>6, <2>1, DiskChange
  <2>3. QED BY <1>7, <2>2
<1>9. /\ db' \in DBType /\ db'.mem = n
      /\ db'.phase = "manifest" /\ db'.queue = db.queue /\ db'.waiting = db.waiting /\ db'.imm = db.imm
      /\ db'.shut = db.shut /\ db'.err = db.err /\ db'.sched = db.sched /\ db'.manual = db.manual
  BY <1>1, <1>7 DEF DBType
<1>10. IsMems(mems') /\ n \in DOMAIN mems'
  <2>1. DOMAIN mems' = {n} /\ mems'[n] = {} /\ mems' = [m \in DOMAIN mems' |-> mems'[m]]
    BY <1>7 DEF With
  <2>2. QED BY <1>1, <2>1, EntryFacts DEF IsMems
<1>11. bg' \in BGType /\ bg'.pc = bg.pc /\ bg'.comp = bg.comp
  BY <1>1, <1>4, <1>7 DEF BGType
<1>12. Typed'
  BY <1>3, <1>7, <1>8, <1>9, <1>10, <1>11 DEF Inv, Typed
<1>13. Quiet'
  BY <1>2, <1>7, <1>9, <1>11 DEF Inv, Quiet
<1>14. MemRefs'
  BY <1>2, <1>7, <1>9, <1>10, <1>11 DEF Inv, MemRefs, Quiet
<1>15. Scheduled'
  BY <1>2, <1>7, <1>9, <1>11 DEF Inv, Scheduled, WaitersAreSignalled, Quiet
<1>16. QED BY <1>12, <1>13, <1>14, <1>15 DEF Inv

\* The recovered version is installed.
LEMMA FinishOpenInv ==
  ASSUME Inv, FinishOpen
  PROVE  Inv'
<1> DEFINE v == Installed(vs, bg.edit)
           mn == [disk.man EXCEPT ![vs.man] = Synced(disk.man[vs.man])]
           d == [disk EXCEPT !.man = mn, !.cur = vs.man]
           o == [db EXCEPT !.phase = "open", !.add = {}]
<1>1. /\ vs \in VSType /\ db \in DBType /\ IsDisk(disk) /\ vs.man \in Nat /\ bg.edit \in FilledEdit
  BY DEF Inv, Typed, VSType, BGType
<1>2. db.phase = "manifest"
  BY DEF FinishOpen
<1>3. v \in VSType
  BY <1>1, InstalledType
<1>4. IsDir(mn, EditType)
  <2>1. IsDir(disk.man, EditType) /\ (vs.man \in DOMAIN disk.man => disk.man[vs.man] \in FileOf(EditType))
    BY <1>1 DEF IsDisk, IsDir
  <2>2. QED BY <2>1, FileFacts, DirUpdate
<1>5. /\ vs' = v /\ disk' = DeleteObsolete(d, v, FALSE, LiveFiles({}, {v.ver}))
      /\ db' = MaybeSchedule(o, v) /\ bg' = IdleBG
      /\ UNCHANGED <<mems, wr, rd, snaps, cr, hist, synced>>
  BY DEF FinishOpen
<1> HIDE DEF v, mn
<1>6. IsDisk(d)
  <2>1. disk \in [log : {disk.log}, tab : {disk.tab}, man : {disk.man}, cur : Nat]
    BY <1>1 DEF IsDisk
  <2>2. /\ d \in [log : {disk.log}, tab : {disk.tab}, man : {mn}, cur : Nat]
        /\ d.log = disk.log /\ d.tab = disk.tab /\ d.man = mn
    BY <1>1, <2>1
  <2>3. QED BY <1>1, <1>4, <2>2 DEF IsDisk
<1> HIDE DEF d
<1>7. IsDisk(disk')
  BY <1>5, <1>6, DeleteObsoleteType
<1>8. /\ o \in DBType /\ o.phase = "open" /\ o.queue = db.queue /\ o.waiting = db.waiting /\ o.imm = db.imm
      /\ o.shut = db.shut /\ o.err = db.err /\ o.sched = db.sched /\ o.manual = db.manual /\ o.mem = db.mem
  BY <1>1, FS_EmptySet DEF DBType, Adds
<1> HIDE DEF o
<1>9. /\ db' \in DBType /\ db'.phase = "open" /\ db'.queue = db.queue /\ db'.waiting = db.waiting
      /\ db'.imm = db.imm /\ db'.shut = db.shut /\ db'.err = db.err /\ db'.manual = db.manual /\ db'.mem = db.mem
      /\ db'.sched <=> db.sched \/ (~db.shut /\ ~db.err /\ (db.imm # 0 \/ db.manual \/ NeedsCompaction(v)))
  BY <1>5, <1>8, ScheduleFacts
<1>10. bg'.pc = "idle" /\ bg'.comp = {}
  BY <1>5 DEF IdleBG
<1>11. Typed'
  BY <1>3, <1>5, <1>7, <1>9, NewDBEditType DEF Inv, Typed
<1>12. Quiet'
  BY <1>9 DEF Quiet
<1>13. MemRefs'
  BY <1>2, <1>5, <1>9, <1>10 DEF Inv, MemRefs, Quiet
<1>14. Scheduled'
  <2>1. db.waiting = {} /\ ~db.shut /\ db.queue = <<>> /\ cr = IdleCompact
    BY <1>2 DEF Inv, Quiet
  <2>2. NeedsCompaction(vs)' <=> NeedsCompaction(v)
    BY <1>5 DEF NeedsCompaction
  <2>3. QED BY <1>5, <1>9, <1>10, <2>1, <2>2 DEF Scheduled, WaitersAreSignalled
<1>15. QED BY <1>11, <1>12, <1>13, <1>14 DEF Inv

\* The invariant holds again when the process is gone.
LEMMA StoppedInv ==
  ASSUME IsDisk(disk'), hist' \in SUBSET EntrySets, synced' \in SUBSET EntrySets,
         vs' = ClosedVS, db' = ClosedDB, mems' = <<>>, wr' = [t \in Threads |-> IdleWriter],
         bg' = IdleBG, rd' = [r \in Readers |-> {}], snaps' \in SUBSET Nat, cr' = IdleCompact
  PROVE  Inv'
<1>1. Typed'
  <2>1. rd' \in [Readers -> SUBSET PinType]
    OBVIOUS
  <2>2. QED BY <2>1, ClosedTypes, NewDBEditType DEF Typed
<1>2. Quiet'
  BY DEF Quiet, ClosedDB, IdleBG
<1>3. MemRefs'
  BY DEF MemRefs, ClosedDB, IdleBG
<1>4. Scheduled'
  BY DEF Scheduled, WaitersAreSignalled, ClosedDB, IdleBG
<1>5. QED BY <1>1, <1>2, <1>3, <1>4 DEF Inv

\* An error while opening deletes the new manifest and closes.
LEMMA OpenErrorInv ==
  ASSUME Inv, OpenError
  PROVE  Inv'
<1> DEFINE mn == Restrict(disk.man, DOMAIN disk.man \ {vs.man})
<1>1. IsDisk(disk) /\ IsDir(disk.man, EditType)
  BY DEF Inv, Typed, IsDisk
<1>2. IsDir(mn, EditType)
  BY <1>1, DirRestrict
<1>3. disk' = [disk EXCEPT !.man = mn]
  BY DEF OpenError
<1> HIDE DEF mn
<1>4. IsDisk(disk')
  BY <1>1, <1>2, <1>3, DiskChange
<1>5. /\ rd = [r \in Readers |-> {}] /\ wr = [t \in Threads |-> IdleWriter] /\ cr = IdleCompact
      /\ snaps \in SUBSET Nat /\ hist \in SUBSET EntrySets /\ synced \in SUBSET EntrySets
  BY DEF OpenError, Inv, Typed, Quiet
<1>6. /\ vs' = ClosedVS /\ db' = ClosedDB /\ mems' = <<>> /\ bg' = IdleBG
      /\ UNCHANGED <<wr, rd, snaps, cr, hist, synced>>
  BY DEF OpenError
<1>7. QED BY <1>4, <1>5, <1>6, StoppedInv

\* What is left when the process stops, on whatever disk.
LEMMA StoppedOn ==
  ASSUME Inv, NEW d, IsDisk(d), d.cur \in Nat, Stopped(d), UNCHANGED synced
  PROVE  Inv'
<1>1. IsDir(disk.log, Groups) /\ synced' \in SUBSET EntrySets /\ hist \in SUBSET EntrySets
  BY DEF Inv, Typed, IsDisk
<1>2. IsDisk([d EXCEPT !.log = disk.log])
  BY <1>1, DiskChange
<1>3. Replayed(d) \subseteq EntrySets
  BY ReplayedType DEF Groups
<1>4. hist' = (hist \ Logged([d EXCEPT !.log = disk.log])) \cup Replayed(d)
  BY DEF Stopped
<1>5. hist' \in SUBSET EntrySets
  BY <1>1, <1>3, <1>4
<1>6. /\ disk' = d /\ vs' = ClosedVS /\ db' = ClosedDB /\ mems' = <<>>
      /\ wr' = [t \in Threads |-> IdleWriter]
      /\ bg' = IdleBG /\ cr' = IdleCompact /\ snaps' = {}
      /\ rd' = [r \in Readers |-> {}]
  BY DEF Stopped
<1>7. QED BY <1>1, <1>5, <1>6, StoppedInv

\* The end of the destructor, the crash of a cancelled manual compaction and a
\* crash of the process or the machine.
LEMMA FinishCloseInv ==
  ASSUME Inv, FinishClose \/ CancelledManualCrashes \/ Crash
  PROVE  Inv'
<1>1. IsDisk(disk) /\ disk.cur \in Nat
  BY DEF Inv, Typed, IsDisk
<1>2. CASE FinishClose \/ CancelledManualCrashes
  BY <1>1, <1>2, StoppedOn DEF FinishClose, CancelledManualCrashes
<1>3. CASE Crash
  <2>1. PICK lg \in SurvivingFiles(disk.log), mn \in SurvivingFiles(disk.man), tb \in SurvivingFiles(disk.tab) :
          Stopped([log |-> lg, man |-> mn, tab |-> tb, cur |-> disk.cur])
    BY <1>3 DEF Crash
  <2>2. IsDir(lg, Groups) /\ IsDir(tb, Groups) /\ IsDir(mn, EditType)
    BY <1>1, SurvivingFacts DEF IsDisk
  <2>3. IsDisk([log |-> lg, man |-> mn, tab |-> tb, cur |-> disk.cur])
    BY <1>1, <2>2 DEF IsDisk
  <2>4. UNCHANGED synced
    BY <1>3 DEF Crash
  <2> DEFINE d == [log |-> lg, man |-> mn, tab |-> tb, cur |-> disk.cur]
  <2>5. d.cur \in Nat
    BY <1>1
  <2>6. Stopped(d) /\ IsDisk(d)
    BY <2>1, <2>3
  <2> HIDE DEF d
  <2>7. QED BY <2>4, <2>5, <2>6, StoppedOn
<1>4. QED BY <1>2, <1>3

-----------------------------------------------------------------------------
(* The invariant: writing.                                                   *)

\* What joining the queue changes.
LEMMA EnqueueFacts ==
  ASSUME db \in DBType, wr \in [Threads -> WriterType], NEW t \in Threads,
         NEW batch \in Seq(Ops), NEW sync \in BOOLEAN, Enqueue(t, batch, sync)
  PROVE  /\ db' \in DBType /\ wr' \in [Threads -> WriterType]
         /\ db'.sched = db.sched /\ db'.waiting = db.waiting
         /\ db'.phase = db.phase /\ db'.mem = db.mem /\ db'.imm = db.imm /\ db'.pending = db.pending
         /\ db'.err = db.err /\ db'.shut = db.shut /\ db'.manual = db.manual
         /\ db'.todo = db.todo /\ db'.add = db.add
<1> DEFINE q == Append(db.queue, t)
           w == [IdleWriter EXCEPT !.pc = "queued", !.batch = batch, !.sync = sync]
<1>1. q \in Seq(Threads)
  BY AppendProperties DEF DBType
<1>2. db' = [db EXCEPT !.queue = q] /\ wr' = [wr EXCEPT ![t] = w]
  BY DEF Enqueue
<1>3. w \in WriterType
  <2>1. /\ IdleWriter \in [pc : {"idle", "queued", "delayed", "logged", "inserted"}, batch : Seq(Ops),
                          sync : BOOLEAN, ents : EntrySets, group : Seq(Threads)]
    BY EntryFacts DEF IdleWriter
  <2>2. /\ w \in [pc : {"idle", "queued", "delayed", "logged", "inserted"}, batch : Seq(Ops),
                 sync : BOOLEAN, ents : EntrySets, group : Seq(Threads)]
        /\ w.pc = "queued"
    BY <2>1
  <2> HIDE DEF w
  <2>3. QED BY <2>2 DEF WriterType
<1> HIDE DEF q, w
<1>4. wr' \in [Threads -> WriterType]
  BY <1>2, <1>3
<1>5. db' \in DBType
  BY <1>1, <1>2 DEF DBType
<1>6. QED BY <1>2, <1>4, <1>5 DEF DBType

\* A call of Write.
LEMMA WriteInv ==
  ASSUME Inv, NEW t \in Writers, NEW call \in Calls, Write(t, call)
  PROVE  Inv'
<1>1. db \in DBType /\ wr \in [Threads -> WriterType] /\ t \in Threads
  BY DEF Inv, Typed, Threads
<1>2. call.batch \in Seq(Ops) /\ call.sync \in BOOLEAN
  BY DBAssumption DEF Ops
<1>3. IsOpen /\ Enqueue(t, call.batch, call.sync) /\ UNCHANGED <<disk, vs, mems, bg, rd, snaps, cr, hist, synced>>
  BY DEF Write
<1>4. /\ db' \in DBType /\ wr' \in [Threads -> WriterType]
      /\ db'.sched = db.sched /\ db'.waiting = db.waiting
      /\ db'.phase = db.phase /\ db'.mem = db.mem /\ db'.imm = db.imm
      /\ db'.err = db.err /\ db'.shut = db.shut /\ db'.manual = db.manual
  BY <1>1, <1>2, <1>3, EnqueueFacts
<1>5. Typed'
  BY <1>3, <1>4 DEF Inv, Typed
<1>6. Quiet' /\ MemRefs'
  BY <1>3, <1>4 DEF Inv, Quiet, MemRefs, IsOpen
<1>7. Scheduled'
  BY <1>3, <1>4 DEF Inv, Scheduled, WaitersAreSignalled, IsOpen, NeedsCompaction
<1>8. QED BY <1>5, <1>6, <1>7 DEF Inv

\* The group of a failed write leaves the queue.
LEMMA LeavingInv ==
  ASSUME Inv, NEW d \in DBType, NEW group \in Seq(Threads), Leave(d, wr, group), vs' \in VSType,
         vs'.ver = vs.ver, vs'.seek = vs.seek, db.phase = "open",
         mems' = mems, bg' = bg, rd' = rd, snaps' = snaps, cr' = cr, IsDisk(disk'),
         hist' \in SUBSET EntrySets, synced' \in SUBSET EntrySets,
         d.phase = db.phase, d.mem = db.mem, d.imm = db.imm, d.shut = db.shut, d.manual = db.manual,
         d.queue = db.queue, d.sched = db.sched,
         \/ d.err = db.err /\ d.waiting = db.waiting
         \/ d.err = TRUE /\ d.waiting = {}
  PROVE  Inv'
<1>1. wr \in [Threads -> WriterType]
  BY DEF Inv, Typed
<1>2. /\ db' \in DBType /\ wr' \in [Threads -> WriterType]
      /\ d.queue = <<>> => db'.queue = <<>>
      /\ db'.sched = d.sched /\ db'.waiting = d.waiting
      /\ db'.phase = d.phase /\ db'.mem = d.mem /\ db'.imm = d.imm
      /\ db'.err = d.err /\ db'.shut = d.shut /\ db'.manual = d.manual
  BY <1>1, LeaveFacts
<1>3. Typed'
  BY <1>2 DEF Inv, Typed
<1>4. Quiet' /\ MemRefs'
  BY <1>2 DEF Inv, Quiet, MemRefs
<1>5. Scheduled'
  BY <1>2 DEF Inv, Scheduled, WaitersAreSignalled, NeedsCompaction
<1>6. QED BY <1>3, <1>4, <1>5 DEF Inv

\* MakeRoomForWrite after an error: the write fails.
LEMMA WriteFailsInv ==
  ASSUME Inv, NEW t \in Threads, WriteFails(t)
  PROVE  Inv'
<1>1. <<t>> \in Seq(Threads) /\ db \in DBType /\ vs \in VSType /\ IsDisk(disk)
      /\ hist \in SUBSET EntrySets /\ synced \in SUBSET EntrySets
  BY DEF Inv, Typed
<1>2. /\ Leave(db, wr, <<t>>) /\ db.phase = "open"
      /\ UNCHANGED <<disk, vs, mems, bg, rd, snaps, cr, hist, synced>>
  BY DEF WriteFails, AtHead
<1>3. /\ vs' \in VSType /\ vs'.ver = vs.ver /\ vs'.seek = vs.seek /\ UNCHANGED <<mems, bg, rd, snaps, cr>>
      /\ IsDisk(disk') /\ hist' \in SUBSET EntrySets /\ synced' \in SUBSET EntrySets
  BY <1>1, <1>2
<1>4. PICK d, g : d = db /\ g = <<t>>
  OBVIOUS
<1>5. Leave(d, wr, g)
  BY <1>2, <1>4 DEF Leave
<1>6. /\ mems' = mems /\ bg' = bg /\ rd' = rd /\ snaps' = snaps /\ cr' = cr
  BY <1>2
<1>7. /\ d \in DBType /\ g \in Seq(Threads) /\ d.phase = db.phase /\ d.mem = db.mem /\ d.imm = db.imm /\ d.shut = db.shut /\ d.manual = db.manual
      /\ d.queue = db.queue /\ d.sched = db.sched
      /\ d.err = db.err /\ d.waiting = db.waiting
  BY <1>1, <1>4
<1>8. QED BY <1>2, <1>3, <1>5, <1>6, <1>7, LeavingInv

\* The write is slowed down.
LEMMA WriteDelayedInv ==
  ASSUME Inv, NEW t \in Threads, WriteDelayed(t)
  PROVE  Inv'
<1>1. /\ UNCHANGED <<disk, vs, db, mems, bg, rd, snaps, cr, hist, synced>> /\ db.phase = "open"
      /\ wr' = [wr EXCEPT ![t].pc = "delayed"]
  BY DEF WriteDelayed, AtHead
<1>2. wr' \in [Threads -> WriterType]
  <2>1. wr[t] \in WriterType
    BY DEF Inv, Typed
  <2>2. [wr[t] EXCEPT !.pc = "delayed"] \in WriterType
    BY <2>1 DEF WriterType
  <2>3. QED BY <1>1, <2>2 DEF Inv, Typed
<1>3. Typed'
  BY <1>1, <1>2 DEF Inv, Typed
<1>4. QED BY <1>1, <1>3 DEF Inv, Quiet, MemRefs, Scheduled, WaitersAreSignalled, NeedsCompaction

\* The write waits: a full level 0 or a memtable to flush has scheduled the
\* background call that will wake it.
LEMMA WriteWaitsInv ==
  ASSUME Inv, NEW t \in Threads, WriteWaits(t)
  PROVE  Inv'
<1>1. /\ UNCHANGED <<disk, vs, mems, wr, bg, rd, snaps, cr, hist, synced>> /\ db.phase = "open"
      /\ db' = [db EXCEPT !.waiting = db.waiting \cup {t}] /\ ~db.err /\ db.queue # <<>>
      /\ db.imm # 0 \/ Cardinality(vs.ver[0]) >= StopTrigger
  BY DEF WriteWaits, AtHead
<1>2. db \in DBType /\ vs \in VSType /\ vs.ver \in VersionType
  BY DEF Inv, Typed, VSType
<1>3. /\ db' \in DBType /\ db'.sched = db.sched
      /\ db'.phase = db.phase /\ db'.mem = db.mem /\ db'.imm = db.imm
      /\ db'.err = db.err /\ db'.shut = db.shut /\ db'.manual = db.manual /\ db'.queue = db.queue
  BY <1>1, <1>2 DEF DBType
<1>4. Typed'
  BY <1>1, <1>3 DEF Inv, Typed
<1>5. Quiet' /\ MemRefs'
  BY <1>1, <1>3 DEF Inv, Quiet, MemRefs
<1>6. db.sched
  <2>1. ~db.shut
    BY <1>1 DEF Inv, Scheduled
  <2>2. CASE db.imm # 0
    BY <1>1, <2>1, <2>2 DEF Inv, Scheduled
  <2>3. CASE Cardinality(vs.ver[0]) >= StopTrigger
    <3>1. Cardinality(vs.ver[0]) \in Nat
      <4>1. 0 \in Levels
        BY ConfigAssumption DEF Levels
      <4>2. IsFiniteSet(vs.ver[0])
        BY <1>2, <4>1 DEF VersionType, FileSets
      <4>3. QED BY <4>2, FS_CardinalityType
    <3>2. Cardinality(vs.ver[0]) >= L0CompactionTrigger
      BY <2>3, <3>1, DBAssumption, ConfigAssumption
    <3>3. SizeCompaction(vs.ver)
      BY <1>2, <3>2, FullLevelZero
    <3>4. QED BY <1>1, <2>1, <3>3 DEF Inv, Scheduled, NeedsCompaction
  <2>4. QED BY <1>1, <2>2, <2>3
<1>7. Scheduled'
  BY <1>1, <1>3, <1>6 DEF Inv, Scheduled, WaitersAreSignalled, NeedsCompaction
<1>8. QED BY <1>4, <1>5, <1>7 DEF Inv

\* A group leaves the queue, with its fate: nothing else of the database
\* changes.
LEMMA GroupLeavesInv ==
  ASSUME Inv, NEW g \in Seq(Threads), Leave(db, wr, g), vs' \in VSType, vs'.ver = vs.ver, vs'.seek = vs.seek,
         db.phase = "open", mems' = mems, bg' = bg, rd' = rd, snaps' = snaps, cr' = cr, IsDisk(disk'),
         hist' \in SUBSET EntrySets, synced' \in SUBSET EntrySets
  PROVE  Inv'
<1>1. PICK d : d = db
  OBVIOUS
<1>2. Leave(d, wr, g)
  BY <1>1 DEF Leave
<1>3. db \in DBType
  BY DEF Inv, Typed
<1>4. /\ d \in DBType /\ d.phase = db.phase /\ d.mem = db.mem /\ d.imm = db.imm /\ d.shut = db.shut
      /\ d.manual = db.manual /\ d.queue = db.queue /\ d.sched = db.sched
      /\ d.err = db.err /\ d.waiting = db.waiting
  BY <1>1, <1>3
<1>5. QED BY <1>2, <1>4, LeavingInv

\* Sets of memtables: one more, fewer, more in one.
LEMMA MemsFacts ==
  ASSUME NEW m, IsMems(m)
  PROVE  /\ \A n \in Nat : IsMems(With(m, n, {})) /\ DOMAIN With(m, n, {}) = DOMAIN m \cup {n}
         /\ \A S : IsMems(Restrict(m, DOMAIN m \cap S)) /\ DOMAIN Restrict(m, DOMAIN m \cap S) = DOMAIN m \cap S
         /\ \A n, es : es \in EntrySets =>
              IsMems([m EXCEPT ![n] = m[n] \cup es]) /\ DOMAIN [m EXCEPT ![n] = m[n] \cup es] = DOMAIN m
<1>1. DOMAIN m \subseteq Nat /\ m = [n \in DOMAIN m |-> m[n]] /\ \A n \in DOMAIN m : m[n] \in EntrySets
  BY DEF IsMems
<1>2. ASSUME NEW n \in Nat PROVE IsMems(With(m, n, {})) /\ DOMAIN With(m, n, {}) = DOMAIN m \cup {n}
  BY <1>1, EntryFacts DEF IsMems, With
<1>3. ASSUME NEW S PROVE IsMems(Restrict(m, DOMAIN m \cap S)) /\ DOMAIN Restrict(m, DOMAIN m \cap S) = DOMAIN m \cap S
  BY <1>1 DEF IsMems, Restrict
<1>4. ASSUME NEW n, NEW es, es \in EntrySets
      PROVE  IsMems([m EXCEPT ![n] = m[n] \cup es]) /\ DOMAIN [m EXCEPT ![n] = m[n] \cup es] = DOMAIN m
  <2>1. n \in DOMAIN m => m[n] \cup es \in EntrySets
    BY <1>1, <1>4, EntryFacts
  <2>2. QED BY <1>1, <2>1 DEF IsMems
<1>5. QED BY <1>2, <1>3, <1>4

\* The memtable is switched, or the new log cannot be created.
LEMMA SwitchMemTableInv ==
  ASSUME Inv, NEW t \in Threads, SwitchMemTable(t)
  PROVE  Inv'
<1> DEFINE n == vs.next
           d == [db EXCEPT !.imm = db.mem, !.mem = n]
           v == [vs EXCEPT !.next = n + 1]
           lg == With(disk.log, n, NewFile(<<>>))
           Switch == /\ vs' = v
                     /\ disk' = [disk EXCEPT !.log = lg]
                     /\ mems' = With(mems, n, {})
                     /\ IF IsForced(t) THEN Leave(MaybeSchedule(d, v), wr, <<t>>)
                        ELSE db' = MaybeSchedule(d, v) /\ UNCHANGED wr
<1>1. /\ db.phase = "open" /\ db.queue # <<>> /\ ~db.err /\ db.imm = 0
      /\ Switch \/ (Leave(db, wr, <<t>>) /\ UNCHANGED <<vs, disk, mems>>)
      /\ bg' = bg /\ rd' = rd /\ snaps' = snaps /\ cr' = cr /\ hist' = hist /\ synced' = synced
  BY DEF SwitchMemTable, AtHead
<1>2. /\ db \in DBType /\ vs \in VSType /\ IsDisk(disk) /\ n \in Nat /\ IsMems(mems) /\ db.mem \in Nat
      /\ hist \in SUBSET EntrySets /\ synced \in SUBSET EntrySets /\ wr \in [Threads -> WriterType]
  BY DEF Inv, Typed, VSType, DBType
<1>3. CASE Leave(db, wr, <<t>>) /\ UNCHANGED <<vs, disk, mems>>
  <2>1. vs' = vs /\ disk' = disk /\ mems' = mems /\ Leave(db, wr, <<t>>) /\ <<t>> \in Seq(Threads)
    BY <1>3
  <2>2. PICK g : g = <<t>>
    OBVIOUS
  <2>3. g \in Seq(Threads) /\ Leave(db, wr, g)
    BY <2>1, <2>2 DEF Leave
  <2>4. vs' \in VSType /\ vs'.ver = vs.ver /\ vs'.seek = vs.seek /\ IsDisk(disk')
        /\ hist' \in SUBSET EntrySets /\ synced' \in SUBSET EntrySets
    BY <1>1, <1>2, <2>1
  <2>5. QED BY <1>1, <2>1, <2>3, <2>4, GroupLeavesInv
<1>4. CASE Switch
  <2>1. /\ d \in DBType /\ d.phase = "open" /\ d.mem = n /\ d.imm = db.mem /\ d.err = db.err /\ d.shut = db.shut
        /\ d.manual = db.manual /\ d.queue = db.queue /\ d.waiting = db.waiting /\ d.sched = db.sched
    BY <1>1, <1>2 DEF DBType
  <2>2. v \in VSType
    <3>1. n + 1 \in Nat
      BY <1>2
    <3>2. QED BY <1>2, <3>1, VSChange
  <2>3. IsDisk(disk')
    <3>1. <<>> \in Seq(Groups)
      OBVIOUS
    <3>2. NewFile(<<>>) \in FileOf(Groups)
      BY <3>1, FileFacts
    <3>3. IsDir(lg, Groups)
      BY <1>2, <3>2, DirWith DEF IsDisk
    <3> HIDE DEF lg
    <3>4. QED BY <1>2, <1>4, <3>3, DiskChange
  <2>4. IsMems(mems') /\ DOMAIN mems' = DOMAIN mems \cup {n}
    BY <1>2, <1>4, MemsFacts
  <2> DEFINE m == MaybeSchedule(d, v)
  <2> HIDE DEF d, v
  <2>5. /\ m \in DBType
        /\ m.sched <=> d.sched \/ (~d.shut /\ ~d.err /\ (d.imm # 0 \/ d.manual \/ NeedsCompaction(v)))
        /\ m.phase = d.phase /\ m.mem = d.mem /\ m.imm = d.imm /\ m.err = d.err /\ m.shut = d.shut
        /\ m.manual = d.manual /\ m.queue = d.queue /\ m.waiting = d.waiting
    BY <2>1, ScheduleFacts
  <2>6. \/ Leave(m, wr, <<t>>)
        \/ db' = m /\ wr' = wr
    BY <1>4
  <2> HIDE DEF m
  <2>7. /\ db' \in DBType /\ wr' \in [Threads -> WriterType]
        /\ db'.sched = m.sched /\ db'.waiting = m.waiting
        /\ db'.phase = m.phase /\ db'.mem = m.mem /\ db'.imm = m.imm
        /\ db'.err = m.err /\ db'.shut = m.shut /\ db'.manual = m.manual
    <3>1. CASE Leave(m, wr, <<t>>)
      <4>1. PICK x, g : x = m /\ g = <<t>>
        OBVIOUS
      <4>2. Leave(x, wr, g)
        BY <3>1, <4>1 DEF Leave
      <4>3. x \in DBType /\ g \in Seq(Threads)
        BY <2>5, <4>1
      <4>4. QED BY <1>2, <4>1, <4>2, <4>3, LeaveFacts
    <3>2. CASE db' = m /\ wr' = wr
      BY <1>2, <2>5, <3>2
    <3>3. QED BY <2>6, <3>1, <3>2
  <2>8. vs' = v
    BY <1>4
  <2>9. Typed'
    BY <1>1, <2>2, <2>3, <2>4, <2>7, <2>8 DEF Inv, Typed
  <2>10. Quiet'
    BY <2>1, <2>5, <2>7 DEF Quiet
  <2>11. MemRefs'
    <3>1. db.mem \in DOMAIN mems /\ bg.pc # "build"
      BY <1>1 DEF Inv, MemRefs
    <3>2. db'.mem \in DOMAIN mems' /\ db'.imm \in DOMAIN mems' /\ bg'.pc # "build"
      BY <1>1, <2>1, <2>4, <2>5, <2>7, <3>1
    <3>3. \A r \in Readers : \A p \in rd'[r] : p.mem \in DOMAIN mems' /\ (p.imm # 0 => p.imm \in DOMAIN mems')
      BY <1>1, <2>4 DEF Inv, MemRefs
    <3>4. QED BY <3>2, <3>3 DEF MemRefs
  <2>12. Scheduled'
    BY <1>1, <2>1, <2>5, <2>7, <2>8 DEF Inv, Scheduled, WaitersAreSignalled, NeedsCompaction
  <2>13. QED BY <2>9, <2>10, <2>11, <2>12 DEF Inv
<1>5. QED BY <1>1, <1>3, <1>4

\* The head of the queue puts a group together: at least one entry.
LEMMA GroupFacts ==
  ASSUME Inv, NEW t \in Threads, AtHead(t), ~IsForced(t)
  PROVE  /\ BatchGroup(t) \in Seq(Threads) /\ Numbered(BatchGroup(t), vs.last) \in Groups
         /\ LastOf(Numbered(BatchGroup(t), vs.last)) \in Nat
<1> DEFINE g == BatchGroup(t)
           es == Numbered(g, vs.last)
<1>1. /\ db.queue \in Seq(Threads) /\ db.queue # <<>> /\ vs.last \in Nat /\ wr \in [Threads -> WriterType]
      /\ Head(db.queue) = t
  BY DEF Inv, Typed, VSType, DBType, AtHead
<1>2. g \in Seq(Threads) /\ Len(g) \in 1 .. Len(db.queue) /\ \A i \in 1 .. Len(g) : g[i] = db.queue[i]
  BY <1>1, BatchGroupType
<1>3. g[1] = t /\ 1 \in 1 .. Len(g)
  <2>1. db.queue[1] = t
    BY <1>1, HeadTailProperties
  <2>2. 1 \in 1 .. Len(g)
    BY <1>1, <1>2, LenProperties
  <2>3. QED BY <1>2, <2>1, <2>2
<1> HIDE DEF g
<1>4. wr[g[1]].batch # <<>>
  BY <1>3 DEF IsForced
<1>5. es \in EntrySets /\ es # {}
  BY <1>1, <1>2, <1>3, <1>4, NumberedType
<1> HIDE DEF es
<1>6. LastOf(es) \in Nat
  BY <1>5, MaxSeqNat
<1>7. QED BY <1>2, <1>5, <1>6 DEF g, es, Groups

\* The group goes to the log, or the append fails and the group with it.
LEMMA WriteLogInv ==
  ASSUME Inv, NEW t \in Threads, WriteLog(t)
  PROVE  Inv'
<1> DEFINE g == BatchGroup(t)
           es == Numbered(g, vs.last)
           h == [disk.log[db.mem] EXCEPT !.torn = TRUE]
           w == [wr[t] EXCEPT !.pc = "logged", !.ents = es, !.group = g]
<1>1. /\ \/ /\ \E f \in Appends(disk.log[db.mem], es) : disk' = [disk EXCEPT !.log = [disk.log EXCEPT ![db.mem] = f]]
            /\ wr' = [wr EXCEPT ![t].pc = "logged", ![t].ents = es, ![t].group = g]
            /\ vs' = vs /\ db' = db
         \/ /\ vs' = [vs EXCEPT !.last = LastOf(es)] /\ Leave(db, wr, g)
            /\ disk' = [disk EXCEPT !.log = [disk.log EXCEPT ![db.mem] = h]]
      /\ mems' = mems /\ bg' = bg /\ rd' = rd /\ snaps' = snaps /\ cr' = cr /\ hist' = hist /\ synced' = synced
      /\ db.phase = "open"
  BY DEF WriteLog, AtHead
<1>2. g \in Seq(Threads) /\ es \in Groups /\ LastOf(es) \in Nat
  BY GroupFacts DEF WriteLog, HasRoom
<1> HIDE DEF g, es
<1>3. /\ vs \in VSType /\ IsDisk(disk) /\ wr \in [Threads -> WriterType] /\ IsDir(disk.log, Groups)
      /\ hist \in SUBSET EntrySets /\ synced \in SUBSET EntrySets
  BY DEF Inv, Typed, IsDisk
<1>4. CASE /\ vs' = [vs EXCEPT !.last = LastOf(es)] /\ Leave(db, wr, g)
           /\ disk' = [disk EXCEPT !.log = [disk.log EXCEPT ![db.mem] = h]]
  <2>1. vs' \in VSType /\ vs'.ver = vs.ver /\ vs'.seek = vs.seek
    BY <1>2, <1>3, <1>4, VSChange
  <2>2. PICK x : x = g
    OBVIOUS
  <2>3. Leave(db, wr, x) /\ x \in Seq(Threads)
    BY <1>2, <1>4, <2>2 DEF Leave
  <2>4. IsDisk(disk')
    <3>1. db.mem \in DOMAIN disk.log => h \in FileOf(Groups)
      BY <1>3 DEF IsDir, FileOf
    <3> HIDE DEF h
    <3> DEFINE logs == [disk.log EXCEPT ![db.mem] = h]
    <3>2. IsDir(logs, Groups) /\ disk' = [disk EXCEPT !.log = logs]
      BY <1>3, <1>4, <3>1, DirUpdate
    <3> HIDE DEF logs
    <3>3. QED BY <1>3, <3>2, DiskChange
  <2>5. hist' \in SUBSET EntrySets /\ synced' \in SUBSET EntrySets
    BY <1>1, <1>3
  <2>6. QED BY <1>1, <2>1, <2>3, <2>4, <2>5, GroupLeavesInv
<1>5. CASE /\ \E f \in Appends(disk.log[db.mem], es) : disk' = [disk EXCEPT !.log = [disk.log EXCEPT ![db.mem] = f]]
           /\ wr' = [wr EXCEPT ![t].pc = "logged", ![t].ents = es, ![t].group = g]
           /\ vs' = vs /\ db' = db
  <2>1. IsDisk(disk')
    <3>1. PICK f \in Appends(disk.log[db.mem], es) : disk' = [disk EXCEPT !.log = [disk.log EXCEPT ![db.mem] = f]]
      BY <1>5
    <3>2. db.mem \in DOMAIN disk.log => f \in FileOf(Groups)
      BY <1>2, <1>3, AppendsFacts DEF IsDir
    <3>3. IsDir([disk.log EXCEPT ![db.mem] = f], Groups)
      BY <1>3, <3>2, DirUpdate
    <3> DEFINE x == [disk.log EXCEPT ![db.mem] = f]
    <3>4. IsDir(x, Groups) /\ disk' = [disk EXCEPT !.log = x]
      BY <3>1, <3>3
    <3> HIDE DEF x
    <3>5. QED BY <1>3, <3>4, DiskChange
  <2>2. wr' \in [Threads -> WriterType]
    <3>1. w \in WriterType
      BY <1>2, <1>3 DEF WriterType, Groups
    <3>2. wr' = [wr EXCEPT ![t] = w]
      BY <1>3, <1>5
    <3> HIDE DEF w
    <3>3. QED BY <1>3, <3>1, <3>2
  <2>3. Typed'
    BY <1>1, <1>5, <2>1, <2>2 DEF Inv, Typed
  <2>4. Quiet' /\ MemRefs' /\ Scheduled'
    BY <1>1, <1>5 DEF Inv, Quiet, MemRefs, Scheduled, WaitersAreSignalled, NeedsCompaction
  <2>5. QED BY <2>3, <2>4 DEF Inv
<1>6. QED BY <1>1, <1>4, <1>5

\* The log is synced and the entries inserted, or the Sync fails.
LEMMA WriteMemInv ==
  ASSUME Inv, NEW t \in Threads, WriteMem(t)
  PROVE  Inv'
<1> DEFINE es == wr[t].ents
           g == wr[t].group
           f == Synced(disk.log[db.mem])
           Insert == /\ disk' = IF wr[t].sync THEN [disk EXCEPT !.log = [disk.log EXCEPT ![db.mem] = f]] ELSE disk
                     /\ mems' = [mems EXCEPT ![db.mem] = mems[db.mem] \cup es]
                     /\ hist' = hist \cup {es}
                     /\ wr' = [wr EXCEPT ![t].pc = "inserted"]
                     /\ vs' = vs /\ db' = db
           Fail == /\ vs' = [vs EXCEPT !.last = LastOf(es)]
                   /\ Leave(RecordBackgroundError(db), wr, g)
                   /\ disk' = disk /\ mems' = mems /\ hist' = hist
<1>1. /\ wr[t].pc = "logged"
      /\ Insert \/ Fail
      /\ bg' = bg /\ rd' = rd /\ snaps' = snaps /\ cr' = cr /\ synced' = synced
  BY DEF WriteMem
<1>2. /\ vs \in VSType /\ db \in DBType /\ IsDisk(disk) /\ wr \in [Threads -> WriterType] /\ IsDir(disk.log, Groups)
      /\ hist \in SUBSET EntrySets /\ synced \in SUBSET EntrySets /\ IsMems(mems)
  BY DEF Inv, Typed, IsDisk
<1>3. wr[t] \in WriterType /\ es \in EntrySets /\ es # {} /\ g \in Seq(Threads)
  BY <1>1, <1>2 DEF WriterType
<1>4. db.phase = "open"
  BY <1>1 DEF Inv, Quiet, IdleWriter
<1>5. CASE Insert
  <2>1. IsDisk(disk')
    <3>1. db.mem \in DOMAIN disk.log => f \in FileOf(Groups)
      BY <1>2, FileFacts DEF IsDir
    <3> DEFINE x == [disk.log EXCEPT ![db.mem] = f]
    <3>2. disk' = disk \/ disk' = [disk EXCEPT !.log = x]
      BY <1>5
    <3> HIDE DEF f
    <3>3. IsDir(x, Groups)
      BY <1>2, <3>1, DirUpdate
    <3> HIDE DEF x
    <3>4. IsDisk([disk EXCEPT !.log = x])
      BY <1>2, <3>3, DiskChange
    <3>5. QED BY <1>2, <3>2, <3>4
  <2>2. wr' \in [Threads -> WriterType]
    <3>1. [wr[t] EXCEPT !.pc = "inserted"] \in WriterType
      BY <1>3 DEF WriterType
    <3>2. QED BY <1>2, <1>5, <3>1
  <2>3. IsMems(mems') /\ DOMAIN mems' = DOMAIN mems
    BY <1>2, <1>3, <1>5, MemsFacts
  <2>4. hist' \in SUBSET EntrySets
    BY <1>2, <1>3, <1>5
  <2>5. vs' = vs /\ db' = db
    BY <1>5
  <2>6. Typed'
    BY <1>1, <2>1, <2>2, <2>3, <2>4, <2>5 DEF Inv, Typed
  <2>7. Quiet' /\ MemRefs' /\ Scheduled'
    BY <1>1, <1>4, <2>3, <2>5 DEF Inv, Quiet, MemRefs, Scheduled, WaitersAreSignalled, NeedsCompaction
  <2>8. QED BY <2>6, <2>7 DEF Inv
<1>6. CASE Fail
  <2>1. PICK d, x : d = RecordBackgroundError(db) /\ x = g
    OBVIOUS
  <2>2. Leave(d, wr, x)
    BY <1>6, <2>1 DEF Leave
  <2>3. d \in DBType /\ x \in Seq(Threads)
    BY <1>2, <1>3, <2>1, ErrorFacts
  <2>4. /\ d.phase = db.phase /\ d.mem = db.mem /\ d.imm = db.imm /\ d.shut = db.shut
        /\ d.manual = db.manual /\ d.queue = db.queue /\ d.sched = db.sched
        /\ d.waiting = {}
    BY <1>2, <2>1, ErrorFacts
  <2>5. d.err = TRUE
    <3>1. d.err /\ d.err \in BOOLEAN
      BY <1>2, <2>1, <2>3, ErrorFacts DEF DBType
    <3>2. QED BY <3>1
  <2>6. vs' \in VSType /\ vs'.ver = vs.ver /\ vs'.seek = vs.seek
    <3>1. LastOf(es) \in Nat
      BY <1>3, MaxSeqNat
    <3>2. QED BY <1>2, <1>6, <3>1, VSChange
  <2>7. IsDisk(disk') /\ hist' \in SUBSET EntrySets /\ synced' \in SUBSET EntrySets /\ mems' = mems
    BY <1>1, <1>2, <1>6
  <2>8. QED BY <1>1, <1>4, <2>2, <2>3, <2>4, <2>5, <2>6, <2>7, LeavingInv
<1>7. QED BY <1>1, <1>5, <1>6

\* The group becomes visible and leaves.
LEMMA WriteDoneInv ==
  ASSUME Inv, NEW t \in Threads, WriteDone(t)
  PROVE  Inv'
<1> DEFINE es == wr[t].ents
           g == wr[t].group
<1>1. /\ wr[t].pc = "inserted" /\ vs' = [vs EXCEPT !.last = LastOf(es)]
      /\ synced' = (IF wr[t].sync /\ ~disk.log[db.mem].torn THEN synced \cup {es} ELSE synced)
      /\ Leave(db, wr, g)
      /\ disk' = disk /\ mems' = mems /\ bg' = bg /\ rd' = rd /\ snaps' = snaps /\ cr' = cr /\ hist' = hist
  BY DEF WriteDone
<1>2. /\ vs \in VSType /\ IsDisk(disk) /\ wr[t] \in WriterType
      /\ hist \in SUBSET EntrySets /\ synced \in SUBSET EntrySets
  BY DEF Inv, Typed
<1>3. es \in EntrySets /\ es # {} /\ g \in Seq(Threads)
  BY <1>1, <1>2 DEF WriterType
<1>4. db.phase = "open"
  BY <1>1 DEF Inv, Quiet, IdleWriter
<1>5. vs' \in VSType /\ vs'.ver = vs.ver /\ vs'.seek = vs.seek
  <2>1. LastOf(es) \in Nat
    BY <1>3, MaxSeqNat
  <2>2. QED BY <1>1, <1>2, <2>1, VSChange
<1>6. IsDisk(disk') /\ hist' \in SUBSET EntrySets /\ synced' \in SUBSET EntrySets
  BY <1>1, <1>2, <1>3
<1>7. PICK x : x = g
  OBVIOUS
<1>8. Leave(db, wr, x)
  BY <1>1, <1>7 DEF Leave
<1>9. x \in Seq(Threads)
  BY <1>3, <1>7
<1>10. QED BY <1>1, <1>4, <1>5, <1>6, <1>8, <1>9, GroupLeavesInv

-----------------------------------------------------------------------------
(* The invariant: reading.                                                   *)

\* The memtables that stay are the ones somebody points to.
LEMMA ReferencedFacts ==
  ASSUME NEW m, IsMems(m), NEW d, NEW R, R = [r \in Readers |-> R[r]]
  PROVE  /\ IsMems(Referenced(m, d, R))
         /\ DOMAIN Referenced(m, d, R) \subseteq DOMAIN m
         /\ d.mem \in DOMAIN m => d.mem \in DOMAIN Referenced(m, d, R)
         /\ d.imm \in DOMAIN m => d.imm \in DOMAIN Referenced(m, d, R)
         /\ \A r \in Readers : \A p \in R[r] :
              /\ p.mem \in DOMAIN m => p.mem \in DOMAIN Referenced(m, d, R)
              /\ p.imm \in DOMAIN m => p.imm \in DOMAIN Referenced(m, d, R)
<1> DEFINE Ps == UNION Range(R)
           S == {d.mem, d.imm} \cup UNION {{p.mem, p.imm} : p \in Ps}
<1>1. Referenced(m, d, R) = Restrict(m, DOMAIN m \cap S)
  BY DEF Referenced
<1>2. \A r \in Readers : \A p \in R[r] : p \in Ps
  BY DEF Range
<1> HIDE DEF Ps
<1>3. d.mem \in S /\ d.imm \in S
  OBVIOUS
<1>4. \A r \in Readers : \A p \in R[r] : p.mem \in S /\ p.imm \in S
  BY <1>2
<1> HIDE DEF S
<1>5. IsMems(Referenced(m, d, R)) /\ DOMAIN Referenced(m, d, R) = DOMAIN m \cap S
  BY <1>1, MemsFacts
<1>6. QED BY <1>3, <1>4, <1>5

\* A read begins.
LEMMA BeginReadInv ==
  ASSUME Inv, NEW r \in Readers, BeginRead(r)
  PROVE  Inv'
<1>1. PICK s \in snaps \cup {vs.last} :
        rd' = [rd EXCEPT ![r] = {[snap |-> s, mem |-> db.mem, imm |-> db.imm, ver |-> vs.ver]}]
  BY DEF BeginRead
<1>2. /\ db.phase = "open" /\ disk' = disk /\ vs' = vs /\ db' = db /\ mems' = mems /\ wr' = wr /\ bg' = bg
      /\ snaps' = snaps /\ cr' = cr /\ hist' = hist /\ synced' = synced
  BY DEF BeginRead, IsOpen
<1> DEFINE p == [snap |-> s, mem |-> db.mem, imm |-> db.imm, ver |-> vs.ver]
<1>3. p \in PinType /\ p.mem = db.mem /\ p.imm = db.imm
  BY DEF Inv, Typed, PinType, VSType, DBType
<1>4. rd' = [rd EXCEPT ![r] = {p}] /\ rd \in [Readers -> SUBSET PinType]
  BY <1>1 DEF Inv, Typed
<1> HIDE DEF p
<1>5. rd' \in [Readers -> SUBSET PinType] /\ \A q \in Readers : rd'[q] = rd[q] \/ rd'[q] = {p}
  BY <1>3, <1>4
<1>6. Typed'
  BY <1>2, <1>5 DEF Inv, Typed
<1>7. MemRefs'
  <2>1. db.mem \in DOMAIN mems /\ (db.imm # 0 => db.imm \in DOMAIN mems)
    BY <1>2 DEF Inv, MemRefs
  <2>2. \A q \in Readers : \A x \in rd'[q] : x.mem \in DOMAIN mems' /\ (x.imm # 0 => x.imm \in DOMAIN mems')
    BY <1>2, <1>3, <1>5, <2>1 DEF Inv, MemRefs
  <2>3. QED BY <1>2, <2>2 DEF Inv, MemRefs
<1>8. Quiet' /\ Scheduled'
  BY <1>2 DEF Inv, Quiet, Scheduled, WaitersAreSignalled, NeedsCompaction
<1>9. QED BY <1>6, <1>7, <1>8 DEF Inv

\* A read ends and may charge a file.
LEMMA EndReadInv ==
  ASSUME Inv, NEW r \in Readers, EndRead(r)
  PROVE  Inv'
<1> DEFINE inMems(p, u) == MemLookup(p.mem, u, p.snap) # {} \/ MemLookup(p.imm, u, p.snap) # {}
           charge(p, u) == IF inMems(p, u) \/ p.ver # vs.ver THEN {}
                           ELSE SeekCharge(p.ver, Tables(disk, p.ver), u, p.snap)
           released == [rd EXCEPT ![r] = {}]
<1>1. PICK p \in rd[r], u \in Keys :
        /\ rd' = released
        /\ mems' = Referenced(mems, db, released)
        /\ \/ vs' = vs /\ db' = db
           \/ /\ vs' = [vs EXCEPT !.seek = charge(p, u)]
              /\ db' = MaybeSchedule(db, [vs EXCEPT !.seek = charge(p, u)])
        /\ UNCHANGED <<disk, wr, bg, snaps, cr, hist, synced>>
  BY DEF EndRead
<1>2. /\ vs \in VSType /\ db \in DBType /\ IsMems(mems) /\ rd \in [Readers -> SUBSET PinType] /\ vs.ver \in VersionType
  BY DEF Inv, Typed, VSType
<1>3. db.phase = "open"
  <2>1. rd[r] # {}
    OBVIOUS
  <2>2. QED BY <2>1 DEF Inv, Quiet
<1>4. charge(p, u) \in SeekType(vs.ver)
  <2>1. CASE inMems(p, u) \/ p.ver # vs.ver
    <3>1. charge(p, u) = {}
      BY <2>1
    <3>2. QED BY <3>1 DEF SeekType
  <2>2. CASE ~(inMems(p, u) \/ p.ver # vs.ver)
    <3>1. charge(p, u) = SeekCharge(vs.ver, Tables(disk, p.ver), u, p.snap)
      BY <2>2
    <3>2. u \in Nat /\ p.snap \in Nat
      BY <1>2, DBAssumption DEF PinType
    <3>3. QED BY <1>2, <3>1, <3>2, SeekChargeFiles DEF SeekType
  <2>3. QED BY <2>1, <2>2
<1> DEFINE c == charge(p, u)
           v == [vs EXCEPT !.seek = c]
<1>5. \/ vs' = vs /\ db' = db
      \/ vs' = v /\ db' = MaybeSchedule(db, v)
  BY <1>1
<1>6. c \in SeekType(vs.ver)
  BY <1>4
<1> HIDE DEF c, charge, inMems
<1>7. v \in VSType
  BY <1>2, <1>6, VSChange
<1> HIDE DEF v
<1>8. /\ vs' \in VSType /\ db' \in DBType
      /\ db'.phase = db.phase /\ db'.mem = db.mem /\ db'.imm = db.imm
      /\ db'.err = db.err /\ db'.shut = db.shut /\ db'.manual = db.manual
      /\ db'.queue = db.queue /\ db'.waiting = db.waiting
      /\ db.sched => db'.sched
      /\ ~db.shut /\ ~db.err /\ (db.imm # 0 \/ db.manual \/ NeedsCompaction(vs')) => db'.sched
  <2>1. CASE vs' = vs /\ db' = db
    BY <1>2, <1>3, <2>1 DEF Inv, Scheduled
  <2>2. CASE vs' = v /\ db' = MaybeSchedule(db, v)
    BY <1>2, <1>7, <2>2, ScheduleFacts
  <2>3. QED BY <1>5, <2>1, <2>2
<1>9. /\ released \in [Readers -> SUBSET PinType] /\ \A q \in Readers : released[q] \subseteq rd[q]
  BY <1>2
<1>10. /\ disk' = disk /\ wr' = wr /\ bg' = bg /\ snaps' = snaps /\ cr' = cr /\ hist' = hist /\ synced' = synced
       /\ rd' = released /\ mems' = Referenced(mems, db, released)
  BY <1>1
<1> HIDE DEF released
<1>11. /\ IsMems(mems')
       /\ db.mem \in DOMAIN mems => db.mem \in DOMAIN mems'
       /\ db.imm \in DOMAIN mems => db.imm \in DOMAIN mems'
       /\ \A q \in Readers : \A x \in rd'[q] :
              /\ x.mem \in DOMAIN mems => x.mem \in DOMAIN mems'
              /\ x.imm \in DOMAIN mems => x.imm \in DOMAIN mems'
  <2>1. released = [q \in Readers |-> released[q]]
    BY <1>9
  <2>2. QED BY <1>2, <1>10, <2>1, ReferencedFacts
<1>12. Typed'
  BY <1>8, <1>9, <1>10, <1>11 DEF Inv, Typed
<1>13. MemRefs'
  BY <1>8, <1>9, <1>10, <1>11 DEF Inv, MemRefs
<1>14. Quiet'
  BY <1>3, <1>8 DEF Quiet
<1>15. Scheduled'
  <2>1. NeedsCompaction(vs)' <=> NeedsCompaction(vs')
    BY DEF NeedsCompaction
  <2>2. QED BY <1>8, <1>10, <2>1 DEF Inv, Scheduled, WaitersAreSignalled
<1>16. QED BY <1>12, <1>13, <1>14, <1>15 DEF Inv

\* Snapshots come and go.
LEMMA SnapshotInv ==
  ASSUME Inv, GetSnapshot \/ ReleaseSnapshot
  PROVE  Inv'
<1>1. /\ disk' = disk /\ vs' = vs /\ db' = db /\ mems' = mems /\ wr' = wr /\ bg' = bg /\ rd' = rd
      /\ cr' = cr /\ hist' = hist /\ synced' = synced
  BY DEF GetSnapshot, ReleaseSnapshot
<1>2. snaps' \in SUBSET Nat
  BY DEF GetSnapshot, ReleaseSnapshot, Inv, Typed, VSType
<1>3. Typed'
  BY <1>1, <1>2 DEF Inv, Typed
<1>4. QED BY <1>1, <1>3 DEF Inv, Quiet, MemRefs, Scheduled, WaitersAreSignalled, NeedsCompaction

-----------------------------------------------------------------------------
(* The invariant: the background thread.                                     *)

\* The end of a background call: everybody is woken, and a call is scheduled
\* again if there is work.
LEMMA CallEnds ==
  ASSUME NEW d \in DBType, db' = EndCall(d, vs'), d.phase = "open", bg'.pc = "idle",
         d.shut => d.queue = <<>> /\ cr'.pc = "idle"
  PROVE  /\ db' \in DBType /\ Quiet' /\ Scheduled'
         /\ db'.phase = d.phase /\ db'.mem = d.mem /\ db'.imm = d.imm
<1>1. /\ db' \in DBType
      /\ db'.sched <=> ~d.shut /\ ~d.err /\ (d.imm # 0 \/ d.manual \/ NeedsCompaction(vs'))
      /\ db'.waiting = {} /\ db'.phase = d.phase /\ db'.mem = d.mem
      /\ db'.imm = d.imm /\ db'.err = d.err /\ db'.shut = d.shut
      /\ db'.manual = d.manual /\ db'.queue = d.queue
  BY EndCallFacts
<1>2. NeedsCompaction(vs)' <=> NeedsCompaction(vs')
  BY DEF NeedsCompaction
<1>3. Scheduled'
  BY <1>1, <1>2 DEF Scheduled, WaitersAreSignalled
<1>4. QED BY <1>1, <1>3 DEF Quiet

\* The background thread with other values.
LEMMA BGChange ==
  ASSUME bg \in BGType
  PROVE  /\ [bg EXCEPT !.pc = "merge", !.job = "none"] \in BGType
         /\ [bg EXCEPT !.pc = "merge", !.job = "none"].pc = "merge"
         /\ [bg EXCEPT !.pc = "merge", !.job = "none"].job = "none"
         /\ [bg EXCEPT !.pc = "merge", !.job = "none"].comp = bg.comp
         /\ \A n \in Nat : /\ [bg EXCEPT !.pc = "build", !.num = n] \in BGType
                           /\ [bg EXCEPT !.pc = "build", !.num = n].pc = "build"
                           /\ [bg EXCEPT !.pc = "build", !.num = n].num = n
                           /\ [bg EXCEPT !.pc = "build", !.num = n].comp = bg.comp
         /\ \A e \in FilledEdit, j \in {"flush", "move", "compact"} : (j = "compact" => bg.comp # {}) =>
              /\ [bg EXCEPT !.pc = "install", !.job = j, !.edit = e] \in BGType
              /\ [bg EXCEPT !.pc = "install", !.job = j, !.edit = e].pc = "install"
              /\ [bg EXCEPT !.pc = "install", !.job = j, !.edit = e].job = j
              /\ [bg EXCEPT !.pc = "install", !.job = j, !.edit = e].edit = e
              /\ [bg EXCEPT !.pc = "install", !.job = j, !.edit = e].comp = bg.comp
         /\ \A w \in WorkType : /\ [bg EXCEPT !.pc = "merge", !.comp = {w}] \in BGType
                                /\ [bg EXCEPT !.pc = "merge", !.comp = {w}].pc = "merge"
                                /\ [bg EXCEPT !.pc = "merge", !.comp = {w}].comp = {w}
                                /\ [bg EXCEPT !.pc = "merge", !.comp = {w}].job = bg.job
         /\ \A w \in WorkType : bg.pc = "merge" => /\ [bg EXCEPT !.comp = {w}] \in BGType
                                /\ [bg EXCEPT !.comp = {w}].pc = bg.pc
                                /\ [bg EXCEPT !.comp = {w}].comp = {w}
                                /\ [bg EXCEPT !.comp = {w}].job = bg.job
<1> DEFINE C == SUBSET WorkType
<1>1. /\ bg \in [pc : {"idle", "build", "merge", "install"}, job : {"none", "flush", "move", "compact"},
                 num : Nat, edit : FilledEdit, comp : C]
      /\ bg.pc = "install" /\ bg.job = "compact" => bg.comp # {}
  BY DEF BGType
<1>2. \A w \in WorkType : {w} \in C
  OBVIOUS
<1>3. BGType = {b \in [pc : {"idle", "build", "merge", "install"}, job : {"none", "flush", "move", "compact"},
                       num : Nat, edit : FilledEdit, comp : C] :
                  b.pc = "install" /\ b.job = "compact" => b.comp # {}}
  BY DEF BGType
<1> HIDE DEF C
<1>4. /\ [bg EXCEPT !.pc = "merge", !.job = "none"] \in BGType
      /\ [bg EXCEPT !.pc = "merge", !.job = "none"].pc = "merge"
      /\ [bg EXCEPT !.pc = "merge", !.job = "none"].job = "none"
      /\ [bg EXCEPT !.pc = "merge", !.job = "none"].comp = bg.comp
  BY <1>1, <1>3
<1>5. ASSUME NEW n \in Nat
      PROVE  /\ [bg EXCEPT !.pc = "build", !.num = n] \in BGType
             /\ [bg EXCEPT !.pc = "build", !.num = n].pc = "build"
             /\ [bg EXCEPT !.pc = "build", !.num = n].num = n
             /\ [bg EXCEPT !.pc = "build", !.num = n].comp = bg.comp
  BY <1>1, <1>3
<1>6. ASSUME NEW e \in FilledEdit, NEW j \in {"flush", "move", "compact"}, j = "compact" => bg.comp # {}
      PROVE  /\ [bg EXCEPT !.pc = "install", !.job = j, !.edit = e] \in BGType
             /\ [bg EXCEPT !.pc = "install", !.job = j, !.edit = e].pc = "install"
             /\ [bg EXCEPT !.pc = "install", !.job = j, !.edit = e].job = j
             /\ [bg EXCEPT !.pc = "install", !.job = j, !.edit = e].edit = e
             /\ [bg EXCEPT !.pc = "install", !.job = j, !.edit = e].comp = bg.comp
  BY <1>1, <1>3, <1>6
<1>7. ASSUME NEW w \in WorkType
      PROVE  /\ [bg EXCEPT !.pc = "merge", !.comp = {w}] \in BGType
             /\ [bg EXCEPT !.pc = "merge", !.comp = {w}].pc = "merge"
             /\ [bg EXCEPT !.pc = "merge", !.comp = {w}].comp = {w}
             /\ [bg EXCEPT !.pc = "merge", !.comp = {w}].job = bg.job
  BY <1>1, <1>2, <1>3
<1>8. ASSUME NEW w \in WorkType, bg.pc = "merge"
      PROVE  /\ [bg EXCEPT !.comp = {w}] \in BGType /\ [bg EXCEPT !.comp = {w}].pc = bg.pc
             /\ [bg EXCEPT !.comp = {w}].comp = {w} /\ [bg EXCEPT !.comp = {w}].job = bg.job
  BY <1>1, <1>2, <1>3, <1>8
<1>9. QED BY <1>4, <1>5, <1>6, <1>7, <1>8

\* A job is given up: the error is recorded and everybody woken.
LEMMA GivenUp ==
  ASSUME bg \in BGType, NEW d \in DBType, d.phase = "open", d.sched = TRUE, vs' = vs,
         d.shut => d.queue = <<>> /\ cr'.pc = "idle",
         \/ db' = RecordBackgroundError(d) /\ bg' = [bg EXCEPT !.pc = "merge", !.job = "none"]
         \/ db' = EndCall(RecordBackgroundError(d), vs) /\ bg' = IdleBG
  PROVE  /\ db' \in DBType /\ bg' \in BGType /\ bg'.pc # "build" /\ Quiet' /\ Scheduled'
         /\ db'.phase = d.phase /\ db'.mem = d.mem /\ db'.imm = d.imm
<1> DEFINE x == RecordBackgroundError(d)
<1>1. /\ x \in DBType /\ x.err /\ x.waiting = {} /\ x.sched = d.sched
      /\ x.phase = d.phase /\ x.mem = d.mem /\ x.imm = d.imm
      /\ x.shut = d.shut /\ x.queue = d.queue
  BY ErrorFacts
<1> HIDE DEF x
<1>2. CASE db' = x /\ bg' = [bg EXCEPT !.pc = "merge", !.job = "none"]
  <2>1. bg' \in BGType /\ bg'.pc = "merge"
    BY <1>2, BGChange
  <2>2. Scheduled'
    BY <1>1, <1>2 DEF Scheduled, WaitersAreSignalled
  <2>3. Quiet'
    BY <1>1, <1>2 DEF Quiet
  <2>4. QED BY <1>1, <1>2, <2>1, <2>2, <2>3
<1>3. CASE db' = EndCall(x, vs) /\ bg' = IdleBG
  <2>1. bg' \in BGType /\ bg'.pc = "idle"
    BY <1>3, NewDBEditType DEF IdleBG
  <2>2. db' = EndCall(x, vs')
    BY <1>3
  <2>3. QED BY <1>1, <2>1, <2>2, CallEnds
<1>4. QED BY <1>2, <1>3 DEF x

\* A call that has nothing to do: shutting down, an error, no compaction.
LEMMA NothingToDoInv ==
  ASSUME Inv, CallRefused \/ NothingToCompact
  PROVE  Inv'
<1> DEFINE d == [db EXCEPT !.manual = FALSE]
           c == [cr EXCEPT !.done = TRUE]
<1>1. /\ db.phase = "open" /\ bg.pc = "idle" /\ disk' = disk /\ vs' = vs /\ mems' = mems /\ wr' = wr /\ bg' = bg
      /\ rd' = rd /\ snaps' = snaps /\ hist' = hist /\ synced' = synced
      /\ \/ db' = EndCall(db, vs) /\ cr' = cr
         \/ db' = EndCall(d, vs) /\ (cr' = cr \/ cr' = c)
  BY DEF CallRefused, NothingToCompact, CallBegins
<1>2. db \in DBType /\ cr \in CompactType
  BY DEF Inv, Typed
<1>3. /\ d \in DBType /\ d.phase = db.phase /\ d.mem = db.mem /\ d.imm = db.imm /\ d.shut = db.shut /\ d.queue = db.queue
  BY <1>2 DEF DBType
<1>4. c \in CompactType /\ c.pc = cr.pc
  BY <1>2 DEF CompactType
<1> HIDE DEF c
<1>5. cr' \in CompactType /\ cr'.pc = cr.pc
  BY <1>1, <1>2, <1>4
<1> HIDE DEF d
<1>6. PICK x : x \in {db, d} /\ db' = EndCall(x, vs)
  BY <1>1
<1>7. /\ x \in DBType /\ x.phase = "open" /\ x.mem = db.mem /\ x.imm = db.imm /\ x.shut = db.shut /\ x.queue = db.queue
  BY <1>1, <1>2, <1>3, <1>6
<1>8. db.shut => db.queue = <<>> /\ cr.pc = "idle"
  BY DEF Inv, Scheduled
<1>9. db' = EndCall(x, vs') /\ bg'.pc = "idle" /\ (x.shut => x.queue = <<>> /\ cr'.pc = "idle")
  BY <1>1, <1>5, <1>6, <1>7, <1>8
<1>10. /\ db' \in DBType /\ Quiet' /\ Scheduled' /\ db'.phase = "open" /\ db'.mem = db.mem /\ db'.imm = db.imm
  BY <1>7, <1>9, CallEnds
<1>11. Typed'
  BY <1>1, <1>5, <1>10 DEF Inv, Typed
<1>12. MemRefs'
  BY <1>1, <1>10 DEF Inv, MemRefs
<1>13. QED BY <1>10, <1>11, <1>12 DEF Inv

\* A flush takes its file number.
LEMMA StartFlushInv ==
  ASSUME Inv, StartFlush
  PROVE  Inv'
<1> DEFINE n == vs.next
           pend == db.pending \cup {n}
<1>1. vs \in VSType /\ db \in DBType /\ bg \in BGType /\ n \in Nat /\ n + 1 \in Nat /\ pend \in SUBSET Nat
  BY DEF Inv, Typed, VSType, DBType
<1>2. /\ db.imm # 0 /\ ~db.shut /\ vs' = [vs EXCEPT !.next = n + 1] /\ db' = [db EXCEPT !.pending = pend]
      /\ bg' = [bg EXCEPT !.pc = "build", !.num = n]
      /\ disk' = disk /\ mems' = mems /\ wr' = wr /\ rd' = rd /\ snaps' = snaps /\ cr' = cr
      /\ hist' = hist /\ synced' = synced
  BY DEF StartFlush
<1>3. db.phase = "open" /\ db.sched
  BY DEF StartFlush, CallBegins, Inv, Scheduled, Quiet
<1> HIDE DEF n, pend
<1>4. vs' \in VSType /\ vs'.ver = vs.ver /\ vs'.seek = vs.seek
  BY <1>1, <1>2, VSChange
<1>5. bg' \in BGType /\ bg'.pc = "build"
  BY <1>1, <1>2, BGChange
<1>6. /\ db' \in DBType /\ db'.phase = db.phase /\ db'.mem = db.mem /\ db'.imm = db.imm /\ db'.err = db.err
      /\ db'.shut = db.shut /\ db'.sched = db.sched /\ db'.manual = db.manual /\ db'.queue = db.queue
      /\ db'.waiting = db.waiting
  BY <1>1, <1>2 DEF DBType
<1>7. Typed'
  BY <1>2, <1>4, <1>5, <1>6 DEF Inv, Typed
<1>8. Quiet' /\ MemRefs'
  BY <1>2, <1>3, <1>5, <1>6 DEF Inv, Quiet, MemRefs
<1>9. Scheduled'
  BY <1>2, <1>3, <1>4, <1>6 DEF Inv, Scheduled, WaitersAreSignalled, NeedsCompaction
<1>10. QED BY <1>7, <1>8, <1>9 DEF Inv

\* The manifests after LogAndApply appended an edit to manifest n of disk d.
WithEdit(d, n, e) == {[d.man EXCEPT ![n] = m] : m \in Appends(d.man[n], e)}

LEMMA EditIsWritten ==
  ASSUME NEW d, NEW n, NEW e, NEW m \in Appends(d.man[n], e)
  PROVE  \E mn \in WithEdit(d, n, e) : mn = [d.man EXCEPT ![n] = m]
BY Zenon DEF WithEdit

\* LogAndApply appends an edit to the manifest, or syncs it.
LEMMA ManifestChange ==
  ASSUME NEW d, IsDisk(d), NEW n, NEW e \in FilledEdit
  PROVE  /\ \A mn \in WithEdit(d, n, e) : IsDisk([d EXCEPT !.man = mn])
         /\ IsDisk([d EXCEPT !.man = [d.man EXCEPT ![n] = Synced(d.man[n])]])
<1>1. IsDir(d.man, EditType) /\ e \in EditType
  BY FilledIsEdit DEF IsDisk
<1>2. n \in DOMAIN d.man => d.man[n] \in FileOf(EditType)
  BY <1>1 DEF IsDir
<1>3. ASSUME NEW mn \in WithEdit(d, n, e) PROVE IsDisk([d EXCEPT !.man = mn])
  <2>1. PICK m \in Appends(d.man[n], e) : mn = [d.man EXCEPT ![n] = m]
    BY DEF WithEdit
  <2>2. n \in DOMAIN d.man => m \in FileOf(EditType)
    BY <1>1, <1>2, AppendsFacts
  <2>3. IsDir(mn, EditType)
    BY <1>1, <2>1, <2>2, DirUpdate
  <2>4. QED BY ONLY <2>3, IsDisk(d), DiskChange
<1> DEFINE g == Synced(d.man[n])
           y == [d.man EXCEPT ![n] = g]
<1>4. n \in DOMAIN d.man => g \in FileOf(EditType)
  BY <1>2, FileFacts
<1> HIDE DEF g
<1>5. IsDir(y, EditType)
  BY <1>1, <1>4, DirUpdate
<1> HIDE DEF y
<1>6. IsDisk([d EXCEPT !.man = y])
  BY <1>5, DiskChange
<1>7. QED BY <1>3, <1>6 DEF y, g

\* A memtable is built into a table, or the flush is given up.
LEMMA FlushBuiltInv ==
  ASSUME Inv, FlushBuilt
  PROVE  Inv'
<1> DEFINE es == mems[db.imm]
           d == [db EXCEPT !.pending = db.pending \ {bg.num}]
           f == FileMeta(bg.num, es)
           l == PickLevelForMemTableOutput(vs.ver, f.small.u, f.large.u)
           add == IF es = {} THEN {} ELSE {<<l, f>>}
           edit == Filled(vs, db.mem, {}, {}, add)
           tab == IF es = {} THEN disk.tab ELSE With(disk.tab, bg.num, Synced(NewFile(<<es>>)))
           kt == [disk EXCEPT !.tab = tab]
<1>1. bg.pc = "build"
  BY DEF FlushBuilt
<1>2. \/ /\ \E m \in Appends(disk.man[vs.man], edit) : disk' = [disk EXCEPT !.tab = tab, !.man[vs.man] = m]
         /\ bg' = [bg EXCEPT !.pc = "install", !.job = "flush", !.edit = edit]
         /\ db' = d
      \/ disk' = kt /\ GiveUp(d, vs)
      \/ disk' = disk /\ GiveUp(d, vs)
  BY DEF FlushBuilt
<1>3. /\ vs' = vs /\ mems' = mems /\ wr' = wr /\ rd' = rd /\ snaps' = snaps /\ cr' = cr
      /\ hist' = hist /\ synced' = synced
  BY DEF FlushBuilt
<1>4. /\ vs \in VSType /\ db \in DBType /\ bg \in BGType /\ IsDisk(disk) /\ bg.num \in Nat /\ db.mem \in Nat
      /\ IsDir(disk.tab, Groups) /\ db.pending \in SUBSET Nat
  BY DEF Inv, Typed, DBType, BGType, IsDisk
<1>5. es \in EntrySets
  BY <1>1 DEF Inv, Typed, MemRefs, IsMems
<1>6. db.phase = "open" /\ db.sched = TRUE /\ (db.shut => db.queue = <<>> /\ cr.pc = "idle")
  BY <1>1, <1>4 DEF Inv, Quiet, Scheduled, DBType
<1>7. es # {} => f \in FileType /\ Synced(NewFile(<<es>>)) \in FileOf(Groups)
  <2> HIDE DEF es
  <2> QED BY <1>4, <1>5, TableFacts DEF Groups
<1>8. add \in Adds
  <2>1. CASE es = {}
    BY <2>1, FS_EmptySet DEF Adds
  <2>2. CASE es # {}
    <3>1. l \in Levels /\ {} \in Adds
      BY PickLevelType, FS_EmptySet DEF Adds
    <3>2. add = {} \cup {<<l, f>>}
      BY <2>2
    <3> HIDE DEF l, f, add
    <3>3. QED BY <1>7, <2>2, <3>1, <3>2, AddsAdd
  <2>3. QED BY <2>1, <2>2
<1>9. edit \in FilledEdit
  <2> HIDE DEF add
  <2> QED BY <1>4, <1>8, FilledType
<1>10. IsDir(tab, Groups)
  <2>1. CASE es = {}
    BY <1>4, <2>1
  <2>2. CASE es # {}
    BY <1>4, <1>7, <2>2, DirWith
  <2>3. QED BY <2>1, <2>2
<1> HIDE DEF tab, edit
<1>11. IsDisk(kt) /\ kt.man = disk.man
  BY <1>4, <1>10, DiskChange
<1>12. /\ d \in DBType /\ d.phase = db.phase /\ d.mem = db.mem /\ d.imm = db.imm /\ d.err = db.err
       /\ d.shut = db.shut /\ d.sched = db.sched /\ d.manual = db.manual /\ d.queue = db.queue
       /\ d.waiting = db.waiting
  BY <1>4 DEF DBType
<1>13. CASE /\ \E m \in Appends(disk.man[vs.man], edit) : disk' = [disk EXCEPT !.tab = tab, !.man[vs.man] = m]
            /\ bg' = [bg EXCEPT !.pc = "install", !.job = "flush", !.edit = edit]
            /\ db' = d
  <2>1. \E mn \in WithEdit(kt, vs.man, edit) : disk' = [kt EXCEPT !.man = mn]
    <3>1. PICK m \in Appends(disk.man[vs.man], edit) : disk' = [disk EXCEPT !.tab = tab, !.man[vs.man] = m]
      BY <1>13
    <3>2. disk' = [kt EXCEPT !.man = [kt.man EXCEPT ![vs.man] = m]]
      BY <1>11, <3>1
    <3> HIDE DEF kt
    <3>3. m \in Appends(kt.man[vs.man], edit)
      BY <1>11
    <3>4. PICK mn \in WithEdit(kt, vs.man, edit) : mn = [kt.man EXCEPT ![vs.man] = m]
      BY <3>3, EditIsWritten
    <3>5. QED BY <3>2, <3>4
  <2> HIDE DEF kt
  <2>2. IsDisk(disk')
    <3>1. PICK mn \in WithEdit(kt, vs.man, edit) : disk' = [kt EXCEPT !.man = mn]
      BY <2>1
    <3>2. IsDisk([kt EXCEPT !.man = mn])
      BY <1>9, <1>11, ManifestChange
    <3>3. QED BY <3>1, <3>2
  <2>3. bg' \in BGType /\ bg'.pc = "install"
    BY <1>4, <1>9, <1>13, BGChange
  <2> HIDE DEF d
  <2>4. Typed'
    BY <1>3, <1>12, <1>13, <2>2, <2>3 DEF Inv, Typed
  <2>5. Quiet' /\ MemRefs'
    BY <1>3, <1>6, <1>12, <1>13, <2>3 DEF Inv, Quiet, MemRefs
  <2>6. Scheduled'
    BY <1>3, <1>6, <1>12, <1>13 DEF Inv, Scheduled, WaitersAreSignalled, NeedsCompaction
  <2>7. QED BY <2>4, <2>5, <2>6 DEF Inv
<1>14. CASE (disk' = kt \/ disk' = disk) /\ GiveUp(d, vs)
  <2> HIDE DEF kt
  <2>1. IsDisk(disk')
    BY <1>4, <1>11, <1>14
  <2>2. PICK x : x = d
    OBVIOUS
  <2>3. \/ db' = RecordBackgroundError(x) /\ bg' = [bg EXCEPT !.pc = "merge", !.job = "none"]
        \/ db' = EndCall(RecordBackgroundError(x), vs) /\ bg' = IdleBG
    BY <1>14, <2>2 DEF GiveUp
  <2> HIDE DEF d
  <2>4. /\ x \in DBType /\ x.phase = "open" /\ x.sched = TRUE /\ x.mem = db.mem /\ x.imm = db.imm
        /\ (x.shut => x.queue = <<>> /\ cr'.pc = "idle")
    BY <1>3, <1>6, <1>12, <2>2
  <2>5. /\ db' \in DBType /\ bg' \in BGType /\ bg'.pc # "build" /\ Quiet' /\ Scheduled'
        /\ db'.phase = "open" /\ db'.mem = db.mem /\ db'.imm = db.imm
    BY <1>3, <1>4, <2>3, <2>4, GivenUp
  <2>6. Typed'
    BY <1>3, <2>1, <2>5 DEF Inv, Typed
  <2>7. MemRefs'
    BY <1>3, <1>6, <2>5 DEF Inv, MemRefs
  <2>8. QED BY <2>5, <2>6, <2>7 DEF Inv
<1>15. QED BY <1>2, <1>13, <1>14

\* The compaction the background thread picks.
LEMMA PickedType ==
  ASSUME Inv, NEW c \in Picked
  PROVE  CompactionOf(c, vs.ver)
<1>1. vs.ver \in VersionType /\ vs.seek \in SeekType(vs.ver) /\ cr.level \in 0 .. NumLevels - 2
  BY DEF Inv, Typed, VSType, CompactType
<1>2. CASE db.manual
  BY <1>1, <1>2, CompactRangeTyped DEF Picked
<1>3. CASE ~db.manual
  BY <1>1, <1>3, PickCompactionTyped DEF Picked
<1>4. QED BY <1>2, <1>3

\* The entries of the tables of finitely many files.
LEMMA TablesEntries ==
  ASSUME NEW d, IsDisk(d), NEW fs \in FileSets
  PROVE  UNION {TableEntries(d, x.num) : x \in fs} \in EntrySets
<1>1. ASSUME NEW x \in fs PROVE TableEntries(d, x.num) \in EntrySets
  <2>1. CASE x.num \in DOMAIN d.tab /\ d.tab[x.num].recs # <<>>
    <3>1. d.tab[x.num].recs \in Seq(Groups)
      BY <2>1 DEF IsDisk, IsDir, FileOf
    <3>2. d.tab[x.num].recs[1] \in Groups
      BY <2>1, <3>1, HeadTailProperties
    <3>3. QED BY <2>1, <3>2 DEF TableEntries, Groups
  <2>2. CASE ~(x.num \in DOMAIN d.tab /\ d.tab[x.num].recs # <<>>)
    BY <2>2, EntryFacts DEF TableEntries
  <2>3. QED BY <2>1, <2>2
<1> DEFINE F == [x \in fs |-> TableEntries(d, x.num)]
           T == {F[x] : x \in fs}
<1>2. {TableEntries(d, x.num) : x \in fs} = T /\ DOMAIN F = fs /\ \A x \in fs : F[x] \in EntrySets
  BY <1>1
<1> HIDE DEF F
<1>3. IsFiniteSet(fs)
  BY DEF FileSets
<1>4. IsFiniteSet(T) /\ \A es \in T : es \in EntrySets
  BY <1>2, <1>3, ImageFinite
<1> HIDE DEF T
<1>5. \A es \in T : IsFiniteSet(es) /\ es \in SUBSET EntryType
  BY <1>4 DEF EntrySets
<1>6. IsFiniteSet(UNION T)
  BY <1>4, <1>5, FS_UNION
<1>7. UNION T \in EntrySets
  BY <1>5, <1>6 DEF EntrySets
<1>8. QED BY <1>2, <1>7

\* A compaction starts, by an edit that moves a file or by a merge.
LEMMA StartCompactionInv ==
  ASSUME Inv, StartCompaction
  PROVE  Inv'
<1> DEFINE ptrs(c) == {<<c.level, c.large>>}
           f(c) == CHOOSE x \in c.in0 : TRUE
           move(c) == Filled(vs, vs.log, ptrs(c), {<<c.level, f(c).num>>}, {<<c.level + 1, f(c)>>})
           es(c) == UNION {TableEntries(disk, x.num) : x \in c.in0 \cup c.in1}
           work(c) == [c |-> c, manual |-> db.manual, outs |-> {}, todo |-> MergedOutputs(c, es(c), OldestSnapshot)]
<1>1. PICK c \in Picked :
        /\ vs' = [vs EXCEPT !.ptr[c.level] = c.large]
        /\ \/ /\ bg' = [bg EXCEPT !.pc = "install", !.job = "move", !.edit = move(c)]
              /\ \E mn \in Appends(disk.man[vs.man], move(c)) : disk' = [disk EXCEPT !.man = [disk.man EXCEPT ![vs.man] = mn]]
           \/ /\ bg' = [bg EXCEPT !.pc = "merge", !.comp = {work(c)}]
              /\ disk' = disk
  BY DEF StartCompaction
<1>2. /\ db.phase = "open" /\ db.sched /\ bg.pc = "idle"
      /\ db' = db /\ mems' = mems /\ wr' = wr /\ rd' = rd /\ snaps' = snaps /\ cr' = cr /\ hist' = hist /\ synced' = synced
  BY DEF StartCompaction, CallBegins
<1>3. /\ vs \in VSType /\ db \in DBType /\ bg \in BGType /\ IsDisk(disk) /\ vs.log \in Nat /\ db.manual \in BOOLEAN
  BY DEF Inv, Typed, VSType, DBType
<1>4. /\ c \in CompactionType /\ c.level \in 0 .. NumLevels - 2 /\ c.in0 \in FileSets /\ c.in1 \in FileSets /\ c.large \in IKeyType
      /\ c.in0 # {}
  BY PickedType DEF CompactionOf, CompactionType
<1>5. c.level \in Levels /\ c.level + 1 \in Levels
  BY <1>4, ConfigAssumption DEF Levels
<1>6. move(c) \in FilledEdit
  <2>1. f(c) \in FileType
    BY <1>4 DEF FileSets
  <2> DEFINE g == f(c)
  <2>2. g \in FileType /\ g.num \in Nat
    BY <2>1 DEF FileType
  <2> HIDE DEF g
  <2>3. {} \cup {<<c.level + 1, g>>} \in Adds
    BY <1>5, <2>2, FS_EmptySet, AddsAdd DEF Adds
  <2>4. {<<c.level + 1, g>>} \in Adds
    BY <2>3
  <2>5. {<<c.level, c.large>>} \in SUBSET (Levels \X IKeyType) /\ {<<c.level, g.num>>} \in SUBSET (Levels \X Nat)
    BY <1>4, <1>5, <2>2
  <2>6. Filled(vs, vs.log, {<<c.level, c.large>>}, {<<c.level, g.num>>}, {<<c.level + 1, g>>}) \in FilledEdit
    BY <1>3, <2>4, <2>5, FilledType
  <2>7. QED BY <2>6 DEF g
<1>7. work(c) \in WorkType
  <2> DEFINE E == es(c)
             fs == c.in0 \cup c.in1
  <2>1. fs \in FileSets
    BY <1>4, FilesClosed
  <2> HIDE DEF fs
  <2>2. UNION {TableEntries(disk, x.num) : x \in fs} \in EntrySets
    BY <1>3, <2>1, TablesEntries
  <2>3. E \in EntrySets
    BY <2>2 DEF fs
  <2> HIDE DEF E
  <2>4. E \in SUBSET RawEntry /\ IsFiniteSet(E)
    BY <2>3, EntryFacts DEF EntrySets
  <2>5. MergedOutputs(c, E, OldestSnapshot) \in Seq((SUBSET E) \ {{}})
    BY <1>4, <2>4, MergedOutputsType
  <2>6. (SUBSET E) \ {{}} \subseteq Groups
    BY <2>3, EntryFacts DEF Groups
  <2>7. MergedOutputs(c, E, OldestSnapshot) \in Seq(Groups)
    BY <2>5, <2>6
  <2>8. [c |-> c, manual |-> db.manual, outs |-> {}, todo |-> MergedOutputs(c, E, OldestSnapshot)] \in WorkType
    BY <1>3, <1>4, <2>7, FilesClosed DEF WorkType
  <2>9. QED BY <2>8 DEF E
<1>8. vs' \in VSType /\ vs'.ver = vs.ver /\ vs'.seek = vs.seek
  BY <1>1, <1>3, <1>4, <1>5, VSChange
<1> DEFINE m == move(c)
           w == work(c)
<1>9. \/ /\ bg' = [bg EXCEPT !.pc = "install", !.job = "move", !.edit = m]
         /\ \E mn \in Appends(disk.man[vs.man], m) : disk' = [disk EXCEPT !.man = [disk.man EXCEPT ![vs.man] = mn]]
      \/ /\ bg' = [bg EXCEPT !.pc = "merge", !.comp = {w}]
         /\ disk' = disk
  BY <1>1
<1>10. m \in FilledEdit /\ w \in WorkType
  BY <1>6, <1>7
<1> HIDE DEF m, w, move, work
<1>11. IsDisk(disk')
  <2>1. CASE \E mn \in Appends(disk.man[vs.man], m) : disk' = [disk EXCEPT !.man = [disk.man EXCEPT ![vs.man] = mn]]
    <3>1. PICK x \in Appends(disk.man[vs.man], m) : disk' = [disk EXCEPT !.man = [disk.man EXCEPT ![vs.man] = x]]
      BY <2>1
    <3>2. PICK mn \in WithEdit(disk, vs.man, m) : mn = [disk.man EXCEPT ![vs.man] = x]
      BY ONLY x \in Appends(disk.man[vs.man], m), EditIsWritten
    <3>3. IsDisk([disk EXCEPT !.man = mn])
      BY <1>3, <1>10, ManifestChange
    <3>4. QED BY <3>1, <3>2, <3>3
  <2>2. CASE disk' = disk
    BY <1>3, <2>2
  <2>3. QED BY <1>9, <2>1, <2>2
<1>12. bg' \in BGType /\ bg'.pc # "build"
  <2>1. CASE bg' = [bg EXCEPT !.pc = "install", !.job = "move", !.edit = m]
    BY <1>3, <1>10, <2>1, BGChange
  <2>2. CASE bg' = [bg EXCEPT !.pc = "merge", !.comp = {w}]
    BY <1>3, <1>10, <2>2, BGChange
  <2>3. QED BY <1>9, <2>1, <2>2
<1>13. Typed'
  BY <1>2, <1>8, <1>11, <1>12 DEF Inv, Typed
<1>14. Quiet' /\ MemRefs'
  BY <1>2, <1>12 DEF Inv, Quiet, MemRefs
<1>15. Scheduled'
  BY <1>2, <1>8 DEF Inv, Scheduled, WaitersAreSignalled, NeedsCompaction
<1>16. QED BY <1>13, <1>14, <1>15 DEF Inv

\* The next output of a compaction.
LEMMA WriteOutputInv ==
  ASSUME Inv, WriteOutput
  PROVE  Inv'
<1> DEFINE n == vs.next
           pend == db.pending \cup {n}
           new(w) == [w EXCEPT !.todo = Tail(w.todo), !.outs = w.outs \cup {FileMeta(n, Head(w.todo))}]
<1>1. PICK w \in bg.comp :
        /\ w.todo # <<>> /\ vs' = [vs EXCEPT !.next = n + 1]
        /\ db' = [db EXCEPT !.pending = pend]
        /\ disk' = [disk EXCEPT !.tab = With(disk.tab, n, Synced(NewFile(<<Head(w.todo)>>)))]
        /\ bg' = [bg EXCEPT !.comp = {new(w)}]
  BY DEF WriteOutput
<1>2. /\ bg.pc = "merge" /\ ~db.shut /\ mems' = mems /\ wr' = wr /\ rd' = rd /\ snaps' = snaps /\ cr' = cr
      /\ hist' = hist /\ synced' = synced
  BY DEF WriteOutput
<1>3. /\ vs \in VSType /\ db \in DBType /\ bg \in BGType /\ IsDisk(disk) /\ n \in Nat /\ n + 1 \in Nat /\ pend \in SUBSET Nat
      /\ IsDir(disk.tab, Groups)
  BY DEF Inv, Typed, VSType, DBType, IsDisk
<1>4. w \in WorkType /\ w.todo \in Seq(Groups) /\ w.outs \in FileSets
  BY <1>3 DEF BGType, WorkType
<1>5. Head(w.todo) \in Groups /\ Tail(w.todo) \in Seq(Groups)
  BY <1>1, <1>4, HeadTailProperties
<1> HIDE DEF n, pend
<1>6. FileMeta(n, Head(w.todo)) \in FileType /\ Synced(NewFile(<<Head(w.todo)>>)) \in FileOf(Groups)
  BY <1>3, <1>5, TableFacts
<1>7. new(w) \in WorkType
  <2>1. w.outs \cup {FileMeta(n, Head(w.todo))} \in FileSets
    BY <1>4, <1>6, FilesClosed
  <2> DEFINE o == w.outs \cup {FileMeta(n, Head(w.todo))}
             td == Tail(w.todo)
  <2>2. o \in FileSets /\ td \in Seq(Groups) /\ new(w) = [w EXCEPT !.todo = td, !.outs = o]
    BY <1>5, <2>1
  <2> HIDE DEF o, td, new
  <2>3. QED BY <1>4, <2>2 DEF WorkType
<1> DEFINE x == new(w)
<1>8. bg' = [bg EXCEPT !.comp = {x}] /\ x \in WorkType
  BY <1>1, <1>7
<1> HIDE DEF new, x
<1>9. bg' \in BGType /\ bg'.pc = "merge"
  BY <1>2, <1>3, <1>8, BGChange
<1>10. IsDisk(disk')
  <2> DEFINE tb == With(disk.tab, n, Synced(NewFile(<<Head(w.todo)>>)))
  <2>1. IsDir(tb, Groups)
    BY <1>3, <1>6, DirWith
  <2>2. disk' = [disk EXCEPT !.tab = tb]
    BY <1>1
  <2> HIDE DEF tb
  <2>3. QED BY <1>3, <2>1, <2>2, DiskChange
<1>11. vs' \in VSType /\ vs'.ver = vs.ver /\ vs'.seek = vs.seek
  BY <1>1, <1>3, VSChange
<1>12. /\ db' \in DBType /\ db'.phase = db.phase /\ db'.mem = db.mem /\ db'.imm = db.imm /\ db'.err = db.err
       /\ db'.shut = db.shut /\ db'.sched = db.sched /\ db'.manual = db.manual /\ db'.queue = db.queue
       /\ db'.waiting = db.waiting
  BY <1>1, <1>3 DEF DBType
<1>13. db.phase = "open"
  BY <1>2 DEF Inv, Quiet
<1>14. Typed'
  BY <1>2, <1>9, <1>10, <1>11, <1>12 DEF Inv, Typed
<1>15. Quiet' /\ MemRefs'
  BY <1>2, <1>9, <1>12, <1>13 DEF Inv, Quiet, MemRefs
<1>16. Scheduled'
  BY <1>2, <1>11, <1>12 DEF Inv, Scheduled, WaitersAreSignalled, NeedsCompaction
<1>17. QED BY <1>14, <1>15, <1>16 DEF Inv

\* The edit of a compaction.
LEMMA CompactionEditType ==
  ASSUME vs \in VSType, NEW w \in WorkType, NEW del, NEW add,
         del = {<<w.c.level, f.num>> : f \in w.c.in0} \cup {<<w.c.level + 1, f.num>> : f \in w.c.in1},
         add = {<<w.c.level + 1, f>> : f \in w.outs}
  PROVE  Filled(vs, vs.log, {<<w.c.level, w.c.large>>}, del, add) \in FilledEdit
<1>1. /\ w.c \in CompactionType /\ w.outs \in FileSets /\ vs.log \in Nat
  BY DEF WorkType, VSType
<1>2. /\ w.c.level \in 0 .. NumLevels - 2 /\ w.c.in0 \in FileSets /\ w.c.in1 \in FileSets /\ w.c.large \in IKeyType
  BY <1>1 DEF CompactionType
<1>3. w.c.level \in Levels /\ w.c.level + 1 \in Levels
  BY <1>2, ConfigAssumption DEF Levels
<1>4. del \in SUBSET (Levels \X Nat)
  BY <1>2, <1>3 DEF FileSets, FileType
<1>5. add \in Adds
  <2> DEFINE F == [f \in w.outs |-> <<w.c.level + 1, f>>]
  <2>1. add = {F[f] : f \in w.outs} /\ DOMAIN F = w.outs /\ \A f \in w.outs : F[f] \in Levels \X FileType
    BY <1>1, <1>3 DEF FileSets
  <2> HIDE DEF F
  <2>2. IsFiniteSet(w.outs)
    BY <1>1 DEF FileSets
  <2>3. IsFiniteSet({F[f] : f \in w.outs})
    BY <2>1, <2>2, ImageFinite
  <2>4. QED BY <2>1, <2>3 DEF Adds
<1>6. {<<w.c.level, w.c.large>>} \in SUBSET (Levels \X IKeyType)
  BY <1>2, <1>3
<1>7. QED BY <1>1, <1>4, <1>5, <1>6, FilledType

\* The results of a compaction go to the manifest.
LEMMA ApplyCompactionInv ==
  ASSUME Inv, ApplyCompaction
  PROVE  Inv'
<1> DEFINE del(w) == {<<w.c.level, f.num>> : f \in w.c.in0} \cup {<<w.c.level + 1, f.num>> : f \in w.c.in1}
           add(w) == {<<w.c.level + 1, f>> : f \in w.outs}
           edit(w) == Filled(vs, vs.log, {<<w.c.level, w.c.large>>}, del(w), add(w))
<1>1. PICK w \in bg.comp :
        /\ \E m \in Appends(disk.man[vs.man], edit(w)) : disk' = [disk EXCEPT !.man = [disk.man EXCEPT ![vs.man] = m]]
        /\ bg' = [bg EXCEPT !.pc = "install", !.job = "compact", !.edit = edit(w)]
  BY DEF ApplyCompaction
<1>2. /\ bg.pc = "merge" /\ vs' = vs /\ db' = db /\ mems' = mems /\ wr' = wr /\ rd' = rd /\ snaps' = snaps
      /\ cr' = cr /\ hist' = hist /\ synced' = synced
  BY DEF ApplyCompaction
<1>3. vs \in VSType /\ bg \in BGType /\ IsDisk(disk) /\ w \in WorkType /\ bg.comp # {}
  BY DEF Inv, Typed, BGType
<1>4. edit(w) \in FilledEdit
  BY <1>3, CompactionEditType
<1> DEFINE e == edit(w)
<1>5. /\ \E m \in Appends(disk.man[vs.man], e) : disk' = [disk EXCEPT !.man = [disk.man EXCEPT ![vs.man] = m]]
      /\ bg' = [bg EXCEPT !.pc = "install", !.job = "compact", !.edit = e] /\ e \in FilledEdit
  BY <1>1, <1>4
<1> HIDE DEF e, edit
<1>6. IsDisk(disk')
  <2>1. PICK x \in Appends(disk.man[vs.man], e) : disk' = [disk EXCEPT !.man = [disk.man EXCEPT ![vs.man] = x]]
    BY <1>5
  <2>2. PICK mn \in WithEdit(disk, vs.man, e) : mn = [disk.man EXCEPT ![vs.man] = x]
    BY ONLY x \in Appends(disk.man[vs.man], e), EditIsWritten
  <2>3. IsDisk([disk EXCEPT !.man = mn])
    BY <1>3, <1>5, ManifestChange
  <2>4. QED BY <2>1, <2>2, <2>3
<1>7. bg' \in BGType /\ bg'.pc = "install"
  BY <1>3, <1>5, BGChange
<1>8. Typed'
  BY <1>2, <1>6, <1>7 DEF Inv, Typed
<1>9. db.phase = "open" /\ db.sched
  BY <1>2 DEF Inv, Quiet, Scheduled
<1>10. QED BY <1>2, <1>7, <1>8, <1>9 DEF Inv, Quiet, MemRefs, Scheduled, WaitersAreSignalled, NeedsCompaction

\* What is left of a manual compaction.
LEMMA ManualPartType ==
  ASSUME cr \in CompactType, NEW w \in WorkType, NEW ok
  PROVE  ManualPart(w, ok) \in CompactType /\ ManualPart(w, ok).pc = cr.pc
<1> DEFINE lastFile == CHOOSE f \in w.c.in0 : \A g \in w.c.in0 : ~BySmallestKey(f, g)
<1>1. w.c.in0 \in FileSets /\ w.c.in0 # {}
  BY DEF WorkType, CompactionType
<1>2. lastFile \in w.c.in0
  BY <1>1, ExtremeFiles
<1> HIDE DEF lastFile
<1>3. lastFile.large.u \in Nat
  BY <1>1, <1>2 DEF FileSets, FileType, IKeyType
<1> DEFINE u == lastFile.large.u
<1>4. ManualPart(w, ok) \in {cr, [cr EXCEPT !.begin = u], [cr EXCEPT !.done = TRUE]}
  BY DEF ManualPart, lastFile
<1>5. u \in Nat
  BY <1>3
<1> HIDE DEF u
<1>6. [cr EXCEPT !.begin = u] \in CompactType /\ [cr EXCEPT !.begin = u].pc = cr.pc
  BY <1>5 DEF CompactType
<1>7. [cr EXCEPT !.done = TRUE] \in CompactType /\ [cr EXCEPT !.done = TRUE].pc = cr.pc
  BY DEF CompactType
<1>8. QED BY <1>4, <1>6, <1>7

\* The fields of the database a failed compaction resets.
LEMMA CleanedFacts ==
  ASSUME db \in DBType, NEW w
  PROVE  /\ Cleaned(w) \in DBType /\ Cleaned(w).phase = db.phase /\ Cleaned(w).mem = db.mem
         /\ Cleaned(w).imm = db.imm /\ Cleaned(w).err = db.err /\ Cleaned(w).shut = db.shut
         /\ Cleaned(w).sched = db.sched /\ Cleaned(w).queue = db.queue /\ Cleaned(w).waiting = db.waiting
         /\ Cleaned(w).pending = db.pending \ {f.num : f \in w.outs} /\ Cleaned(w).manual = FALSE
<1> DEFINE p == db.pending \ {f.num : f \in w.outs}
<1>1. Cleaned(w) = [db EXCEPT !.pending = p, !.manual = FALSE]
  BY DEF Cleaned
<1>2. p \in SUBSET Nat
  BY DEF DBType
<1> HIDE DEF p
<1>3. Cleaned(w) \in DBType
  BY <1>1, <1>2 DEF DBType
<1>4. QED BY <1>1, <1>3 DEF DBType, p

\* A compaction is abandoned.
LEMMA AbortCompactionInv ==
  ASSUME Inv, AbortCompaction
  PROVE  Inv'
<1>1. PICK w \in bg.comp : db' = EndCall(RecordBackgroundError(Cleaned(w)), vs) /\ cr' = ManualPart(w, FALSE) /\ bg' = IdleBG
  BY DEF AbortCompaction
<1>2. /\ bg.pc = "merge" /\ disk' = disk /\ vs' = vs /\ mems' = mems /\ wr' = wr /\ rd' = rd /\ snaps' = snaps
      /\ hist' = hist /\ synced' = synced
  BY DEF AbortCompaction
<1>3. db \in DBType /\ bg \in BGType /\ cr \in CompactType /\ w \in WorkType
  BY DEF Inv, Typed, BGType
<1>4. cr' \in CompactType /\ cr'.pc = cr.pc
  BY <1>1, <1>3, ManualPartType
<1>5. db.phase = "open" /\ db.sched = TRUE /\ (db.shut => db.queue = <<>> /\ cr.pc = "idle")
  BY <1>2, <1>3 DEF Inv, Quiet, Scheduled, DBType
<1>6. PICK d : d = Cleaned(w)
  OBVIOUS
<1>7. /\ d \in DBType /\ d.phase = "open" /\ d.sched = TRUE /\ d.mem = db.mem /\ d.imm = db.imm
      /\ (d.shut => d.queue = <<>> /\ cr'.pc = "idle")
  BY <1>3, <1>4, <1>5, <1>6, CleanedFacts
<1>8. db' = EndCall(RecordBackgroundError(d), vs) /\ bg' = IdleBG
  BY <1>1, <1>6
<1>9. /\ db' \in DBType /\ bg' \in BGType /\ bg'.pc # "build" /\ Quiet' /\ Scheduled'
      /\ db'.phase = "open" /\ db'.mem = db.mem /\ db'.imm = db.imm
  BY <1>2, <1>3, <1>7, <1>8, GivenUp
<1>10. Typed'
  BY <1>2, <1>4, <1>9 DEF Inv, Typed
<1>11. MemRefs'
  BY <1>2, <1>5, <1>9 DEF Inv, MemRefs
<1>12. QED BY <1>9, <1>10, <1>11 DEF Inv

\* The manifest record could not be written or synced.
LEMMA InstallFailsInv ==
  ASSUME Inv, InstallFails
  PROVE  Inv'
<1> DEFINE f == Torn(disk.man[vs.man])
           mn == [disk.man EXCEPT ![vs.man] = f]
<1>1. /\ bg.pc = "install" /\ vs' = vs /\ mems' = mems /\ wr' = wr /\ rd' = rd /\ snaps' = snaps
      /\ hist' = hist /\ synced' = synced
      /\ disk' = disk \/ disk' = [disk EXCEPT !.man = mn]
      /\ \/ \E w \in bg.comp : GiveUp(Cleaned(w), vs) /\ cr' = ManualPart(w, FALSE)
         \/ GiveUp(db, vs) /\ cr' = cr
  BY DEF InstallFails
<1>2. /\ db \in DBType /\ bg \in BGType /\ cr \in CompactType /\ IsDisk(disk) /\ IsDir(disk.man, EditType)
      /\ bg.comp \in SUBSET WorkType
  BY DEF Inv, Typed, BGType, IsDisk
<1>3. IsDisk(disk')
  <2>1. vs.man \in DOMAIN disk.man => f \in FileOf(EditType)
    <3>1. SUFFICES ASSUME vs.man \in DOMAIN disk.man PROVE f \in FileOf(EditType)
      OBVIOUS
    <3> DEFINE r == disk.man[vs.man].recs
    <3>2. disk.man[vs.man] \in FileOf(EditType)
      BY <1>2, <3>1 DEF IsDir
    <3>3. r \in Seq(EditType) /\ Len(r) \in Nat
      BY <3>2, FileParts
    <3>4. Front(r) \in Seq(EditType)
      <4>1. \A i \in 1 .. Len(r) - 1 : r[i] \in EditType
        BY <3>3, ElementOfSeq
      <4>2. SubSeq(r, 1, Len(r) - 1) \in Seq(EditType)
        BY <3>3, <4>1, SubSeqProperties
      <4>3. QED BY <4>2 DEF Front
    <3>5. QED BY <3>2, <3>4, TornFacts
  <2> HIDE DEF f
  <2>2. IsDir(mn, EditType)
    BY <1>2, <2>1, DirUpdate
  <2> HIDE DEF mn
  <2>3. IsDisk([disk EXCEPT !.man = mn])
    BY <1>2, <2>2, DiskChange
  <2>4. QED BY <1>1, <1>2, <2>3
<1>4. db.phase = "open" /\ db.sched = TRUE /\ (db.shut => db.queue = <<>> /\ cr.pc = "idle")
  BY <1>1, <1>2 DEF Inv, Quiet, Scheduled, DBType
<1>5. PICK d :
        /\ d \in DBType /\ d.phase = "open" /\ d.sched = TRUE /\ d.mem = db.mem /\ d.imm = db.imm
        /\ d.shut = db.shut /\ d.queue = db.queue
        /\ \/ db' = RecordBackgroundError(d) /\ bg' = [bg EXCEPT !.pc = "merge", !.job = "none"]
           \/ db' = EndCall(RecordBackgroundError(d), vs) /\ bg' = IdleBG
        /\ cr' \in CompactType /\ cr'.pc = cr.pc
  <2>1. CASE GiveUp(db, vs) /\ cr' = cr
    <3>1. \/ db' = RecordBackgroundError(db) /\ bg' = [bg EXCEPT !.pc = "merge", !.job = "none"]
          \/ db' = EndCall(RecordBackgroundError(db), vs) /\ bg' = IdleBG
      BY <2>1 DEF GiveUp
    <3>2. QED BY <1>2, <1>4, <2>1, <3>1
  <2>2. CASE \E w \in bg.comp : GiveUp(Cleaned(w), vs) /\ cr' = ManualPart(w, FALSE)
    <3>1. PICK w \in bg.comp : GiveUp(Cleaned(w), vs) /\ cr' = ManualPart(w, FALSE)
      BY <2>2
    <3>2. cr' \in CompactType /\ cr'.pc = cr.pc
      BY <1>2, <3>1, ManualPartType
    <3>3. \/ db' = RecordBackgroundError(Cleaned(w)) /\ bg' = [bg EXCEPT !.pc = "merge", !.job = "none"]
          \/ db' = EndCall(RecordBackgroundError(Cleaned(w)), vs) /\ bg' = IdleBG
      BY <3>1 DEF GiveUp
    <3>4. /\ Cleaned(w) \in DBType /\ Cleaned(w).phase = "open" /\ Cleaned(w).sched = TRUE
          /\ Cleaned(w).mem = db.mem /\ Cleaned(w).imm = db.imm /\ Cleaned(w).shut = db.shut
          /\ Cleaned(w).queue = db.queue
      BY <1>2, <1>4, CleanedFacts
    <3>5. QED BY <3>2, <3>3, <3>4
  <2>3. QED BY <1>1, <2>1, <2>2
<1>6. d.shut => d.queue = <<>> /\ cr'.pc = "idle"
  BY <1>4, <1>5
<1>7. /\ db' \in DBType /\ bg' \in BGType /\ bg'.pc # "build" /\ Quiet' /\ Scheduled'
      /\ db'.phase = "open" /\ db'.mem = db.mem /\ db'.imm = db.imm
  BY <1>1, <1>2, <1>5, <1>6, GivenUp
<1>8. Typed'
  BY <1>1, <1>3, <1>5, <1>7 DEF Inv, Typed
<1>9. MemRefs'
  BY <1>1, <1>4, <1>7 DEF Inv, MemRefs
<1>10. QED BY <1>7, <1>8, <1>9 DEF Inv

\* A new version is installed.
LEMMA InstallInv ==
  ASSUME Inv, Install
  PROVE  Inv'
<1> DEFINE v == Installed(vs, bg.edit)
           d == [disk EXCEPT !.man = [disk.man EXCEPT ![vs.man] = Synced(disk.man[vs.man])]]
           nested == bg.job = "flush" /\ bg.comp # {}
           inUse == {v.ver} \cup PinnedVersions \cup (IF nested THEN {w.c.ver : w \in bg.comp} ELSE {})
           flushed == [db EXCEPT !.imm = 0]
           pend == db.pending \ {f.num : f \in UNION {w.outs : w \in bg.comp}}
           cleaned == [db EXCEPT !.pending = pend, !.manual = FALSE]
           now == IF bg.job = "flush" THEN flushed ELSE IF bg.job = "compact" THEN cleaned ELSE db
<1>1. /\ bg.pc = "install" /\ vs' = v
      /\ disk' = d \/ disk' = DeleteObsolete(d, v, db.err, LiveFiles(now.pending, inUse))
      /\ mems' = Referenced(mems, now, rd)
      /\ \/ nested /\ db' = SignalAll(now) /\ bg' = [bg EXCEPT !.pc = "merge", !.job = "none"]
         \/ db' = EndCall(now, v) /\ bg' = IdleBG
      /\ cr' = (IF bg.job = "compact" THEN ManualPart(CHOOSE w \in bg.comp : TRUE, TRUE) ELSE cr)
      /\ wr' = wr /\ rd' = rd /\ snaps' = snaps /\ hist' = hist /\ synced' = synced
  BY DEF Install
<1>2. /\ vs \in VSType /\ db \in DBType /\ bg \in BGType /\ IsDisk(disk) /\ IsMems(mems) /\ cr \in CompactType
      /\ bg.edit \in FilledEdit /\ db.pending \in SUBSET Nat /\ rd \in [Readers -> SUBSET PinType]
      /\ bg.comp \in SUBSET WorkType /\ (bg.job = "compact" => bg.comp # {})
  BY <1>1 DEF Inv, Typed, BGType, DBType
<1>3. v \in VSType
  BY <1>2, InstalledType
<1>4. IsDisk(d)
  BY <1>2, ManifestChange
<1>5. IsDisk(disk')
  <2> HIDE DEF d, v, now, inUse
  <2>1. CASE disk' = d
    BY <1>4, <2>1
  <2>2. CASE disk' = DeleteObsolete(d, v, db.err, LiveFiles(now.pending, inUse))
    BY <1>4, <2>2, DeleteObsoleteType
  <2>3. QED BY <1>1, <2>1, <2>2
<1>6. cr' \in CompactType /\ cr'.pc = cr.pc
  <2>1. CASE bg.job = "compact"
    <3> DEFINE w == CHOOSE x \in bg.comp : TRUE
    <3>1. w \in bg.comp
      BY <1>2, <2>1
    <3>2. cr' = ManualPart(w, TRUE)
      BY <1>1, <2>1
    <3> HIDE DEF w
    <3>3. QED BY <1>2, <3>1, <3>2, ManualPartType
  <2>2. CASE bg.job # "compact"
    BY <1>1, <1>2, <2>2
  <2>3. QED BY <2>1, <2>2
<1>7. db.phase = "open" /\ db.sched /\ (db.shut => db.queue = <<>> /\ cr.pc = "idle")
  BY <1>1 DEF Inv, Quiet, Scheduled
<1>8. /\ now \in DBType /\ now.phase = "open" /\ now.mem = db.mem /\ (now.imm = db.imm \/ now.imm = 0)
      /\ now.shut = db.shut /\ now.sched = db.sched /\ now.queue = db.queue
  <2>1. pend \in SUBSET Nat
    BY <1>2
  <2> HIDE DEF pend
  <2>2. /\ flushed \in DBType /\ flushed.phase = db.phase /\ flushed.mem = db.mem /\ flushed.imm = 0
        /\ flushed.shut = db.shut /\ flushed.sched = db.sched /\ flushed.queue = db.queue
    BY <1>2 DEF DBType
  <2>3. /\ cleaned \in DBType /\ cleaned.phase = db.phase /\ cleaned.mem = db.mem /\ cleaned.imm = db.imm
        /\ cleaned.shut = db.shut /\ cleaned.sched = db.sched /\ cleaned.queue = db.queue
    BY <1>2, <2>1 DEF DBType
  <2>4. now = flushed \/ now = cleaned \/ now = db
    OBVIOUS
  <2> HIDE DEF now, flushed, cleaned
  <2>5. QED BY <1>2, <1>7, <2>2, <2>3, <2>4
<1> HIDE DEF now, v, d, inUse
<1>9. /\ db' \in DBType /\ bg' \in BGType /\ bg'.pc # "build" /\ Quiet' /\ Scheduled'
      /\ db'.phase = "open" /\ db'.mem = now.mem /\ db'.imm = now.imm
  <2>1. CASE db' = SignalAll(now) /\ bg' = [bg EXCEPT !.pc = "merge", !.job = "none"]
    <3>1. /\ db' \in DBType /\ db'.phase = "open" /\ db'.mem = now.mem /\ db'.imm = now.imm /\ db'.shut = now.shut
          /\ db'.sched = now.sched /\ db'.queue = now.queue /\ db'.waiting = {}
      BY <1>8, <2>1 DEF DBType, SignalAll
    <3>2. bg' \in BGType /\ bg'.pc = "merge"
      BY <1>2, <2>1, BGChange
    <3>3. Quiet'
      BY <3>1 DEF Quiet
    <3>4. Scheduled'
      BY <1>6, <1>7, <1>8, <3>1 DEF Scheduled, WaitersAreSignalled
    <3>5. QED BY <3>1, <3>2, <3>3, <3>4
  <2>2. CASE db' = EndCall(now, v) /\ bg' = IdleBG
    <3>1. PICK x : x = now
      OBVIOUS
    <3>2. x \in DBType /\ x.phase = "open" /\ (x.shut => x.queue = <<>> /\ cr'.pc = "idle")
      BY <1>6, <1>7, <1>8, <3>1
    <3>3. db' = EndCall(x, vs') /\ bg'.pc = "idle" /\ bg' \in BGType
      BY <1>1, <2>2, <3>1, NewDBEditType DEF IdleBG
    <3>4. QED BY <3>1, <3>2, <3>3, CallEnds
  <2>3. QED BY <1>1, <2>1, <2>2
<1>10. /\ IsMems(mems')
       /\ now.mem \in DOMAIN mems => now.mem \in DOMAIN mems'
       /\ now.imm \in DOMAIN mems => now.imm \in DOMAIN mems'
       /\ \A q \in Readers : \A x \in rd[q] :
              /\ x.mem \in DOMAIN mems => x.mem \in DOMAIN mems'
              /\ x.imm \in DOMAIN mems => x.imm \in DOMAIN mems'
  <2>1. rd = [q \in Readers |-> rd[q]]
    BY <1>2
  <2>2. QED BY <1>1, <1>2, <2>1, ReferencedFacts
<1>11. Typed'
  BY <1>1, <1>3, <1>5, <1>6, <1>9, <1>10 DEF Inv, Typed
<1>12. MemRefs'
  <2>1. db'.mem \in DOMAIN mems' /\ (db'.imm # 0 => db'.imm \in DOMAIN mems')
    BY <1>7, <1>8, <1>9, <1>10 DEF Inv, MemRefs
  <2>2. \A q \in Readers : \A x \in rd'[q] : x.mem \in DOMAIN mems' /\ (x.imm # 0 => x.imm \in DOMAIN mems')
    BY <1>1, <1>10 DEF Inv, MemRefs
  <2>3. QED BY <1>9, <2>1, <2>2 DEF MemRefs
<1>13. QED BY <1>9, <1>11, <1>12 DEF Inv

-----------------------------------------------------------------------------
(* The invariant: manual compactions and closing.                            *)

\* CompactRange begins.
LEMMA BeginCompactRangeInv ==
  ASSUME Inv, BeginCompactRange
  PROVE  Inv'
<1> DEFINE m(r) == MaxLevelWithFiles(r[1], r[2])
<1>1. PICK r \in Ranges : cr' = [IdleCompact EXCEPT !.pc = "memtable", !.max = m(r), !.lo = r[1], !.begin = r[1], !.end = r[2]]
  BY DEF BeginCompactRange
<1>2. /\ db.phase = "open" /\ ~db.shut /\ Enqueue(Compactor, <<>>, FALSE)
      /\ disk' = disk /\ vs' = vs /\ mems' = mems /\ bg' = bg /\ rd' = rd /\ snaps' = snaps /\ hist' = hist /\ synced' = synced
  BY DEF BeginCompactRange, IsOpen
<1>3. r[1] \in Nat /\ r[2] \in Nat
  <2>1. r \in (Keys \cup {NoBound}) \X (Keys \cup {NoBound})
    BY DBAssumption
  <2>2. Keys \cup {NoBound} \subseteq Nat
    BY DBAssumption DEF NoBound
  <2>3. QED BY <2>1, <2>2
<1>4. m(r) \in 1 .. NumLevels - 1
  <2> DEFINE S == {1} \cup {l \in 1 .. NumLevels - 1 : OverlapInLevel(vs.ver, l, r[1], r[2])}
  <2>1. m(r) = Max(S) /\ S \subseteq 1 .. NumLevels - 1 /\ S # {}
    BY ConfigAssumption DEF MaxLevelWithFiles
  <2> HIDE DEF S
  <2>2. S \subseteq Nat /\ NumLevels - 1 \in Nat /\ \A x \in S : x <= NumLevels - 1
    BY <2>1, ConfigAssumption
  <2>3. Max(S) \in S
    BY <2>1, <2>2, MaxOfNats
  <2>4. QED BY <2>1, <2>3
<1>5. cr' \in CompactType
  <2> DEFINE x == m(r)
  <2>1. x \in 0 .. NumLevels - 1
    BY <1>4, ConfigAssumption
  <2>2. cr' = [IdleCompact EXCEPT !.pc = "memtable", !.max = x, !.lo = r[1], !.begin = r[1], !.end = r[2]]
    BY <1>1
  <2> HIDE DEF x, m
  <2>3. IdleCompact \in CompactType
    BY ClosedTypes
  <2>4. QED BY <1>3, <2>1, <2>2, <2>3 DEF CompactType
<1>6. db \in DBType /\ wr \in [Threads -> WriterType] /\ Compactor \in Threads /\ <<>> \in Seq(Ops) /\ FALSE \in BOOLEAN
  BY DEF Inv, Typed, Threads
<1>7. /\ db' \in DBType /\ wr' \in [Threads -> WriterType]
      /\ db'.sched = db.sched /\ db'.waiting = db.waiting
      /\ db'.phase = db.phase /\ db'.mem = db.mem /\ db'.imm = db.imm
      /\ db'.err = db.err /\ db'.shut = db.shut /\ db'.manual = db.manual
  BY <1>2, <1>6, EnqueueFacts
<1>8. Typed'
  BY <1>2, <1>5, <1>7 DEF Inv, Typed
<1>9. Quiet' /\ MemRefs'
  BY <1>2, <1>7 DEF Inv, Quiet, MemRefs
<1>10. Scheduled'
  BY <1>2, <1>7 DEF Inv, Scheduled, WaitersAreSignalled, NeedsCompaction
<1>11. QED BY <1>8, <1>9, <1>10 DEF Inv

\* The end of TEST_CompactMemTable, or waiting for it.
LEMMA MemTableCompactedInv ==
  ASSUME Inv, MemTableCompacted
  PROVE  Inv'
<1> DEFINE d == [db EXCEPT !.waiting = db.waiting \cup {Compactor}]
           c == [cr EXCEPT !.pc = "levels"]
<1>1. /\ db.phase = "open" /\ cr.pc = "memtable"
      /\ \/ db.imm # 0 /\ ~db.err /\ db' = d /\ cr' = cr
         \/ cr' = c /\ db' = db
      /\ disk' = disk /\ vs' = vs /\ mems' = mems /\ wr' = wr /\ bg' = bg /\ rd' = rd /\ snaps' = snaps
      /\ hist' = hist /\ synced' = synced
  BY DEF MemTableCompacted, Awake
<1>2. db \in DBType /\ cr \in CompactType
  BY DEF Inv, Typed
<1>3. ~db.shut
  BY <1>1 DEF Inv, Scheduled
<1>4. CASE db.imm # 0 /\ ~db.err /\ db' = d /\ cr' = cr
  <2>1. db.sched
    BY <1>1, <1>3, <1>4 DEF Inv, Scheduled
  <2>2. /\ db' \in DBType /\ db'.phase = db.phase /\ db'.mem = db.mem /\ db'.imm = db.imm /\ db'.err = db.err
        /\ db'.shut = db.shut /\ db'.sched = db.sched /\ db'.manual = db.manual /\ db'.queue = db.queue
    BY <1>2, <1>4 DEF DBType, Threads
  <2>3. Typed'
    BY <1>1, <1>4, <2>2 DEF Inv, Typed
  <2>4. QED BY <1>1, <1>3, <1>4, <2>1, <2>2, <2>3 DEF Inv, Quiet, MemRefs, Scheduled, WaitersAreSignalled, NeedsCompaction
<1>5. CASE cr' = c /\ db' = db
  <2>1. cr' \in CompactType
    BY <1>2, <1>5 DEF CompactType
  <2>2. Typed'
    BY <1>1, <1>5, <2>1 DEF Inv, Typed
  <2>3. QED BY <1>1, <1>3, <1>5, <2>2 DEF Inv, Quiet, MemRefs, Scheduled, WaitersAreSignalled, NeedsCompaction
<1>6. QED BY <1>1, <1>4, <1>5

\* TEST_CompactRange hands over its level, waits, or goes on.
LEMMA CompactLevelInv ==
  ASSUME Inv, CompactLevel
  PROVE  Inv'
<1> DEFINE w == [db EXCEPT !.waiting = db.waiting \cup {Compactor}]
           m == [db EXCEPT !.manual = TRUE]
           n == [db EXCEPT !.manual = FALSE]
           c == [cr EXCEPT !.level = cr.level + 1, !.begin = cr.lo, !.done = FALSE]
<1>1. /\ db.phase = "open" /\ cr.pc = "levels"
      /\ \/ ~db.err /\ db.manual /\ db' = w /\ cr' = cr
         \/ db' = MaybeSchedule(m, vs) /\ cr' = cr
         \/ db' = n /\ cr' = c /\ cr.level + 1 < cr.max
         \/ db' = n /\ cr' = IdleCompact
      /\ disk' = disk /\ vs' = vs /\ mems' = mems /\ wr' = wr /\ bg' = bg /\ rd' = rd /\ snaps' = snaps
      /\ hist' = hist /\ synced' = synced
  BY DEF CompactLevel, Awake
<1>2. db \in DBType /\ cr \in CompactType
  BY DEF Inv, Typed
<1>3. ~db.shut
  BY <1>1 DEF Inv, Scheduled
<1>4. CASE ~db.err /\ db.manual /\ db' = w /\ cr' = cr
  <2>1. db.sched
    BY <1>1, <1>3, <1>4 DEF Inv, Scheduled
  <2>2. /\ db' \in DBType /\ db'.phase = db.phase /\ db'.mem = db.mem /\ db'.imm = db.imm /\ db'.err = db.err
        /\ db'.shut = db.shut /\ db'.sched = db.sched /\ db'.manual = db.manual /\ db'.queue = db.queue
    BY <1>2, <1>4 DEF DBType, Threads
  <2>3. Typed'
    BY <1>1, <1>4, <2>2 DEF Inv, Typed
  <2>4. QED BY <1>1, <1>3, <1>4, <2>1, <2>2, <2>3 DEF Inv, Quiet, MemRefs, Scheduled, WaitersAreSignalled, NeedsCompaction
<1>5. CASE db' = MaybeSchedule(m, vs) /\ cr' = cr
  <2>1. /\ m \in DBType /\ m.phase = db.phase /\ m.mem = db.mem /\ m.imm = db.imm /\ m.err = db.err
        /\ m.shut = db.shut /\ m.sched = db.sched /\ m.queue = db.queue /\ m.waiting = db.waiting
    BY <1>2 DEF DBType
  <2> HIDE DEF m
  <2>2. /\ db' \in DBType /\ db'.phase = db.phase /\ db'.mem = db.mem /\ db'.imm = db.imm /\ db'.err = db.err
        /\ db'.shut = db.shut /\ db'.queue = db.queue /\ db'.waiting = db.waiting /\ db'.manual = m.manual
        /\ db'.sched <=> db.sched \/ (~db.shut /\ ~db.err /\ (db.imm # 0 \/ m.manual \/ NeedsCompaction(vs)))
    BY <1>5, <2>1, ScheduleFacts
  <2>3. Typed'
    BY <1>1, <1>5, <2>2 DEF Inv, Typed
  <2>4. Quiet' /\ MemRefs'
    BY <1>1, <1>5, <2>2 DEF Inv, Quiet, MemRefs
  <2>5. Scheduled'
    BY <1>1, <1>3, <1>5, <2>2 DEF Inv, Scheduled, WaitersAreSignalled, NeedsCompaction
  <2>6. QED BY <2>3, <2>4, <2>5 DEF Inv
<1>6. CASE db' = n /\ (cr' = IdleCompact \/ (cr' = c /\ cr.level + 1 < cr.max))
  <2>1. cr' \in CompactType
    <3>1. CASE cr' = IdleCompact
      BY <3>1, ClosedTypes
    <3>2. CASE cr' = c /\ cr.level + 1 < cr.max
      <4> DEFINE k == cr.level + 1
      <4>1. k \in 0 .. NumLevels - 2
        BY <1>2, <3>2, ConfigAssumption DEF CompactType
      <4>2. cr' = [cr EXCEPT !.level = k, !.begin = cr.lo, !.done = FALSE]
        BY <3>2
      <4> HIDE DEF k
      <4>3. QED BY <1>2, <4>1, <4>2 DEF CompactType
    <3>3. QED BY <1>6, <3>1, <3>2
  <2>2. /\ db' \in DBType /\ db'.phase = db.phase /\ db'.mem = db.mem /\ db'.imm = db.imm /\ db'.err = db.err
        /\ db'.shut = db.shut /\ db'.sched = db.sched /\ db'.queue = db.queue /\ db'.waiting = db.waiting
        /\ ~db'.manual
    BY <1>2, <1>6 DEF DBType
  <2>3. Typed'
    BY <1>1, <2>1, <2>2 DEF Inv, Typed
  <2>4. Quiet' /\ MemRefs'
    BY <1>1, <2>2 DEF Inv, Quiet, MemRefs
  <2>5. Scheduled'
    BY <1>1, <1>3, <2>2 DEF Inv, Scheduled, WaitersAreSignalled, NeedsCompaction
  <2>6. QED BY <2>3, <2>4, <2>5 DEF Inv
<1>7. QED BY <1>1, <1>4, <1>5, <1>6

\* The destructor begins, or waits for the background call.
LEMMA BeginCloseInv ==
  ASSUME Inv, BeginClose \/ WaitToClose
  PROVE  Inv'
<1> DEFINE s == [db EXCEPT !.shut = TRUE]
           w == [db EXCEPT !.waiting = db.waiting \cup {Closer}]
<1>1. /\ \/ db.phase = "open" /\ db.queue = <<>> /\ cr.pc = "idle" /\ db' = s
         \/ db.shut /\ db.sched /\ db' = w
      /\ disk' = disk /\ vs' = vs /\ mems' = mems /\ wr' = wr /\ bg' = bg /\ rd' = rd /\ snaps' = snaps /\ cr' = cr
      /\ hist' = hist /\ synced' = synced
  BY DEF BeginClose, WaitToClose, IsOpen
<1>2. db \in DBType
  BY DEF Inv, Typed
<1>3. CASE db.phase = "open" /\ db.queue = <<>> /\ cr.pc = "idle" /\ db' = s
  <2>1. /\ db' \in DBType /\ db'.phase = db.phase /\ db'.mem = db.mem /\ db'.imm = db.imm /\ db'.shut
        /\ db'.sched = db.sched /\ db'.queue = db.queue /\ db'.waiting = db.waiting
    BY <1>2, <1>3 DEF DBType
  <2>2. Typed'
    BY <1>1, <2>1 DEF Inv, Typed
  <2>3. QED BY <1>1, <1>3, <2>1, <2>2 DEF Inv, Quiet, MemRefs, Scheduled, WaitersAreSignalled
<1>4. CASE db.shut /\ db.sched /\ db' = w
  <2>1. /\ db' \in DBType /\ db'.phase = db.phase /\ db'.mem = db.mem /\ db'.imm = db.imm /\ db'.shut = db.shut
        /\ db'.sched = db.sched /\ db'.queue = db.queue
    BY <1>2, <1>4 DEF DBType
  <2>2. Typed'
    BY <1>1, <2>1 DEF Inv, Typed
  <2>3. db.phase = "open"
    BY <1>4 DEF Inv, Quiet
  <2>4. QED BY <1>1, <1>4, <2>1, <2>2, <2>3 DEF Inv, Quiet, MemRefs, Scheduled, WaitersAreSignalled
<1>5. QED BY <1>1, <1>3, <1>4

-----------------------------------------------------------------------------
(* The theorems.                                                             *)

\* Every step keeps the invariant.
LEMMA StepInv ==
  ASSUME Inv, [Next]_vars
  PROVE  Inv'
<1>1. CASE Opening
  BY <1>1, NewDBInv, RecoverInv, ReplayTableInv, StartManifestInv, FinishOpenInv DEF Opening
<1>2. CASE OpenError
  BY <1>2, OpenErrorInv
<1>3. CASE \E t \in Writers, call \in Calls : Write(t, call)
  BY <1>3, WriteInv
<1>4. CASE \E t \in Threads : Writing(t)
  BY <1>4, WriteFailsInv, WriteDelayedInv, WriteWaitsInv, SwitchMemTableInv, WriteLogInv, WriteMemInv, WriteDoneInv
     DEF Writing
<1>5. CASE \E r \in Readers : BeginRead(r) \/ EndRead(r)
  BY <1>5, BeginReadInv, EndReadInv
<1>6. CASE GetSnapshot \/ ReleaseSnapshot
  BY <1>6, SnapshotInv
<1>7. CASE Background
  BY <1>7, NothingToDoInv, StartFlushInv, FlushBuiltInv, StartCompactionInv, WriteOutputInv, ApplyCompactionInv,
     AbortCompactionInv, InstallInv, FinishCloseInv DEF Background
<1>8. CASE InstallFails
  BY <1>8, InstallFailsInv
<1>9. CASE BeginCompactRange \/ Compacting
  BY <1>9, BeginCompactRangeInv, MemTableCompactedInv, CompactLevelInv DEF Compacting
<1>10. CASE BeginClose \/ Closing \/ Crash
  BY <1>10, BeginCloseInv, FinishCloseInv DEF Closing
<1>11. CASE UNCHANGED vars
  <2>1. /\ disk' = disk /\ vs' = vs /\ db' = db /\ mems' = mems /\ wr' = wr /\ bg' = bg /\ rd' = rd
        /\ snaps' = snaps /\ cr' = cr /\ hist' = hist /\ synced' = synced
    BY <1>11 DEF vars
  <2>2. Typed'
    BY <2>1 DEF Inv, Typed
  <2>3. QED BY <2>1, <2>2 DEF Inv, Quiet, MemRefs, Scheduled, WaitersAreSignalled, NeedsCompaction
<1>12. QED BY <1>1, <1>2, <1>3, <1>4, <1>5, <1>6, <1>7, <1>8, <1>9, <1>10, <1>11 DEF Next

\* The invariant gives the types, and the pointers to memtables, of TypeOK.
LEMMA InvTypeOK == Inv => TypeOK
<1>1. SUFFICES ASSUME Inv PROVE TypeOK
  OBVIOUS
<1>2. /\ db.phase \in {"closed", "recovering", "manifest", "open"} /\ db.queue \in Seq(Threads)
      /\ db.waiting \subseteq Threads \cup {Closer} /\ bg.pc \in {"idle", "build", "merge", "install"}
  BY <1>1 DEF Inv, Typed, DBType, BGType
<1>3. Range(db.queue) \subseteq Threads
  BY <1>2, SeqElements
<1>4. \A t \in Threads : wr[t].pc \in {"idle", "queued", "delayed", "logged", "inserted"}
  BY <1>1 DEF Inv, Typed, WriterType
<1>5. db.phase = "open" => {db.mem} \cup ({db.imm} \ {0}) \subseteq DOMAIN mems
  BY <1>1 DEF Inv, MemRefs
<1>6. \A p \in UNION Range(rd) : {p.mem} \cup ({p.imm} \ {0}) \subseteq DOMAIN mems
  <2>1. ASSUME NEW p \in UNION Range(rd) PROVE \E r \in Readers : p \in rd[r]
    BY <1>1, <2>1 DEF Inv, Typed, Range
  <2>2. QED BY <1>1, <2>1 DEF Inv, MemRefs
<1>7. UNION hist \subseteq EntryType /\ UNION synced \subseteq EntryType
  BY <1>1 DEF Inv, Typed, EntrySets
<1>8. QED BY <1>2, <1>3, <1>4, <1>5, <1>6, <1>7 DEF TypeOK

\* The database keeps its types in every interleaving of writers, readers, the
\* background thread, CompactRange, close, I/O errors and crashes, and neither
\* it nor a reader ever points to a memtable that was freed (MemTable::Unref in
\* db_impl.cc).
THEOREM TypeCorrect == Spec => []TypeOK
<1>1. Init => Inv
  BY InitInv
<1>2. Inv /\ [Next]_vars => Inv'
  BY StepInv
<1>3. Inv => TypeOK
  BY InvTypeOK
<1>4. QED BY <1>1, <1>2, <1>3, PTL DEF Spec

\* No wake-up is lost: whoever waits on background_work_finished_signal_ (a
\* writer without room, CompactRange, the destructor) waits for a background
\* call that is scheduled and signals at its end.
THEOREM NoLostWakeUp == Spec => []WaitersAreSignalled
<1>1. Init => Inv
  BY InitInv
<1>2. Inv /\ [Next]_vars => Inv'
  BY StepInv
<1>3. Inv => WaitersAreSignalled
  BY DEF Inv, Scheduled
<1>4. QED BY <1>1, <1>2, <1>3, PTL DEF Spec

=============================================================================
