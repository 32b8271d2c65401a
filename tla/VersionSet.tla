----------------------------- MODULE VersionSet -----------------------------
(* The choices LevelDB's VersionSet makes, as operators: which table a read  *)
(* consults, where a memtable is put, which files a compaction takes, and    *)
(* what is left of their entries (db/version_set.cc, db/dbformat.cc and the  *)
(* merge loop of db/db_impl.cc).  LevelDB.tla is the state machine on top.   *)
(*                                                                           *)
(* An entry is [k |-> user key, s |-> sequence number, d |-> is a deletion]; *)
(* values are left out, because a sequence number already tells two writes   *)
(* of one key apart.  A file's size is its number of entries.                *)
EXTENDS Integers, FiniteSets, Sequences, SequencesExt

CONSTANTS
  NumLevels,            \* config::kNumLevels
  MaxMemCompactLevel,   \* config::kMaxMemCompactLevel
  L0CompactionTrigger,  \* config::kL0_CompactionTrigger
  MaxFileSize,          \* Options::max_file_size, in entries
  GrandParentLimit,     \* MaxGrandParentOverlapBytes, in entries
  ExpandLimit,          \* ExpandedCompactionByteSizeLimit, in entries
  LevelBase,            \* MaxBytesForLevel of level 1, in entries
  MaxSeq                \* kMaxSequenceNumber

ASSUME ConfigAssumption ==
  /\ NumLevels \in Nat \ {0, 1} /\ MaxMemCompactLevel \in 0 .. NumLevels - 1
  /\ L0CompactionTrigger \in Nat \ {0} /\ MaxFileSize \in Nat \ {0}
  /\ GrandParentLimit \in Nat /\ ExpandLimit \in Nat
  /\ LevelBase \in Nat \ {0} /\ MaxSeq \in Nat \ {0}

Levels == 0 .. NumLevels - 1

\* The elements of S in a strict order, the first and then the first of the
\* rest: Sorted takes the order as a relation, InOrder as an operator.
Sorted(S, R) ==
  LET first(T) == CHOOSE x \in T : \A y \in T : <<y, x>> \notin R
      rest[n \in 0 .. Cardinality(S)] ==
        IF n = 0 THEN S ELSE LET T == rest[n - 1] IN T \ {first(T)}
  IN [i \in 1 .. Cardinality(S) |-> first(rest[i - 1])]

Pairs(S, Before(_, _)) == {p \in S \X S : Before(p[1], p[2])}

InOrder(S, Before(_, _)) == Sorted(S, Pairs(S, Before))

-----------------------------------------------------------------------------
(* Internal keys: user key ascending, then sequence number descending.       *)

IKey(u, s) == [u |-> u, s |-> s]

Less(a, b) == a.u < b.u \/ (a.u = b.u /\ a.s > b.s)

LessEq(a, b) == a = b \/ Less(a, b)

KeyOf(e) == IKey(e.k, e.s)

Smallest(ks) == CHOOSE x \in ks : \A y \in ks : LessEq(x, y)

Largest(ks) == CHOOSE x \in ks : \A y \in ks : LessEq(y, x)

\* A null bound of a range of user keys; user keys are positive numbers.
NoBound == 0

-----------------------------------------------------------------------------
(* Files and versions.  A version maps a level to its set of files; the code *)
(* keeps the vector sorted by smallest key, the order FirstFile follows.     *)

FileMeta(n, es) ==
  LET ks == {KeyOf(e) : e \in es}
  IN [num |-> n, small |-> Smallest(ks), large |-> Largest(ks), size |-> Cardinality(es)]

BySmallestKey(f, g) == Less(f.small, g.small) \/ (f.small = g.small /\ f.num < g.num)

FirstFile(fs) == CHOOSE f \in fs : \A g \in fs : ~BySmallestKey(g, f)

EmptyVersion == [l \in Levels |-> {}]

VersionFiles(v) == UNION {v[l] : l \in Levels}

TotalFileSize(fs) == FoldFunction(+, 0, [f \in fs |-> f.size])

\* The first file whose largest key is not before ik, as a set of at most one.
FindFile(fs, ik) ==
  LET right == {f \in fs : LessEq(ik, f.large)}
  IN IF right = {} THEN {} ELSE {FirstFile(right)}

AfterFile(u, f) == u # NoBound /\ u > f.large.u

BeforeFile(u, f) == u # NoBound /\ u < f.small.u

InRange(fs, lo, hi) == {f \in fs : ~AfterFile(lo, f) /\ ~BeforeFile(hi, f)}

\* SomeFileOverlapsRange: a scan of level 0, a binary search elsewhere.
OverlapInLevel(v, l, lo, hi) ==
  IF l = 0 THEN InRange(v[0], lo, hi) # {}
  ELSE LET at == IF lo = NoBound THEN IF v[l] = {} THEN {} ELSE {FirstFile(v[l])}
                 ELSE FindFile(v[l], IKey(lo, MaxSeq))
       IN \E f \in at : ~BeforeFile(hi, f)

\* On level 0 files overlap each other: a file that sticks out of the range
\* widens it and the search starts again, until nothing sticks out.
GetOverlappingInputs(v, l, lo, hi) ==
  IF l > 0 THEN InRange(v[l], lo, hi)
  ELSE LET N == Cardinality(v[0])
           widen[n \in 0 .. N] ==
             IF n = 0 THEN <<lo, hi>>
             ELSE LET r  == widen[n - 1]
                      in == InRange(v[0], r[1], r[2])
                      us == {f.small.u : f \in in}
                      ul == {f.large.u : f \in in}
                  IN << IF r[1] = NoBound THEN NoBound ELSE Min(us \cup {r[1]}),
                        IF r[2] = NoBound THEN NoBound ELSE Max(ul \cup {r[2]}) >>
       IN InRange(v[0], widen[N][1], widen[N][2])

-----------------------------------------------------------------------------
(* Reading.                                                                  *)

\* The files of level l that Version::Get consults for user key u at snapshot
\* s: all that may hold u on level 0, at most one on the other levels.
Consulted(v, l, u, s) ==
  IF l = 0 THEN {f \in v[0] : f.small.u <= u /\ u <= f.large.u}
  ELSE {f \in FindFile(v[l], IKey(u, s)) : f.small.u <= u}

\* Newest level first, newest file first on level 0.
ReadBefore(a, b) == a[1] < b[1] \/ (a[1] = b[1] /\ a[2].num > b[2].num)

\* What a table lookup or a memtable lookup finds: the newest entry of u that
\* is not after snapshot s, as a set of at most one entry.
Lookup(es, u, s) ==
  LET seen == {e \in es : e.k = u /\ e.s <= s}
  IN {e \in seen : \A o \in seen : o.s <= e.s}

\* All files consulted, with their level.
AllConsulted(v, u, s) ==
  UNION {{<<l, f>> : f \in Consulted(v, l, u, s)} : l \in Levels}

\* Version::Get: the answer of the first consulted file that knows the key.
\* tab maps a table number to the entries a read of that file returns.
VersionGet(v, tab, u, s) ==
  LET hits == {x \in AllConsulted(v, u, s) : Lookup(tab[x[2].num], u, s) # {}}
  IN UNION {Lookup(tab[x[2].num], u, s) :
              x \in {h \in hits : \A o \in hits \ {h} : ReadBefore(h, o)}}

\* GetStats: with more than one file read, the first one is charged a seek.
SeekCharge(v, tab, u, s) ==
  LET order == InOrder(AllConsulted(v, u, s), ReadBefore)
      hits  == {i \in DOMAIN order : Lookup(tab[order[i][2].num], u, s) # {}}
      reads == IF hits = {} THEN Len(order) ELSE Min(hits)
  IN IF reads > 1 THEN {order[1]} ELSE {}

-----------------------------------------------------------------------------
(* Choosing what to compact.                                                 *)


\* The deepest level a new table over lo..hi may go to without passing a file
\* that overlaps it.
PickLevelForMemTableOutput(v, lo, hi) ==
  LET fits(l) == /\ ~OverlapInLevel(v, l + 1, lo, hi)
                 /\ \/ l + 2 >= NumLevels
                    \/ TotalFileSize(GetOverlappingInputs(v, l + 2, lo, hi)) <= GrandParentLimit
      stops  == {l \in 0 .. MaxMemCompactLevel : l = MaxMemCompactLevel \/ ~fits(l)}
  IN IF OverlapInLevel(v, 0, lo, hi) THEN 0 ELSE Min(stops)

MaxBytesForLevel[l \in Levels] == IF l <= 1 THEN LevelBase ELSE 10 * MaxBytesForLevel[l - 1]

\* Finalize: a level's score as a fraction, and the first level with the best.
Score(v, l) ==
  IF l = 0 THEN <<Cardinality(v[0]), L0CompactionTrigger>>
  ELSE <<TotalFileSize(v[l]), MaxBytesForLevel[l]>>

CompactionLevel(v) ==
  Min({l \in 0 .. NumLevels - 2 :
         \A m \in 0 .. NumLevels - 2 :
           Score(v, l)[1] * Score(v, m)[2] >= Score(v, m)[1] * Score(v, l)[2]})

SizeCompaction(v) == LET sc == Score(v, CompactionLevel(v)) IN sc[1] >= sc[2]

\* The files of one level that continue, under the same user key, after the
\* last key of a compaction's inputs: leaving them behind would let an older
\* entry be found before a newer one.
AddBoundaryInputs(fs, in) ==
  LET N == Cardinality(fs)
      next(large) == {f \in fs : Less(large, f.small) /\ f.small.u = large.u}
      grow[n \in 0 .. N] ==
        IF n = 0 THEN [files |-> in, large |-> Largest({f.large : f \in in})]
        ELSE LET g == grow[n - 1]
                 b == FirstFile(next(g.large))
             IN IF next(g.large) = {} THEN g
                ELSE [files |-> g.files \cup {b}, large |-> b.large]
  IN IF in = {} THEN {} ELSE grow[N].files

RangeSmallest(fs) == Smallest({f.small : f \in fs})

RangeLargest(fs) == Largest({f.large : f \in fs})

OverlappingFiles(v, l, fs) ==
  GetOverlappingInputs(v, l, RangeSmallest(fs).u, RangeLargest(fs).u)

\* A Compaction, once its inputs are settled.
Compaction(v, level, in0, in1) ==
  [level |-> level, in0 |-> in0, in1 |-> in1, ver |-> v, large |-> RangeLargest(in0),
   grand |-> IF level + 2 < NumLevels THEN OverlappingFiles(v, level + 2, in0 \cup in1) ELSE {}]

\* More files of this level (exp0) are taken if they drag in no further file
\* of the next.
ExpandInputs(v, level, in0, in1, exp0) ==
  LET exp1 == OverlappingFiles(v, level + 1, exp0)
  IN IF /\ in1 # {}
        /\ Cardinality(exp0) > Cardinality(in0)
        /\ TotalFileSize(in1) + TotalFileSize(exp0) < ExpandLimit
        /\ Cardinality(exp1) = Cardinality(in1)
     THEN Compaction(v, level, exp0, exp1)
     ELSE Compaction(v, level, in0, in1)

\* SetupOtherInputs: the boundary files, the files of the next level, then
\* more files of this level.
SetupOtherInputs(v, level, picked) ==
  LET in0  == AddBoundaryInputs(v[level], picked)
      in1  == OverlappingFiles(v, level + 1, in0)
      exp0 == AddBoundaryInputs(v[level], OverlappingFiles(v, level, in0 \cup in1))
  IN ExpandInputs(v, level, in0, in1, exp0)

\* The compaction the version asks for by itself, as a set of at most one: by
\* size, the first file after the level's compaction pointer (NoPointer when
\* there is none) or the first of all; else the file charged too many seeks.
NoPointer == IKey(0, 0)

PickCompaction(v, ptr, seek) ==
  LET level  == IF SizeCompaction(v) THEN CompactionLevel(v)
                ELSE CHOOSE l \in Levels : \E f \in v[l] : <<l, f>> \in seek
      after  == {f \in v[level] : ptr[level] = NoPointer \/ Less(ptr[level], f.large)}
      first  == IF ~SizeCompaction(v) THEN CHOOSE f \in v[level] : <<level, f>> \in seek
                ELSE FirstFile(IF after = {} THEN v[level] ELSE after)
      picked == IF level > 0 THEN {first}
                ELSE GetOverlappingInputs(v, 0, first.small.u, first.large.u)
  IN IF ~SizeCompaction(v) /\ seek = {} THEN {}
     ELSE {SetupOtherInputs(v, level, picked)}

\* A manual compaction of lo..hi: above level 0 only the first files, up to
\* the size of one output.
CompactRange(v, level, lo, hi) ==
  LET in    == InOrder(GetOverlappingInputs(v, level, lo, hi), BySmallestKey)
      upTo(i) == TotalFileSize({in[j] : j \in 1 .. i})
      full  == {i \in DOMAIN in : upTo(i) >= MaxFileSize}
      last  == IF level > 0 /\ full # {} THEN Min(full) ELSE Len(in)
  IN IF in = <<>> THEN {} ELSE {SetupOtherInputs(v, level, {in[i] : i \in 1 .. last})}

IsTrivialMove(c) ==
  Cardinality(c.in0) = 1 /\ c.in1 = {} /\ TotalFileSize(c.grand) <= GrandParentLimit

-----------------------------------------------------------------------------
(* The merge loop of DoCompactionWork.                                       *)

\* No file below the output level may hold the key.  (The code advances one
\* index per level over the ascending keys; the answer is the same.)
IsBaseLevelForKey(c, u) ==
  \A l \in c.level + 2 .. NumLevels - 1 :
    \A f \in c.ver[l] : ~(f.small.u <= u /\ u <= f.large.u)

\* The grandparent files passed before the key ik, counted since the last cut.
ShouldStopBefore(c, st, ik) ==
  LET passed == {g \in c.grand : Less(g.large, ik)} \ st.passed
      bytes  == st.overlapped + IF st.seen THEN TotalFileSize(passed) ELSE 0
  IN [stop |-> bytes > GrandParentLimit, passed |-> st.passed \cup passed,
      overlapped |-> IF bytes > GrandParentLimit THEN 0 ELSE bytes]

\* Fault: whatever a newer entry hides is dropped, snapshots or not.
DroppedIfHidden(c, st, e, oldest) ==
  \/ st.user = e.k
  \/ e.d /\ e.s <= oldest /\ IsBaseLevelForKey(c, e.k)

\* An entry no snapshot can see any more: hidden by a newer entry of its key,
\* or a deletion with nothing left below it to delete.
Dropped(c, st, e, oldest) ==
  LET newer == IF st.user = e.k THEN st.lastSeq ELSE MaxSeq
  IN \/ newer <= oldest
     \/ e.d /\ e.s <= oldest /\ IsBaseLevelForKey(c, e.k)

MergeStart == [outs |-> <<>>, open |-> {}, user |-> NoBound, lastSeq |-> MaxSeq,
               passed |-> {}, overlapped |-> 0, seen |-> FALSE]

\* One turn of the loop: close the output if the grandparents ask for it, drop
\* or add the entry, close the output if it is full.
MergeStep(c, oldest, st, e) ==
  LET sb    == ShouldStopBefore(c, st, KeyOf(e))
      cut   == sb.stop /\ st.open # {}
      outs  == IF cut THEN Append(st.outs, st.open) ELSE st.outs
      open  == IF cut THEN {} ELSE st.open
      added == IF Dropped(c, st, e, oldest) THEN open ELSE open \cup {e}
      full  == ~Dropped(c, st, e, oldest) /\ Cardinality(added) >= MaxFileSize
  IN [outs |-> IF full THEN Append(outs, added) ELSE outs,
      open |-> IF full THEN {} ELSE added,
      user |-> e.k, lastSeq |-> e.s,
      passed |-> sb.passed, overlapped |-> sb.overlapped, seen |-> TRUE]

EntryBefore(a, b) == Less(KeyOf(a), KeyOf(b))

\* The contents of the output files of compaction c over the entries es, when
\* the oldest snapshot is `oldest'.
MergedOutputs(c, es, oldest) ==
  LET order == InOrder(es, EntryBefore)
      merge[i \in 0 .. Len(order)] ==
        IF i = 0 THEN MergeStart ELSE MergeStep(c, oldest, merge[i - 1], order[i])
      end == merge[Len(order)]
  IN IF end.open = {} THEN end.outs ELSE Append(end.outs, end.open)

=============================================================================
