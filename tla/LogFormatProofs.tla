-------------------------- MODULE LogFormatProofs --------------------------
(***************************************************************************)
(* What a reader finds in a log file, for every size of block and header   *)
(* and every history of appends, failures, crashes and bad bytes.          *)
(***************************************************************************)
EXTENDS LogFormat, DataTheorems

-----------------------------------------------------------------------------
(* Blocks.                                                                   *)

\* Products.
LEMMA Times ==
  ASSUME NEW b \in Nat, NEW k \in Int, k >= 1
  PROVE  b * k >= b
OBVIOUS

\* A product with a negative factor.
LEMMA TimesNeg ==
  ASSUME NEW b \in Nat, NEW k \in Int, k <= 0 - 1
  PROVE  b * k <= 0 - b
OBVIOUS

\* The product of a difference.
LEMMA Distr ==
  ASSUME NEW b \in Int, NEW k \in Int, NEW j \in Int
  PROVE  b * (k - j) = b * k - b * j
OBVIOUS

\* The next multiple.
LEMMA TimesNext ==
  ASSUME NEW b \in Int, NEW k \in Int
  PROVE  b * (k + 1) = b * k + b
OBVIOUS

\* Position p is p % BlockSize behind the start of its block.
LEMMA DivMod ==
  ASSUME NEW p \in Nat
  PROVE  /\ p % BlockSize \in Nat /\ p % BlockSize < BlockSize
         /\ p \div BlockSize \in Nat
         /\ p = BlockSize * (p \div BlockSize) + (p % BlockSize)
<1>1. BlockSize \in Nat /\ BlockSize > 0
  BY LogAssumption
<1>2. p % BlockSize \in 0 .. BlockSize - 1
  BY ONLY <1>1, p \in Nat
<1>3. p \div BlockSize \in Int
  BY ONLY <1>1, p \in Nat
<1>3a. p \div BlockSize >= 0
  BY ONLY <1>1, p \in Nat
<1>4. p = BlockSize * (p \div BlockSize) + (p % BlockSize)
  BY ONLY <1>1, p \in Nat
<1>5. QED BY <1>1, <1>2, <1>3, <1>3a, <1>4

\* Quotient and remainder are unique.
LEMMA Unique ==
  ASSUME NEW q \in Int, NEW x \in Int, NEW d \in 0 .. BlockSize - 1, NEW e \in 0 .. BlockSize - 1,
         BlockSize * q + d = BlockSize * x + e
  PROVE  q = x /\ d = e
<1>1. BlockSize \in Nat
  BY LogAssumption
<1>2. BlockSize * (x - q) = BlockSize * x - BlockSize * q
  BY <1>1, Distr
<1>3. PICK k \in Int : k = x - q
  OBVIOUS
<1>4. PICK m \in Int : m = BlockSize * k
  BY <1>1, <1>3
<1>4a. m = d - e
  BY <1>1, <1>2, <1>3, <1>4
<1>5. k >= 1 => m >= BlockSize
  BY <1>1, <1>4, Times
<1>6. k <= 0 - 1 => m <= 0 - BlockSize
  BY <1>1, <1>4, TimesNeg
<1>7. k = 0
  BY <1>1, <1>4a, <1>5, <1>6
<1>8. QED BY <1>1, <1>3, <1>4, <1>4a, <1>7

\* The start of the block position p is in.
Base(p) == p - (p % BlockSize)

\* Base is the start of the block.
LEMMA BaseFacts ==
  ASSUME NEW p \in Nat
  PROVE  /\ Base(p) \in Nat /\ Base(p) <= p /\ p < Base(p) + BlockSize /\ Base(p) % BlockSize = 0
         /\ p % BlockSize \in Nat /\ p % BlockSize < BlockSize
<1>1. /\ BlockSize \in Nat /\ p % BlockSize \in Nat /\ p % BlockSize < BlockSize
      /\ p \div BlockSize \in Nat /\ p = BlockSize * (p \div BlockSize) + (p % BlockSize)
  BY DivMod, LogAssumption
<1>2. Base(p) = BlockSize * (p \div BlockSize) /\ Base(p) \in Nat
  BY <1>1 DEF Base
<1>3. PICK b \in Nat, q \in Int : b = Base(p) /\ q = p \div BlockSize
  BY <1>1, <1>2
<1>4. PICK x \in Int, e \in 0 .. BlockSize - 1 : x = b \div BlockSize /\ e = b % BlockSize
  BY <1>1, DivMod
<1>5. Base(p) % BlockSize = 0
  <2>1. PICK z \in 0 .. BlockSize - 1 : z = 0
    BY <1>1
  <2>2. PICK m \in Int, k \in Int : m = BlockSize * q /\ k = BlockSize * x
    BY <1>1
  <2>3. b = m /\ b = k + e
    <3>1. b = BlockSize * (b \div BlockSize) + (b % BlockSize)
      BY DivMod
    <3>2. QED BY <1>2, <1>3, <1>4, <2>2, <3>1
  <2>4. BlockSize * q + z = BlockSize * x + e
    BY <2>1, <2>2, <2>3
  <2>5. z = e
    BY ONLY <2>4, z \in 0 .. BlockSize - 1, q \in Int, x \in Int, e \in 0 .. BlockSize - 1, Unique
  <2>6. QED BY <1>3, <1>4, <2>1, <2>5
<1>6. QED BY <1>1, <1>2, <1>5 DEF Base

\* A position that is d behind the start of a block.
LEMMA BlockShift ==
  ASSUME NEW s \in Nat, s % BlockSize = 0, NEW d \in 0 .. BlockSize - 1
  PROVE  (s + d) % BlockSize = d /\ (s + d) \div BlockSize = s \div BlockSize
<1>1. /\ BlockSize \in Nat /\ s \div BlockSize \in Int
      /\ s = BlockSize * (s \div BlockSize) + (s % BlockSize)
  BY DivMod, LogAssumption
<1>2. PICK t \in Nat : t = s + d
  OBVIOUS
<1>3. /\ t % BlockSize \in 0 .. BlockSize - 1 /\ t \div BlockSize \in Int
      /\ t = BlockSize * (t \div BlockSize) + (t % BlockSize)
  BY <1>1, DivMod
<1>4. BlockSize * (s \div BlockSize) + d = BlockSize * (t \div BlockSize) + (t % BlockSize)
  BY <1>1, <1>2, <1>3
<1>5. s \div BlockSize = t \div BlockSize /\ d = t % BlockSize
  BY <1>1, <1>3, <1>4, Unique
<1>6. QED BY <1>2, <1>5

\* The next block.
LEMMA BlockNext ==
  ASSUME NEW s \in Nat, s % BlockSize = 0
  PROVE  (s + BlockSize) % BlockSize = 0
<1>1. /\ BlockSize \in Nat /\ BlockSize > 0 /\ s \div BlockSize \in Int
      /\ s = BlockSize * (s \div BlockSize) + (s % BlockSize)
  BY DivMod, LogAssumption
<1>2. PICK t \in Nat : t = s + BlockSize
  BY <1>1
<1>3. /\ t % BlockSize \in 0 .. BlockSize - 1 /\ t \div BlockSize \in Int
      /\ t = BlockSize * (t \div BlockSize) + (t % BlockSize)
  BY <1>1, DivMod
<1>4. PICK q \in Int : q = s \div BlockSize
  BY <1>1
<1>5. BlockSize * (q + 1) = BlockSize * q + BlockSize
  BY <1>1, TimesNext
<1>6. BlockSize * (q + 1) + 0 = BlockSize * (t \div BlockSize) + (t % BlockSize)
  BY <1>1, <1>2, <1>3, <1>4, <1>5
<1>7. 0 = t % BlockSize
  <2>1. PICK z \in 0 .. BlockSize - 1 : z = 0
    BY <1>1
  <2>2. PICK k \in Int, x \in Int, e \in 0 .. BlockSize - 1 :
          k = q + 1 /\ x = t \div BlockSize /\ e = t % BlockSize
    BY <1>1, <1>3
  <2>3. BlockSize * k + z = BlockSize * x + e
    BY <1>6, <2>1, <2>2
  <2>4. z = e
    BY ONLY <2>3, z \in 0 .. BlockSize - 1, k \in Int, x \in Int, e \in 0 .. BlockSize - 1, Unique
  <2>5. QED BY <2>1, <2>2, <2>4
<1>8. QED BY <1>2, <1>7

\* Positions of one block.
LEMMA SameBlock ==
  ASSUME NEW s \in Nat, s % BlockSize = 0, NEW p \in Nat, s <= p, p < s + BlockSize
  PROVE  Base(p) = s /\ p % BlockSize = p - s /\ p \div BlockSize = s \div BlockSize
<1>1. BlockSize \in Nat
  BY LogAssumption
<1>2. PICK d \in 0 .. BlockSize - 1 : d = p - s
  BY <1>1
<1>3. (s + d) % BlockSize = d /\ (s + d) \div BlockSize = s \div BlockSize
  BY <1>2, BlockShift
<1>4. p = s + d
  BY <1>1, <1>2
<1>5. QED BY <1>1, <1>2, <1>3, <1>4 DEF Base

\* Blocks do not overlap.
LEMMA BlocksApart ==
  ASSUME NEW s \in Nat, s % BlockSize = 0, NEW t \in Nat, t % BlockSize = 0, s < t
  PROVE  s + BlockSize <= t
<1>1. BlockSize \in Nat
  BY LogAssumption
<1>2. SUFFICES ASSUME t < s + BlockSize PROVE FALSE
  BY <1>1
<1>3. t % BlockSize = t - s
  BY <1>2, SameBlock
<1>4. QED BY <1>3

-----------------------------------------------------------------------------
(* The layout of a file.                                                     *)

Frags == [rec : Nat, type : {"full", "first", "middle", "last"}, from : Nat, len : Nat]

Size(f) == HeaderSize + f.len

Begins(f) == f.type \in {"full", "first"}

Ends(f) == f.type \in {"full", "last"}

\* A fragment of one of the records that were added.
IsFrag(f, recs) ==
  /\ f \in Frags /\ f.rec \in DOMAIN recs
  /\ Begins(f) => f.from = 0
  /\ f.from + f.len <= recs[f.rec].len
  /\ Ends(f) <=> f.from + f.len = recs[f.rec].len

\* A byte that is the n-th of a fragment, and one that ends a fragment.
Part(f, n) == [frag |-> f, at |-> n]

Real(b) == b.frag.rec # 0

Closes(b) == Real(b) /\ b.at = Size(b.frag)

Typed(c, recs) ==
  \A i \in DOMAIN c :
    \/ c[i] = ZeroByte
    \/ c[i] \in [frag : Frags, at : Nat] /\ IsFrag(c[i].frag, recs) /\ 1 <= c[i].at /\ c[i].at <= Size(c[i].frag)

\* A fragment is written from its first byte on.
Whole1(c) == \A i \in DOMAIN c : Real(c[i]) /\ c[i].at > 1 => i > 1 /\ c[i - 1] = Part(c[i].frag, c[i].at - 1)

\* Records are written in order, and the first fragment of a record before any
\* other, the last one after them.
Ordered(c) ==
  \A i, j \in DOMAIN c : i < j /\ Real(c[i]) /\ Real(c[j]) =>
    /\ c[i].frag.rec <= c[j].frag.rec
    /\ Begins(c[j].frag) /\ c[j].at = 1 => c[i].frag.rec < c[j].frag.rec
    /\ Ends(c[i].frag) /\ Closes(c[i]) => c[i].frag.rec < c[j].frag.rec

\* A fragment that continues another one is behind it, but for a trailer.
Continued(c, i, j) ==
  /\ i \in DOMAIN c /\ i < j /\ j - i <= HeaderSize
  /\ \A k \in DOMAIN c : i < k /\ k < j => c[k] = ZeroByte
  /\ Closes(c[i]) /\ ~Ends(c[i].frag) /\ c[i].frag.rec = c[j].frag.rec
  /\ c[i].frag.from + c[i].frag.len = c[j].frag.from

Chained(c) ==
  \A j \in DOMAIN c : Real(c[j]) /\ c[j].at = 1 /\ ~Begins(c[j].frag) => \E i \in DOMAIN c : Continued(c, i, j)

\* Where byte i is in its block.
InBlock(i) == (i - 1) % BlockSize

\* Records that were added while the writer knew its place: their fragments do
\* not straddle blocks, nothing torn is before them, and no trailer in their
\* block.
Aligned(c, recs) ==
  \A j \in DOMAIN c : Real(c[j]) /\ recs[c[j].frag.rec].placed =>
    /\ c[j].at = 1 => InBlock(j) + Size(c[j].frag) <= BlockSize
    /\ c[j].at = 1 /\ j > 1 => c[j - 1] = ZeroByte \/ Closes(c[j - 1])
    /\ \A i \in DOMAIN c : i < j /\ j - i <= InBlock(j) => c[i] # ZeroByte

\* Trailers, while the writer knows its place.
Trailers(c) ==
  \A i \in DOMAIN c : c[i] = ZeroByte =>
    /\ BlockSize - InBlock(i) < HeaderSize
    /\ i > 1 /\ (c[i - 1] = ZeroByte \/ Closes(c[i - 1]))

PlacedFirst(recs, p) ==
  /\ \A r \in DOMAIN recs : p => recs[r].placed
  /\ \A r, q \in DOMAIN recs : r < q /\ recs[q].placed => recs[r].placed

Clean(c, recs) == Typed(c, recs) /\ Whole1(c) /\ Ordered(c) /\ Chained(c) /\ Aligned(c, recs)

-----------------------------------------------------------------------------
(* The turns of AddRecord.                                                   *)

\* What a turn at place `off' of a block writes.
IsTurn(t, r, len, from, off, begin) ==
  /\ t.trailer = Trailer(off)
  /\ t.frag \in Frags /\ t.frag.rec = r /\ t.frag.from = from
  /\ from + t.frag.len <= len
  /\ Ends(t.frag) <=> from + t.frag.len = len
  /\ Begins(t.frag) <=> begin
  /\ t.end = (IF BlockSize - off < HeaderSize THEN 0 ELSE off) + Size(t.frag)
  /\ t.end \in 0 .. BlockSize
  /\ ~Ends(t.frag) => t.end = BlockSize
  /\ ~Ends(t.frag) /\ off = BlockSize => t.frag.len > 0

\* A turn writes what fits.
LEMMA TurnFacts ==
  ASSUME NEW r \in Nat, NEW len \in Nat, NEW from \in 0 .. len, NEW off \in 0 .. BlockSize, NEW begin \in BOOLEAN
  PROVE  IsTurn(Turn(r, len, from, off, begin), r, len, from, off, begin)
<1> DEFINE start == IF BlockSize - off < HeaderSize THEN 0 ELSE off
           avail == BlockSize - start - HeaderSize
           left == len - from
           n == IF left < avail THEN left ELSE avail
           type == FragmentType(begin, n = left)
           t == Turn(r, len, from, off, begin)
<1>1. BlockSize \in Nat /\ HeaderSize \in Nat /\ HeaderSize > 1 /\ BlockSize > HeaderSize
  BY LogAssumption
<1>2. start \in Nat /\ avail \in Nat /\ left \in Nat /\ n \in Nat /\ (off = BlockSize => avail > 0)
  BY <1>1
<1>3. n <= left /\ n <= avail /\ (n # left => n = avail)
  BY <1>2
<1>4. /\ type \in {"full", "first", "middle", "last"}
      /\ type \in {"full", "last"} <=> n = left
      /\ type \in {"full", "first"} <=> begin
  BY DEF FragmentType
<1>5. t = [trailer |-> Trailer(off), frag |-> [rec |-> r, type |-> type, from |-> from, len |-> n],
           end |-> start + HeaderSize + n]
  BY DEF Turn, Fragment
<1>6. avail = BlockSize - start - HeaderSize /\ left = len - from
  OBVIOUS
<1>7. start = IF BlockSize - off < HeaderSize THEN 0 ELSE off
  OBVIOUS
<1> HIDE DEF start, avail, left, n, type, t
<1>8. /\ t.trailer = Trailer(off) /\ t.end = start + HeaderSize + n
      /\ t.frag = [rec |-> r, type |-> type, from |-> from, len |-> n]
  BY <1>5
<1>9. /\ t.frag \in Frags /\ t.frag.rec = r /\ t.frag.from = from /\ t.frag.len = n /\ t.frag.type = type
  BY <1>2, <1>4, <1>8 DEF Frags
<1>10. /\ from + n <= len /\ (n = left <=> from + n = len) /\ start + HeaderSize + n \in 0 .. BlockSize
       /\ (n # left => start + HeaderSize + n = BlockSize /\ n = avail)
       /\ start + HeaderSize + n = start + (HeaderSize + n)
  BY <1>1, <1>2, <1>3, <1>6
<1>11. t.end = start + Size(t.frag) /\ t.end \in 0 .. BlockSize
  BY <1>8, <1>9, <1>10 DEF Size
<1>12. (Ends(t.frag) <=> n = left) /\ (Begins(t.frag) <=> begin)
  BY <1>4, <1>9 DEF Ends, Begins
<1>13. ~Ends(t.frag) => t.end = BlockSize /\ (off = BlockSize => n > 0)
  BY <1>2, <1>8, <1>10, <1>12
<1>14. QED BY <1>7, <1>8, <1>9, <1>10, <1>11, <1>12, <1>13 DEF t, IsTurn

MakesTurns(f, r, len, off, N) ==
  f = [n \in 1 .. N |->
         IF n = 1 THEN Turn(r, len, 0, off, TRUE)
         ELSE Turn(r, len, f[n - 1].frag.from + f[n - 1].frag.len, f[n - 1].end, FALSE)]

\* The recursive function that makes the turns exists.
LEMMA TurnExists ==
  ASSUME NEW r, NEW len, NEW off, NEW N \in Nat
  PROVE  \E f : MakesTurns(f, r, len, off, N)
<1> DEFINE Next1(t) == Turn(r, len, t.frag.from + t.frag.len, t.end, FALSE)
           First == Turn(r, len, 0, off, TRUE)
<1> HIDE DEF Next1, First
<1> DEFINE Is(f, m) == f = [n \in 1 .. m |-> IF n = 1 THEN First ELSE Next1(f[n - 1])]
           Q == {m \in 0 .. N : \E f : Is(f, m)}
<1>1. Is([n \in 1 .. 0 |-> 0], 0)
  OBVIOUS
<1>2. ASSUME NEW m \in 1 .. N, m - 1 \in Q PROVE m \in Q
  <2>1. PICK f : Is(f, m - 1)
    BY <1>2
  <2> DEFINE g == [n \in 1 .. m |-> IF n = m THEN IF m = 1 THEN First ELSE Next1(f[m - 1]) ELSE f[n]]
  <2>2. ASSUME NEW n \in 1 .. m PROVE g[n] = IF n = 1 THEN First ELSE Next1(g[n - 1])
    <3>1. CASE n = m
      BY <3>1
    <3>2. CASE n # m
      <4>1. n \in 1 .. m - 1 /\ (n # 1 => n - 1 \in 1 .. m /\ n - 1 # m)
        BY <3>2
      <4>2. g[n] = f[n] /\ (n # 1 => g[n - 1] = f[n - 1])
        BY <3>2, <4>1
      <4>3. f[n] = IF n = 1 THEN First ELSE Next1(f[n - 1])
        BY <2>1, <4>1
      <4>4. QED BY <4>2, <4>3
    <3>3. QED BY <3>1, <3>2
  <2>3. g = [n \in 1 .. m |-> g[n]]
    OBVIOUS
  <2> HIDE DEF g
  <2>4. Is(g, m)
    BY <2>2, <2>3
  <2> HIDE DEF Is
  <2>5. QED BY <2>4
<1>3. 0 \in Q
  <2> HIDE DEF Is
  <2> QED BY <1>1
<1>4. N \in Q
  <2> HIDE DEF Q
  <2>1. \A n \in 0 .. N : n \in Q
    BY <1>2, <1>3, UpTo
  <2>2. QED BY <2>1
<1>5. QED BY <1>4 DEF Next1, First, MakesTurns

Byte ==
  [frag : [rec : Nat, type : {"full", "first", "middle", "last", "zero", "bad"}, from : Nat, len : Nat], at : Nat]

TurnSet == [trailer : Seq(Byte), frag : Frags, end : 0 .. BlockSize]

\* The turns of one record: each goes on where the one before it stopped, and
\* only the last one ends the record.
From(ts, k) == IF k = 1 THEN 0 ELSE ts[k - 1].frag.from + ts[k - 1].frag.len

Off(ts, k, off) == IF k = 1 THEN off ELSE ts[k - 1].end

AreTurns(ts, r, len, off) ==
  /\ ts \in Seq(TurnSet) /\ Len(ts) >= 1
  /\ \A k \in 1 .. Len(ts) : IsTurn(ts[k], r, len, From(ts, k), Off(ts, k, off), k = 1)
  /\ \A k \in 1 .. Len(ts) : Ends(ts[k].frag) <=> k = Len(ts)

\* A trailer is shorter than a header, and all zeros.
LEMMA TrailerFacts ==
  ASSUME NEW off \in 0 .. BlockSize
  PROVE  /\ Trailer(off) \in Seq(Byte)
         /\ Len(Trailer(off)) = IF BlockSize - off < HeaderSize THEN BlockSize - off ELSE 0
         /\ \A i \in 1 .. Len(Trailer(off)) : Trailer(off)[i] = ZeroByte
<1>1. BlockSize \in Nat /\ HeaderSize \in Nat
  BY LogAssumption
<1>2. ZeroByte \in Byte
  BY DEF ZeroByte, Byte, Fragment
<1>3. PICK n \in Nat : n = BlockSize - off
  BY <1>1
<1>4. [i \in 1 .. n |-> ZeroByte] \in Seq(Byte) /\ Len([i \in 1 .. n |-> ZeroByte]) = n
  BY <1>2
<1>5. <<>> \in Seq(Byte) /\ Len(<<>>) = 0
  OBVIOUS
<1>6. QED BY <1>1, <1>3, <1>4, <1>5 DEF Trailer

\* A turn is a record of its parts.
LEMMA TurnType ==
  ASSUME NEW r \in Nat, NEW len \in Nat, NEW from \in 0 .. len, NEW off \in 0 .. BlockSize, NEW begin \in BOOLEAN
  PROVE  Turn(r, len, from, off, begin) \in TurnSet
<1> DEFINE t == Turn(r, len, from, off, begin)
<1>1. t = [trailer |-> t.trailer, frag |-> t.frag, end |-> t.end]
  BY DEF Turn
<1>2. IsTurn(t, r, len, from, off, begin)
  BY TurnFacts
<1> HIDE DEF t
<1>3. t.trailer \in Seq(Byte) /\ t.frag \in Frags /\ t.end \in 0 .. BlockSize
  BY <1>2, TrailerFacts DEF IsTurn
<1>4. t \in TurnSet
  BY <1>1, <1>3 DEF TurnSet
<1>5. QED BY <1>4 DEF t

\* The turns of AddRecord.
LEMMA TurnsFacts ==
  ASSUME NEW r \in Nat, NEW len \in Nat, NEW off \in 0 .. BlockSize
  PROVE  AreTurns(Turns(r, len, off), r, len, off)
<1> DEFINE turn == CHOOSE f : f = [n \in 1 .. len + 1 |->
                       IF n = 1 THEN Turn(r, len, 0, off, TRUE)
                       ELSE Turn(r, len, f[n - 1].frag.from + f[n - 1].frag.len, f[n - 1].end, FALSE)]
           F == {n \in 1 .. len + 1 : turn[n].frag.type \in {"full", "last"}}
<1>1. turn = [n \in 1 .. len + 1 |->
                       IF n = 1 THEN Turn(r, len, 0, off, TRUE)
                       ELSE Turn(r, len, turn[n - 1].frag.from + turn[n - 1].frag.len, turn[n - 1].end, FALSE)]
  <2>1. PICK N \in Nat : N = len + 1
    OBVIOUS
  <2>2. \E f : MakesTurns(f, r, len, off, N)
    BY TurnExists
  <2>3. QED BY <2>1, <2>2, Zenon DEF MakesTurns
<1>2. Turns(r, len, off) = SubSeq(turn, 1, Min(F))
  BY DEF Turns
<1> HIDE DEF turn
<1>3. ASSUME NEW n \in 1 .. len + 1
      PROVE  turn[n] = IF n = 1 THEN Turn(r, len, 0, off, TRUE)
                       ELSE Turn(r, len, turn[n - 1].frag.from + turn[n - 1].frag.len, turn[n - 1].end, FALSE)
  BY <1>1
<1>4. \A n \in 1 .. len + 1 : n \in F <=> Ends(turn[n].frag)
  BY DEF Ends
<1> HIDE DEF F
<1>h. BlockSize \in Nat
  BY LogAssumption
<1> DEFINE Good(n) == /\ turn[n] \in TurnSet
                      /\ IsTurn(turn[n], r, len, From(turn, n), Off(turn, n, off), n = 1)
                      /\ n \notin F => turn[n].frag.from + turn[n].frag.len >= n - 1
           Q == {n \in 0 .. len + 1 : n = 0 \/ ((\A i \in 1 .. n - 1 : i \notin F) => Good(n))}
<1>5. \A n \in 0 .. len + 1 : n \in Q
  <2>1. 0 \in Q
    OBVIOUS
  <2>2. ASSUME NEW n \in 1 .. len + 1, n - 1 \in Q PROVE n \in Q
    <3>1. SUFFICES ASSUME \A i \in 1 .. n - 1 : i \notin F PROVE Good(n)
      OBVIOUS
    <3>2. CASE n = 1
      <4>1. turn[1] = Turn(r, len, 0, off, TRUE)
        BY <1>3, <3>2
      <4>2. IsTurn(turn[1], r, len, 0, off, TRUE) /\ turn[1] \in TurnSet
        <5>1. PICK b \in BOOLEAN, z \in 0 .. len : (b <=> TRUE) /\ z = 0
          <6>1. 0 \in 0 .. len /\ TRUE \in BOOLEAN
            OBVIOUS
          <6>2. QED BY <6>1, Zenon
        <5>2. IsTurn(Turn(r, len, z, off, b), r, len, z, off, b) /\ Turn(r, len, z, off, b) \in TurnSet
          BY ONLY r \in Nat, len \in Nat, off \in 0 .. BlockSize, b \in BOOLEAN, z \in 0 .. len, TurnFacts, TurnType
        <5>3. QED BY <4>1, <5>1, <5>2
      <4>3. turn[1].frag.from + turn[1].frag.len >= 0
        BY <4>2 DEF TurnSet, Frags
      <4>4. From(turn, n) = 0 /\ Off(turn, n, off) = off
        BY <3>2 DEF From, Off
      <4>5. IsTurn(turn[n], r, len, 0, off, n = 1)
        BY <3>2, <4>2 DEF IsTurn
      <4>6. QED BY <3>2, <4>2, <4>3, <4>4, <4>5
    <3>3. CASE n # 1
      <4>1. n - 1 \in 1 .. len + 1 /\ n - 1 \notin F
        BY <3>1, <3>3
      <4>2. Good(n - 1)
        <5>1. \A i \in 1 .. (n - 1) - 1 : i \notin F
          BY <3>1
        <5>2. QED BY <2>2, <4>1, <5>1
      <4>3. PICK from \in Nat : from = turn[n - 1].frag.from + turn[n - 1].frag.len
        BY <4>2 DEF TurnSet, Frags
      <4>4. from \in 0 .. len /\ from >= n - 2 /\ turn[n - 1].end = BlockSize
        <5>1. ~Ends(turn[n - 1].frag)
          BY <1>4, <4>1
        <5>2. from <= len /\ turn[n - 1].end = BlockSize
          BY <4>2, <4>3, <5>1 DEF IsTurn
        <5>3. from >= (n - 1) - 1
          BY <4>1, <4>2, <4>3
        <5>4. QED BY <5>2, <5>3
      <4>5. turn[n] = Turn(r, len, from, BlockSize, FALSE)
        BY <1>3, <3>3, <4>3, <4>4
      <4>6. IsTurn(turn[n], r, len, from, BlockSize, FALSE) /\ turn[n] \in TurnSet
        <5>1. PICK b \in BOOLEAN, z \in 0 .. BlockSize : (b <=> FALSE) /\ z = BlockSize
          <6>1. BlockSize \in 0 .. BlockSize /\ FALSE \in BOOLEAN
            BY <1>h
          <6>2. QED BY <6>1, Zenon
        <5>2. IsTurn(Turn(r, len, from, z, b), r, len, from, z, b) /\ Turn(r, len, from, z, b) \in TurnSet
          BY ONLY r \in Nat, len \in Nat, z \in 0 .. BlockSize, b \in BOOLEAN, <4>4, TurnFacts, TurnType
        <5>3. QED BY <4>5, <5>1, <5>2
      <4>7. n \notin F => turn[n].frag.from + turn[n].frag.len >= n - 1
        <5>1. SUFFICES ASSUME n \notin F PROVE turn[n].frag.from + turn[n].frag.len >= n - 1
          OBVIOUS
        <5>2. turn[n].frag.from = from /\ turn[n].frag.len > 0
          BY <1>4, <4>6, <5>1 DEF IsTurn
        <5>3. turn[n].frag.len \in Nat
          BY <4>6 DEF TurnSet, Frags
        <5>4. QED BY <4>4, <5>2, <5>3
      <4>8. From(turn, n) = from /\ Off(turn, n, off) = BlockSize
        BY <3>3, <4>3, <4>4 DEF From, Off
      <4>9. IsTurn(turn[n], r, len, from, BlockSize, n = 1)
        BY <3>3, <4>6 DEF IsTurn
      <4>10. QED BY <3>3, <4>6, <4>7, <4>8, <4>9
    <3>4. QED BY <3>2, <3>3
  <2> HIDE DEF Q
  <2>3. QED BY <2>1, <2>2, UpTo
<1>6. F # {}
  <2>1. SUFFICES ASSUME F = {} PROVE FALSE
    OBVIOUS
  <2>2. Good(len + 1)
    <3>1. len + 1 \in Q
      BY <1>5
    <3>2. QED BY <2>1, <3>1
  <2>3. turn[len + 1].frag.from + turn[len + 1].frag.len >= len
    BY <2>1, <2>2
  <2>4. turn[len + 1].frag.from + turn[len + 1].frag.len = len
    <3>1. turn[len + 1].frag.from + turn[len + 1].frag.len <= len
      BY <2>2 DEF IsTurn
    <3>2. turn[len + 1].frag.from + turn[len + 1].frag.len \in Nat
      BY <2>2 DEF TurnSet, Frags
    <3>3. QED BY <2>3, <3>1, <3>2
  <2>5. Ends(turn[len + 1].frag)
    BY <2>2, <2>4 DEF IsTurn
  <2>6. QED BY <1>4, <2>1, <2>5
<1>7. PICK m \in F : m = Min(F) /\ \A n \in F : m <= n
  <2>1. F \subseteq Nat
    BY DEF F
  <2>2. QED BY <1>6, <2>1, MinOfNats
<1>8. m \in 1 .. len + 1
  BY DEF F
<1>9. ASSUME NEW n \in 1 .. m PROVE Good(n)
  <2>1. n \in Q /\ n # 0
    BY <1>5, <1>8
  <2>2. \A i \in 1 .. n - 1 : i \notin F
    BY <1>7, <1>8
  <2>3. QED BY <2>1, <2>2
<1>10. PICK ts : ts = SubSeq(turn, 1, m)
  OBVIOUS
<1>11. ts \in Seq(TurnSet) /\ Len(ts) = m /\ \A i \in 1 .. m : ts[i] = turn[i]
  <2>1. \A i \in 1 .. m : turn[i] \in TurnSet
    BY <1>9
  <2>2. /\ ts \in Seq(TurnSet) /\ Len(ts) = IF 1 <= m THEN m - 1 + 1 ELSE 0
        /\ \A i \in 1 .. m - 1 + 1 : ts[i] = turn[1 + i - 1]
    BY <1>8, <1>10, <2>1, SubSeqProperties
  <2>3. QED BY <1>8, <2>2
<1>12. ASSUME NEW k \in 1 .. m
       PROVE  IsTurn(ts[k], r, len, From(ts, k), Off(ts, k, off), k = 1) /\ (Ends(ts[k].frag) <=> k = m)
  <2>1. From(ts, k) = From(turn, k) /\ Off(ts, k, off) = Off(turn, k, off) /\ ts[k] = turn[k]
    BY <1>8, <1>11 DEF From, Off
  <2>2. k \in F <=> k = m
    BY <1>7, <1>8
  <2>3. Good(k)
    BY <1>9
  <2>4. QED BY <1>4, <1>8, <2>1, <2>2, <2>3
<1>13. AreTurns(ts, r, len, off)
  BY <1>8, <1>11, <1>12 DEF AreTurns
<1>14. QED BY <1>2, <1>7, <1>10, <1>13

-----------------------------------------------------------------------------
(* The writer keeps the layout.                                              *)

\* Sequence d is c with the first m bytes of a turn behind it: z zeros and
\* then fragment f.
Grown(d, c, z, f, m) ==
  /\ d \in Seq(Byte) /\ Len(d) = Len(c) + m
  /\ \A i \in 1 .. Len(c) : d[i] = c[i]
  /\ \A i \in 1 .. m : d[Len(c) + i] = IF i <= z THEN ZeroByte ELSE Part(f, i - z)

\* Record r may go on behind c with the bytes from `from' on.
Ready(c, r, from, begin) ==
  /\ \A i \in DOMAIN c : Real(c[i]) =>
       /\ c[i].frag.rec <= r
       /\ begin => c[i].frag.rec < r
       /\ Ends(c[i].frag) /\ Closes(c[i]) => c[i].frag.rec < r
  /\ begin => from = 0
  /\ ~begin => /\ Len(c) >= 1 /\ Closes(c[Len(c)]) /\ ~Ends(c[Len(c)].frag) /\ c[Len(c)].frag.rec = r
               /\ c[Len(c)].frag.from + c[Len(c)].frag.len = from

\* The writer is at place `off' of the last block of c.
Abut(c, off) ==
  /\ Len(c) % BlockSize = off % BlockSize
  /\ Len(c) = 0 \/ c[Len(c)] = ZeroByte \/ Closes(c[Len(c)])
  /\ Trailers(c)

\* The bytes of a sequence that has grown.
LEMMA GrownBytes ==
  ASSUME NEW c \in Seq(Byte), NEW z \in Nat, NEW f, NEW m \in Nat, NEW d, Grown(d, c, z, f, m), NEW j \in DOMAIN d
  PROVE  /\ j \in Nat /\ j >= 1 /\ Len(c) \in Nat /\ DOMAIN c = 1 .. Len(c) /\ DOMAIN d = 1 .. Len(c) + m
         /\ \/ j \in DOMAIN c /\ j <= Len(c) /\ d[j] = c[j]
            \/ Len(c) < j /\ j <= Len(c) + z /\ d[j] = ZeroByte
            \/ Len(c) + z < j /\ j <= Len(c) + m /\ d[j] = Part(f, j - Len(c) - z)
<1>1. Len(c) \in Nat /\ DOMAIN c = 1 .. Len(c) /\ d \in Seq(Byte) /\ Len(d) = Len(c) + m
  BY DEF Grown
<1>2. DOMAIN d = 1 .. Len(c) + m
  BY <1>1
<1>3. CASE j <= Len(c)
  BY <1>1, <1>2, <1>3 DEF Grown
<1>4. CASE j > Len(c)
  <2>1. PICK i \in 1 .. m : i = j - Len(c)
    BY <1>1, <1>2, <1>4
  <2>2. d[Len(c) + i] = IF i <= z THEN ZeroByte ELSE Part(f, i - z)
    BY DEF Grown
  <2>3. Len(c) + i = j
    BY <1>1, <1>2, <2>1
  <2>4. QED BY <1>1, <1>2, <1>4, <2>1, <2>2, <2>3
<1>5. QED BY <1>1, <1>2, <1>3, <1>4

\* What a byte of a fragment is.
LEMMA PartFacts ==
  ASSUME NEW f \in Frags, f.rec # 0, NEW n
  PROVE  /\ Part(f, n).frag = f /\ Part(f, n).at = n /\ Real(Part(f, n)) /\ Part(f, n) # ZeroByte
         /\ Closes(Part(f, n)) <=> n = Size(f)
<1>1. ZeroByte.frag.rec = 0
  BY DEF ZeroByte, Fragment
<1>2. Part(f, n).frag = f /\ Part(f, n).at = n
  BY DEF Part
<1>3. QED BY <1>1, <1>2 DEF Real, Closes

\* A zero belongs to no fragment.
LEMMA ZeroFacts == ~Real(ZeroByte) /\ ~Closes(ZeroByte) /\ ZeroByte \in Byte
<1>1. ZeroByte.frag.rec = 0 /\ ZeroByte \in Byte
  BY DEF ZeroByte, Fragment, Byte
<1>2. QED BY <1>1 DEF Real, Closes

\* A part of a turn keeps the bytes, the order of the records and the chains of
\* their fragments.
LEMMA TurnKeepsOrder ==
  ASSUME NEW c \in Seq(Byte), NEW recs, NEW r \in Nat \ {0}, r \in DOMAIN recs, recs[r].len \in Nat,
         NEW from \in Nat, NEW z \in Nat, z < HeaderSize, NEW begin \in BOOLEAN, NEW f \in Frags,
         f.rec = r, f.from = from, IsFrag(f, recs), Begins(f) <=> begin,
         Typed(c, recs), Whole1(c), Ordered(c), Chained(c), Ready(c, r, from, begin),
         NEW m \in 0 .. z + Size(f), NEW d, Grown(d, c, z, f, m)
  PROVE  Typed(d, recs) /\ Whole1(d) /\ Ordered(d) /\ Chained(d)
<1>1. HeaderSize \in Nat /\ HeaderSize > 1 /\ f.len \in Nat /\ Size(f) \in Nat /\ Size(f) > 1 /\ f.rec # 0
  BY LogAssumption DEF Size, Frags
<1>2. ASSUME NEW j \in DOMAIN d
      PROVE  /\ j \in Nat /\ j >= 1 /\ Len(c) \in Nat /\ DOMAIN c = 1 .. Len(c) /\ DOMAIN d = 1 .. Len(c) + m
             /\ \/ j \in DOMAIN c /\ j <= Len(c) /\ d[j] = c[j]
                \/ Len(c) < j /\ j <= Len(c) + z /\ d[j] = ZeroByte
                \/ Len(c) + z < j /\ j <= Len(c) + m /\ d[j] = Part(f, j - Len(c) - z)
  BY <1>1, GrownBytes
<1>l. /\ Len(c) \in Nat /\ m \in Nat /\ m <= z + Size(f) /\ Size(f) \in Nat /\ z \in Nat
      /\ DOMAIN c = 1 .. Len(c) /\ DOMAIN d = 1 .. Len(c) + m
  BY <1>1 DEF Grown
<1>p. \A n : /\ Part(f, n).frag = f /\ Part(f, n).at = n /\ Real(Part(f, n)) /\ Part(f, n) # ZeroByte
             /\ (Closes(Part(f, n)) <=> n = Size(f))
  BY <1>1, PartFacts
<1>z. ~Real(ZeroByte) /\ ~Closes(ZeroByte)
  BY ZeroFacts
<1>3. Typed(d, recs)
  <2>1. SUFFICES ASSUME NEW i \in DOMAIN d, d[i] # ZeroByte
        PROVE  d[i] \in [frag : Frags, at : Nat] /\ IsFrag(d[i].frag, recs) /\ 1 <= d[i].at /\ d[i].at <= Size(d[i].frag)
    BY DEF Typed
  <2>2. CASE i \in DOMAIN c /\ d[i] = c[i]
    BY <2>1, <2>2 DEF Typed
  <2>3. CASE Len(c) + z < i /\ i <= Len(c) + m /\ d[i] = Part(f, i - Len(c) - z)
    <3>1. i - Len(c) - z \in Nat /\ 1 <= i - Len(c) - z /\ i - Len(c) - z <= Size(f)
      BY <1>l, <2>3
    <3>2. Part(f, i - Len(c) - z) \in [frag : Frags, at : Nat]
      BY <3>1 DEF Part
    <3>3. QED BY <1>p, <2>3, <3>1, <3>2
  <2>4. QED BY <1>2, <2>1, <2>2, <2>3
<1>4. Whole1(d)
  <2>1. SUFFICES ASSUME NEW i \in DOMAIN d, Real(d[i]), d[i].at > 1
        PROVE  i > 1 /\ d[i - 1] = Part(d[i].frag, d[i].at - 1)
    BY DEF Whole1
  <2>2. CASE i \in DOMAIN c /\ i <= Len(c) /\ d[i] = c[i]
    <3>1. i > 1 /\ c[i - 1] = Part(c[i].frag, c[i].at - 1)
      BY <2>1, <2>2 DEF Whole1
    <3>2. i - 1 \in 1 .. Len(c)
      BY <1>l, <2>2, <3>1
    <3>3. d[i - 1] = c[i - 1]
      BY <3>2 DEF Grown
    <3>4. QED BY <2>2, <3>1, <3>3
  <2>3. CASE Len(c) + z < i /\ i <= Len(c) + m /\ d[i] = Part(f, i - Len(c) - z)
    <3>1. d[i].at = i - Len(c) - z /\ d[i].frag = f
      BY <1>p, <2>3
    <3>2. i - 1 \in DOMAIN d /\ i - 1 > Len(c) + z
      BY <1>2, <1>l, <2>1, <2>3, <3>1
    <3>3. d[i - 1] = Part(f, (i - 1) - Len(c) - z)
      <4>1. PICK k \in DOMAIN d : k = i - 1 /\ k > Len(c) + z
        BY <3>2
      <4>2. k \in Nat /\ ~(k <= Len(c)) /\ ~(k <= Len(c) + z)
        BY <1>l, <4>1
      <4>3. d[k] = Part(f, k - Len(c) - z)
        BY <1>2, <4>2
      <4>4. QED BY <4>1, <4>3
    <3>4. (i - 1) - Len(c) - z = d[i].at - 1
      BY <1>2, <1>l, <3>1
    <3>5. i > 1
      BY <1>l, <2>3, <3>2
    <3>6. QED BY <3>1, <3>3, <3>4, <3>5
  <2>4. QED BY <1>2, <1>z, <2>1, <2>2, <2>3
<1>5. Ordered(d)
  <2>1. SUFFICES ASSUME NEW i \in DOMAIN d, NEW j \in DOMAIN d, i < j, Real(d[i]), Real(d[j])
        PROVE  /\ d[i].frag.rec <= d[j].frag.rec
               /\ Begins(d[j].frag) /\ d[j].at = 1 => d[i].frag.rec < d[j].frag.rec
               /\ Ends(d[i].frag) /\ Closes(d[i]) => d[i].frag.rec < d[j].frag.rec
    BY DEF Ordered
  <2>2. CASE j \in DOMAIN c /\ j <= Len(c) /\ d[j] = c[j]
    <3>1. i \in DOMAIN c /\ d[i] = c[i]
      <4>1. i \in Nat /\ ~(Len(c) < i) /\ ~(Len(c) + z < i)
        BY <1>l, <2>1, <2>2
      <4>2. QED BY <1>2, <4>1
    <3>2. QED BY <2>1, <2>2, <3>1 DEF Ordered
  <2>3. CASE Len(c) + z < j /\ j <= Len(c) + m /\ d[j] = Part(f, j - Len(c) - z)
    <3>1. d[j].frag = f /\ d[j].at = j - Len(c) - z /\ d[j].at <= Size(f)
      <4>1. j - Len(c) - z <= Size(f)
        BY <1>l, <2>3
      <4>2. QED BY <1>p, <2>3, <4>1
    <3>2. CASE i \in DOMAIN c /\ d[i] = c[i]
      BY <2>1, <3>1, <3>2 DEF Ready
    <3>3. CASE Len(c) + z < i /\ i <= Len(c) + m /\ d[i] = Part(f, i - Len(c) - z)
      <4>1. d[i].frag = f /\ d[i].at = i - Len(c) - z
        BY <1>p, <3>3
      <4>2. d[i].at >= 1 /\ d[i].at < d[j].at
        BY <1>2, <1>l, <2>1, <3>1, <3>3, <4>1
      <4>3. d[j].at # 1 /\ ~Closes(d[i])
        BY <1>2, <1>l, <1>p, <1>1, <3>1, <3>3, <4>1, <4>2
      <4>4. QED BY <3>1, <4>1, <4>3
    <3>4. QED BY <1>2, <1>z, <2>1, <3>2, <3>3
  <2>4. QED BY <1>2, <1>z, <2>1, <2>2, <2>3
<1>6. Chained(d)
  <2>1. SUFFICES ASSUME NEW j \in DOMAIN d, Real(d[j]), d[j].at = 1, ~Begins(d[j].frag)
        PROVE  \E i \in DOMAIN d : Continued(d, i, j)
    BY DEF Chained
  <2>2. CASE j \in DOMAIN c /\ j <= Len(c) /\ d[j] = c[j]
    <3>1. PICK i \in DOMAIN c : Continued(c, i, j)
      BY <2>1, <2>2 DEF Chained
    <3>2. i \in DOMAIN d /\ d[i] = c[i] /\ i < j
      <4>1. i \in 1 .. Len(c) /\ i < j
        BY <1>l, <3>1 DEF Continued
      <4>2. QED BY <1>2, <1>l, <4>1 DEF Grown
    <3>3. ASSUME NEW k \in DOMAIN d, i < k, k < j PROVE d[k] = ZeroByte
      <4>1. k \in DOMAIN c /\ d[k] = c[k]
        BY <1>2, <1>l, <2>2, <3>3
      <4>2. QED BY <3>1, <3>3, <4>1 DEF Continued
    <3>4. Continued(d, i, j)
      BY <2>2, <3>1, <3>2, <3>3 DEF Continued
    <3>5. QED BY <3>2, <3>4
  <2>3. CASE Len(c) + z < j /\ j <= Len(c) + m /\ d[j] = Part(f, j - Len(c) - z)
    <3>1. d[j].frag = f /\ j = Len(c) + z + 1
      BY <1>2, <1>l, <1>p, <2>1, <2>3
    <3>2. ~begin
      BY <2>1, <3>1
    <3>3. PICK i \in Nat : i = Len(c)
      BY <1>l
    <3>4. /\ i >= 1 /\ Closes(c[i]) /\ ~Ends(c[i].frag) /\ c[i].frag.rec = r
          /\ c[i].frag.from + c[i].frag.len = from
      BY <3>2, <3>3 DEF Ready
    <3>5. i \in DOMAIN d /\ d[i] = c[i] /\ i < j /\ j - i <= HeaderSize
      <4>1. i \in 1 .. Len(c) /\ i \in 1 .. Len(c) + m
        BY <1>l, <3>3, <3>4
      <4>2. i < j /\ j - i <= HeaderSize
        BY ONLY <1>1, <1>l, <3>1, <3>3, i \in Nat, z < HeaderSize
      <4>3. QED BY <1>2, <4>1, <4>2 DEF Grown
    <3>6. ASSUME NEW k \in DOMAIN d, i < k, k < j PROVE d[k] = ZeroByte
      BY <1>2, <1>l, <3>1, <3>3, <3>6
    <3>7. Continued(d, i, j)
      BY <3>1, <3>4, <3>5, <3>6 DEF Continued
    <3>8. QED BY <3>5, <3>7
  <2>4. QED BY <1>2, <1>z, <2>1, <2>2, <2>3
<1>7. QED BY <1>3, <1>4, <1>5, <1>6

ZerosAt(off) == IF BlockSize - off < HeaderSize THEN BlockSize - off ELSE 0

StartAt(off) == IF BlockSize - off < HeaderSize THEN 0 ELSE off

\* Where the writer is after the trailer.
LEMMA Place ==
  ASSUME NEW p \in Nat, NEW off \in 0 .. BlockSize, p % BlockSize = off % BlockSize
  PROVE  /\ ZerosAt(off) \in Nat /\ ZerosAt(off) < HeaderSize /\ StartAt(off) \in Nat
         /\ \E s \in Nat : s % BlockSize = 0 /\ p + ZerosAt(off) = s + StartAt(off)
         /\ off < BlockSize => p = Base(p) + off
<1>1. BlockSize \in Nat /\ HeaderSize \in Nat /\ HeaderSize > 1 /\ BlockSize > HeaderSize
  BY LogAssumption
<1>2. ZerosAt(off) \in Nat /\ ZerosAt(off) < HeaderSize /\ StartAt(off) \in Nat
  BY <1>1 DEF ZerosAt, StartAt
<1>z. PICK s0 \in Nat : s0 = 0 /\ s0 % BlockSize = 0
  <2>1. PICK s0 \in Nat : s0 = 0
    OBVIOUS
  <2>2. Base(s0) <= s0 /\ Base(s0) \in Nat /\ Base(s0) % BlockSize = 0
    BY ONLY s0 \in Nat, BaseFacts
  <2>3. Base(s0) = s0
    BY <2>1, <2>2
  <2>4. QED BY <2>1, <2>2, <2>3
<1>b. Base(p) \in Nat /\ Base(p) % BlockSize = 0 /\ p % BlockSize \in Nat /\ Base(p) = p - (p % BlockSize)
  BY BaseFacts DEF Base
<1>3. off < BlockSize => p = Base(p) + off
  <2>1. SUFFICES ASSUME off < BlockSize PROVE p = Base(p) + off
    OBVIOUS
  <2>2. off % BlockSize = off - s0
    <3>1. s0 <= off /\ off < s0 + BlockSize /\ off \in Nat
      BY <1>1, <1>z, <2>1
    <3>2. QED BY ONLY <1>z, <3>1, SameBlock
  <2>3. QED BY <1>z, <1>b, <2>2
<1>4. \E s \in Nat : s % BlockSize = 0 /\ p + ZerosAt(off) = s + StartAt(off)
  <2>1. CASE off = BlockSize
    <3>1. BlockSize % BlockSize = 0
      <4>1. (s0 + BlockSize) % BlockSize = 0
        BY ONLY <1>z, BlockNext
      <4>2. QED BY <1>1, <1>z, <4>1
    <3>2. p % BlockSize = 0 /\ ZerosAt(off) = 0 /\ StartAt(off) = 0
      BY <1>1, <2>1, <3>1 DEF ZerosAt, StartAt
    <3>3. QED BY <3>2
  <2>2. CASE off < BlockSize /\ BlockSize - off < HeaderSize
    <3>1. (Base(p) + BlockSize) % BlockSize = 0 /\ Base(p) + BlockSize \in Nat
      BY <1>1, <1>b, BlockNext
    <3>2. p + ZerosAt(off) = (Base(p) + BlockSize) + StartAt(off)
      BY <1>1, <1>3, <1>b, <2>2 DEF ZerosAt, StartAt
    <3>3. QED BY <3>1, <3>2
  <2>3. CASE off < BlockSize /\ ~(BlockSize - off < HeaderSize)
    <3>1. p + ZerosAt(off) = Base(p) + StartAt(off)
      BY <1>1, <1>3, <1>b, <2>3 DEF ZerosAt, StartAt
    <3>2. QED BY <1>b, <3>1
  <2>4. QED BY <1>1, <2>1, <2>2, <2>3
<1>5. QED BY <1>2, <1>3, <1>4

\* A part of a turn keeps the blocks.
LEMMA TurnKeepsPlace ==
  ASSUME NEW c \in Seq(Byte), NEW recs, NEW r \in Nat \ {0}, NEW off \in 0 .. BlockSize, NEW f \in Frags,
         f.rec = r, StartAt(off) + Size(f) <= BlockSize, Aligned(c, recs), recs[r].placed => Abut(c, off),
         NEW m \in 0 .. ZerosAt(off) + Size(f), NEW d, Grown(d, c, ZerosAt(off), f, m)
  PROVE  /\ Aligned(d, recs)
         /\ recs[r].placed => Trailers(d)
         /\ recs[r].placed /\ m = ZerosAt(off) + Size(f) => Abut(d, StartAt(off) + Size(f))
<1>1. /\ HeaderSize \in Nat /\ HeaderSize > 1 /\ f.len \in Nat /\ Size(f) \in Nat /\ Size(f) > 1 /\ f.rec # 0
      /\ BlockSize \in Nat /\ BlockSize > HeaderSize
  BY LogAssumption DEF Size, Frags
<1>q. PICK z \in Nat, start \in Nat : z = ZerosAt(off) /\ start = StartAt(off) /\ z < HeaderSize
  <2>1. ZerosAt(off) \in Nat /\ StartAt(off) \in Nat /\ ZerosAt(off) < HeaderSize
    BY <1>1 DEF ZerosAt, StartAt
  <2>2. QED BY <2>1
<1>a. start + Size(f) <= BlockSize
  BY <1>q
<1>g. Grown(d, c, z, f, m) /\ m \in 0 .. z + Size(f)
  BY <1>q
<1>2. ASSUME NEW j \in DOMAIN d
      PROVE  \/ j \in DOMAIN c /\ j <= Len(c) /\ d[j] = c[j]
             \/ Len(c) < j /\ j <= Len(c) + z /\ d[j] = ZeroByte
             \/ Len(c) + z < j /\ j <= Len(c) + m /\ d[j] = Part(f, j - Len(c) - z)
  BY <1>1, <1>g, GrownBytes
<1>l. /\ Len(c) \in Nat /\ m \in Nat /\ m <= z + Size(f)
      /\ DOMAIN c = 1 .. Len(c) /\ DOMAIN d = 1 .. Len(c) + m /\ Len(d) = Len(c) + m
  BY <1>1, <1>g DEF Grown
<1>p. \A n : /\ Part(f, n).frag = f /\ Part(f, n).at = n /\ Real(Part(f, n)) /\ Part(f, n) # ZeroByte
             /\ (Closes(Part(f, n)) <=> n = Size(f))
  BY <1>1, PartFacts
<1>z. ~Real(ZeroByte) /\ ~Closes(ZeroByte)
  BY ZeroFacts
<1>o. \A i \in 1 .. Len(c) : i \in DOMAIN d /\ d[i] = c[i]
  BY <1>g, <1>l DEF Grown
<1>3. ASSUME recs[r].placed
      PROVE  \E s \in Nat : s % BlockSize = 0 /\ Len(c) + z = s + start
  <2>1. Len(c) % BlockSize = off % BlockSize
    BY <1>3 DEF Abut
  <2>2. QED BY <1>l, <1>q, <2>1, Place
<1>4. ASSUME recs[r].placed, NEW s \in Nat, s % BlockSize = 0, Len(c) + z = s + start,
             NEW j \in DOMAIN d, Len(c) + z < j
      PROVE  InBlock(j) = j - 1 - s /\ s + start < j /\ j <= s + BlockSize
  <2>1. j - 1 \in Nat /\ s <= j - 1 /\ j - 1 < s + BlockSize /\ s + start < j
    <3>1. PICK L \in Nat, sz \in Nat : L = Len(c) /\ sz = Size(f)
      BY <1>1, <1>l
    <3>2. j \in Nat /\ j <= L + z + sz /\ L + z < j /\ L + z = s + start /\ start + sz <= BlockSize
      BY <1>a, <1>l, <1>4, <3>1
    <3>3. QED BY <1>1, <3>2
  <2>2. PICK p \in Nat : p = j - 1 /\ s <= p /\ p < s + BlockSize
    BY <2>1
  <2>3. p % BlockSize = p - s
    BY <1>4, <2>2, SameBlock
  <2>4. QED BY <1>1, <1>l, <2>1, <2>2, <2>3 DEF InBlock
<1>5. ASSUME recs[r].placed PROVE Trailers(d)
  <2>1. SUFFICES ASSUME NEW i \in DOMAIN d, d[i] = ZeroByte
        PROVE  /\ BlockSize - InBlock(i) < HeaderSize
               /\ i > 1 /\ (d[i - 1] = ZeroByte \/ Closes(d[i - 1]))
    BY DEF Trailers
  <2>2. CASE i \in DOMAIN c /\ d[i] = c[i]
    <3>1. /\ BlockSize - InBlock(i) < HeaderSize
          /\ i > 1 /\ (c[i - 1] = ZeroByte \/ Closes(c[i - 1]))
      BY <1>5, <2>1, <2>2 DEF Trailers, Abut
    <3>2. i - 1 \in 1 .. Len(c)
      BY <1>l, <2>2, <3>1
    <3>3. QED BY <1>o, <3>1, <3>2
  <2>3. CASE Len(c) < i /\ i <= Len(c) + z
    <3>1. off < BlockSize /\ z = BlockSize - off /\ z < HeaderSize
      BY <1>1, <1>l, <1>q, <2>3 DEF ZerosAt
    <3>2. Len(c) % BlockSize = off % BlockSize
      BY <1>5 DEF Abut
    <3>3. Len(c) = Base(Len(c)) + off /\ Base(Len(c)) \in Nat /\ Base(Len(c)) % BlockSize = 0
      BY <1>l, <3>1, <3>2, Place, BaseFacts
    <3>4. PICK p \in Nat, b \in Nat : p = i - 1 /\ b = Base(Len(c)) /\ b % BlockSize = 0
      BY <1>l, <2>3, <3>3
    <3>5. b <= p /\ p < b + BlockSize
      <4>1. i \in Nat /\ off \in Nat
        BY <1>1, <1>l, <3>1
      <4>2. Len(c) = b + off
        BY <3>3, <3>4
      <4>3. PICK L \in Nat : L = Len(c)
        BY <1>l
      <4>4. L < i /\ i <= L + z /\ L = b + off /\ p = i - 1
        BY <2>3, <3>4, <4>2, <4>3
      <4>5. QED BY ONLY <1>1, <3>1, <4>1, <4>4, L \in Nat, p \in Nat, b \in Nat, z \in Nat
    <3>6. p % BlockSize = p - b
      BY <3>4, <3>5, SameBlock
    <3>7. BlockSize - InBlock(i) < HeaderSize
      <4>1. InBlock(i) = p - b
        BY <3>4, <3>6 DEF InBlock
      <4>2. p - b >= off
        BY <1>l, <2>3, <3>3, <3>4
      <4>3. QED BY <1>1, <3>1, <4>1, <4>2, p \in Nat, b \in Nat
    <3>8. Len(c) >= 1
      BY <1>1, <1>l, <3>1, <3>3
    <3>9. i > 1 /\ (d[i - 1] = ZeroByte \/ Closes(d[i - 1]))
      <4>1. CASE i = Len(c) + 1
        <5>1. c[Len(c)] = ZeroByte \/ Closes(c[Len(c)])
          BY <1>5, <1>l, <3>8 DEF Abut
        <5>2. d[Len(c)] = c[Len(c)] /\ i - 1 = Len(c)
          BY <1>l, <1>o, <3>8, <4>1
        <5>3. QED BY <1>l, <3>8, <4>1, <5>1, <5>2
      <4>2. CASE i # Len(c) + 1
        <5>1. PICK k \in DOMAIN d : k = i - 1 /\ Len(c) < k /\ k <= Len(c) + z
          BY <1>l, <2>3, <4>2
        <5>2. d[k] = ZeroByte
          BY <1>2, <1>l, <5>1
        <5>3. QED BY <1>l, <2>3, <3>8, <5>1, <5>2
      <4>3. QED BY <4>1, <4>2
    <3>10. QED BY <3>7, <3>9
  <2>4. QED BY <1>2, <1>p, <2>1, <2>2, <2>3
<1>6. Aligned(d, recs)
  <2>1. SUFFICES ASSUME NEW j \in DOMAIN d, Real(d[j]), recs[d[j].frag.rec].placed
        PROVE  /\ d[j].at = 1 => InBlock(j) + Size(d[j].frag) <= BlockSize
               /\ d[j].at = 1 /\ j > 1 => d[j - 1] = ZeroByte \/ Closes(d[j - 1])
               /\ \A i \in DOMAIN d : i < j /\ j - i <= InBlock(j) => d[i] # ZeroByte
    BY DEF Aligned
  <2>2. CASE j \in DOMAIN c /\ j <= Len(c) /\ d[j] = c[j]
    <3>1. /\ c[j].at = 1 => InBlock(j) + Size(c[j].frag) <= BlockSize
          /\ c[j].at = 1 /\ j > 1 => c[j - 1] = ZeroByte \/ Closes(c[j - 1])
          /\ \A i \in DOMAIN c : i < j /\ j - i <= InBlock(j) => c[i] # ZeroByte
      BY <2>1, <2>2 DEF Aligned
    <3>2. j > 1 => d[j - 1] = c[j - 1]
      BY <1>l, <1>o, <2>2
    <3>3. ASSUME NEW i \in DOMAIN d, i < j, j - i <= InBlock(j) PROVE d[i] # ZeroByte
      <4>1. i \in DOMAIN c /\ d[i] = c[i]
        BY <1>l, <1>o, <2>2, <3>3
      <4>2. QED BY <3>1, <3>3, <4>1
    <3>4. QED BY <2>2, <3>1, <3>2, <3>3
  <2>3. CASE Len(c) + z < j /\ j <= Len(c) + m /\ d[j] = Part(f, j - Len(c) - z)
    <3>1. d[j].frag = f /\ d[j].at = j - Len(c) - z /\ recs[r].placed
      BY <1>p, <2>1, <2>3
    <3>2. PICK s \in Nat : s % BlockSize = 0 /\ Len(c) + z = s + start
      BY <1>3, <3>1
    <3>3. InBlock(j) = j - 1 - s /\ s + start < j /\ j <= s + BlockSize
      BY <1>4, <2>3, <3>1, <3>2
    <3>4. d[j].at = 1 => InBlock(j) + Size(d[j].frag) <= BlockSize
      <4>1. PICK L \in Nat, sz \in Nat : L = Len(c) /\ sz = Size(f)
        BY <1>1, <1>l
      <4>2. j \in Nat /\ L + z = s + start /\ start + sz <= BlockSize /\ InBlock(j) = j - 1 - s
        BY <1>a, <1>l, <3>2, <3>3, <4>1
      <4>3. d[j].at = 1 => j = L + z + 1
        BY <3>1, <4>1, <4>2
      <4>4. QED BY <1>1, <3>1, <4>1, <4>2, <4>3
    <3>5. d[j].at = 1 /\ j > 1 => d[j - 1] = ZeroByte \/ Closes(d[j - 1])
      <4>1. SUFFICES ASSUME d[j].at = 1, j > 1 PROVE d[j - 1] = ZeroByte \/ Closes(d[j - 1])
        OBVIOUS
      <4>2. j = Len(c) + z + 1
        BY <1>l, <3>1, <4>1
      <4>3. CASE z = 0
        <5>1. j - 1 = Len(c) /\ Len(c) >= 1
          BY <1>l, <4>1, <4>2, <4>3
        <5>2. c[Len(c)] = ZeroByte \/ Closes(c[Len(c)])
          BY <1>l, <3>1, <5>1 DEF Abut
        <5>3. d[Len(c)] = c[Len(c)]
          BY <1>l, <1>o, <5>1
        <5>4. QED BY <5>1, <5>2, <5>3
      <4>4. CASE z # 0
        <5>1. PICK k \in DOMAIN d : k = j - 1 /\ Len(c) < k /\ k <= Len(c) + z
          BY <1>l, <4>2, <4>4
        <5>2. d[k] = ZeroByte
          BY <1>2, <1>l, <5>1
        <5>3. QED BY <5>1, <5>2
      <4>5. QED BY <4>3, <4>4
    <3>6. ASSUME NEW i \in DOMAIN d, i < j, j - i <= InBlock(j), d[i] = ZeroByte PROVE FALSE
      <4>1. i > s /\ i \in Nat
        BY <1>l, <3>2, <3>3, <3>6
      <4>2. Trailers(d)
        BY <1>5, <3>1
      <4>3. BlockSize - InBlock(i) < HeaderSize
        BY <3>6, <4>2 DEF Trailers
      <4>4. PICK p \in Nat : p = i - 1 /\ s <= p /\ p < s + BlockSize
        <5>j. j \in Nat /\ i < j /\ j <= s + BlockSize /\ BlockSize \in Nat
          BY <1>1, <1>l, <3>3, <3>6
        <5>1. i - 1 \in Nat /\ s <= i - 1 /\ i - 1 < s + BlockSize
          BY ONLY <5>j, <4>1, s \in Nat
        <5>2. QED BY <5>1
      <4>5. p % BlockSize = p - s
        BY <3>2, <4>4, SameBlock
      <4>6. InBlock(i) = i - 1 - s
        BY <4>1, <4>4, <4>5 DEF InBlock
      <4>7. i <= Len(c) + z
        BY <1>2, <1>p, <3>6
      <4>8. start > BlockSize - HeaderSize
        BY <1>1, <1>l, <3>2, <4>1, <4>3, <4>6, <4>7
      <4>9. start <= BlockSize - HeaderSize
        BY <1>1, <1>q DEF StartAt, Size
      <4>10. QED BY <1>1, <4>8, <4>9
    <3>7. QED BY <3>4, <3>5, <3>6
  <2>4. QED BY <1>2, <1>z, <2>1, <2>2, <2>3
<1>7. ASSUME recs[r].placed, m = ZerosAt(off) + Size(f) PROVE Abut(d, StartAt(off) + Size(f))
  <2>1. PICK s \in Nat : s % BlockSize = 0 /\ Len(c) + z = s + start
    BY <1>3, <1>7
  <2>2. PICK e \in Nat : e = start + Size(f) /\ e <= BlockSize
    BY <1>1, <1>q
  <2>3. Len(d) = s + e
    <3>1. PICK L \in Nat, sz \in Nat : L = Len(c) /\ sz = Size(f)
      BY <1>1, <1>l
    <3>2. Len(d) = L + m /\ m = z + sz /\ L + z = s + start /\ e = start + sz
      BY <1>l, <1>q, <1>7, <2>1, <2>2, <3>1
    <3>3. QED BY <3>2
  <2>4. (s + e) % BlockSize = e % BlockSize
    <3>1. PICK s0 \in Nat : s0 = 0 /\ s0 % BlockSize = 0
      <4>1. PICK s0 \in Nat : s0 = 0
        OBVIOUS
      <4>2. Base(s0) <= s0 /\ Base(s0) \in Nat /\ Base(s0) % BlockSize = 0
        BY ONLY s0 \in Nat, BaseFacts
      <4>3. QED BY <4>1, <4>2
    <3>2. CASE e = BlockSize
      <4>1. (s0 + BlockSize) % BlockSize = 0 /\ (s + BlockSize) % BlockSize = 0
        BY ONLY <2>1, <3>1, BlockNext
      <4>2. QED BY <1>1, <3>1, <3>2, <4>1
    <3>3. CASE e < BlockSize
      <4>1. e \in 0 .. BlockSize - 1
        BY <1>1, <3>3
      <4>2. (s0 + e) % BlockSize = e /\ (s + e) % BlockSize = e
        BY ONLY <2>1, <3>1, <4>1, BlockShift
      <4>3. QED BY <3>1, <4>2
    <3>4. QED BY <1>1, <2>2, <3>2, <3>3
  <2>5. Closes(d[Len(d)])
    <3>1. PICK k \in DOMAIN d : k = Len(d) /\ k - Len(c) - z = Size(f) /\ Len(c) + z < k
      <4>1. PICK L \in Nat, sz \in Nat : L = Len(c) /\ sz = Size(f) /\ sz > 1
        BY <1>1, <1>l
      <4>2. Len(d) = L + m /\ m = z + sz /\ DOMAIN d = 1 .. L + m
        BY <1>l, <1>q, <1>7, <4>1
      <4>3. L + m \in DOMAIN d /\ (L + m) - L - z = sz /\ L + z < L + m
        BY <4>1, <4>2
      <4>4. QED BY <4>1, <4>2, <4>3
    <3>2. d[k] = Part(f, k - Len(c) - z)
      BY <1>2, <1>l, <3>1
    <3>3. QED BY <1>p, <3>1, <3>2
  <2>6. QED BY <1>5, <1>7, <1>q, <2>2, <2>3, <2>4, <2>5 DEF Abut
<1>8. QED BY <1>5, <1>6, <1>7

\* Sequence bs is z zeros and fragment f.
BytesOf(bs, z, f) ==
  /\ bs \in Seq(Byte) /\ Len(bs) = z + Size(f)
  /\ \A i \in 1 .. Len(bs) : bs[i] = IF i <= z THEN ZeroByte ELSE Part(f, i - z)

\* The bytes of a turn.
LEMMA TurnBytesFacts ==
  ASSUME NEW r, NEW len, NEW from, NEW off \in 0 .. BlockSize, NEW begin, NEW t, IsTurn(t, r, len, from, off, begin)
  PROVE  Size(t.frag) \in Nat /\ ZerosAt(off) \in Nat /\ BytesOf(TurnBytes(t), ZerosAt(off), t.frag)
<1>1. /\ HeaderSize \in Nat /\ BlockSize \in Nat /\ t.frag \in Frags /\ t.frag.len \in Nat /\ Size(t.frag) \in Nat
      /\ t.trailer = Trailer(off)
  BY LogAssumption DEF IsTurn, Frags, Size
<1>2. PICK f \in Frags, a \in Seq(Byte) : f = t.frag /\ a = Trailer(off)
  BY <1>1, TrailerFacts
<1>3. PICK n \in Nat : n = Size(f) /\ n = HeaderSize + f.len
  BY <1>1, <1>2 DEF Size
<1>4. PICK b : b = [i \in 1 .. n |-> [frag |-> f, at |-> i]]
  OBVIOUS
<1>5. TurnBytes(t) = a \o b
  BY <1>1, <1>2, <1>3, <1>4 DEF TurnBytes, Emitted
<1>6. b \in Seq(Byte) /\ Len(b) = n /\ \A i \in 1 .. n : b[i] = Part(f, i)
  <2>1. \A i \in 1 .. n : [frag |-> f, at |-> i] \in Byte
    BY DEF Byte, Frags
  <2>2. QED BY <1>4, <2>1 DEF Part
<1>7. PICK z \in Nat : z = Len(a) /\ z = ZerosAt(off) /\ \A i \in 1 .. z : a[i] = ZeroByte
  <2>1. Len(a) \in Nat
    OBVIOUS
  <2>2. QED BY <1>2, <2>1, TrailerFacts DEF ZerosAt
<1>8. /\ a \o b \in Seq(Byte) /\ Len(a \o b) = z + n
      /\ \A i \in 1 .. z + n : (a \o b)[i] = IF i <= z THEN a[i] ELSE b[i - z]
  <2>1. /\ a \o b \in Seq(Byte) /\ Len(a \o b) = Len(a) + Len(b)
        /\ \A i \in 1 .. Len(a) + Len(b) : (a \o b)[i] = IF i <= Len(a) THEN a[i] ELSE b[i - Len(a)]
    BY <1>6, ConcatProperties
  <2>2. QED BY <1>6, <1>7, <2>1
<1>9. ASSUME NEW i \in 1 .. z + n PROVE (a \o b)[i] = IF i <= z THEN ZeroByte ELSE Part(f, i - z)
  <2>1. i <= z => i \in 1 .. z
    OBVIOUS
  <2>2. ~(i <= z) => i - z \in 1 .. n
    OBVIOUS
  <2>3. QED BY <1>6, <1>7, <1>8, <2>1, <2>2
<1>10. BytesOf(a \o b, z, f)
  BY <1>3, <1>8, <1>9 DEF BytesOf
<1>11. QED BY <1>1, <1>2, <1>5, <1>7, <1>10

\* Sequence d is a file to which the first m bytes of turn t were added.
Behind(d, recs, r, t, from, m) ==
  /\ d \in Seq(Byte) /\ Clean(d, recs)
  /\ recs[r].placed => Trailers(d)
  /\ m = Len(TurnBytes(t)) /\ recs[r].placed => Abut(d, t.end)
  /\ m = Len(TurnBytes(t)) /\ ~Ends(t.frag) => Ready(d, r, from + t.frag.len, FALSE)

\* A turn, or a part of one, keeps the layout, and the next turn may follow.
LEMMA TurnKeeps ==
  ASSUME NEW c \in Seq(Byte), NEW recs, NEW r \in Nat \ {0}, r \in DOMAIN recs, recs[r].len \in Nat,
         NEW from \in Nat, NEW off \in 0 .. BlockSize, NEW begin \in BOOLEAN, NEW t,
         IsTurn(t, r, recs[r].len, from, off, begin), Clean(c, recs), Ready(c, r, from, begin),
         recs[r].placed => Abut(c, off),
         NEW m \in 0 .. Len(TurnBytes(t)), NEW d, d = c \o SubSeq(TurnBytes(t), 1, m)
  PROVE  Behind(d, recs, r, t, from, m)
<1>1. Size(t.frag) \in Nat /\ ZerosAt(off) \in Nat /\ BytesOf(TurnBytes(t), ZerosAt(off), t.frag)
  BY TurnBytesFacts
<1>f. PICK f : f = t.frag
  OBVIOUS
<1>s. PICK z \in Nat, sz \in Nat : z = ZerosAt(off) /\ sz = Size(f)
  BY <1>1, <1>f
<1>1a. PICK bs : bs = TurnBytes(t) /\ BytesOf(bs, z, f)
  BY <1>1, <1>f, <1>s
<1>2. /\ bs = TurnBytes(t) /\ z = ZerosAt(off) /\ f = t.frag /\ sz = Size(f) /\ Len(bs) = z + sz
      /\ bs \in Seq(Byte)
      /\ \A i \in 1 .. Len(bs) : bs[i] = IF i <= z THEN ZeroByte ELSE Part(f, i - z)
  BY <1>1a, <1>f, <1>s DEF BytesOf
<1>3. m \in Nat /\ m \in 0 .. z + sz
  BY <1>2
<1>4. PICK e : e = SubSeq(bs, 1, m)
  OBVIOUS
<1>5. e \in Seq(Byte) /\ Len(e) = m /\ \A i \in 1 .. m : e[i] = bs[i]
  <2>1. \A i \in 1 .. m : bs[i] \in Byte
    BY <1>2, <1>3, ElementOfSeq
  <2>2. /\ e \in Seq(Byte) /\ Len(e) = IF 1 <= m THEN m - 1 + 1 ELSE 0
        /\ \A i \in 1 .. m - 1 + 1 : e[i] = bs[1 + i - 1]
    BY <1>3, <1>4, <2>1, SubSeqProperties
  <2>3. QED BY <1>3, <2>2
<1>6. /\ d \in Seq(Byte) /\ Len(d) = Len(c) + m /\ Len(c) \in Nat
      /\ \A i \in 1 .. Len(c) + m : d[i] = IF i <= Len(c) THEN c[i] ELSE e[i - Len(c)]
  <2>1. /\ c \o e \in Seq(Byte) /\ Len(c \o e) = Len(c) + Len(e)
        /\ \A i \in 1 .. Len(c) + Len(e) : (c \o e)[i] = IF i <= Len(c) THEN c[i] ELSE e[i - Len(c)]
    BY <1>5, ConcatProperties
  <2>2. d = c \o e
    BY <1>2, <1>4
  <2>3. QED BY <1>5, <2>1, <2>2
<1>7. Grown(d, c, z, f, m)
  <2>1. ASSUME NEW i \in 1 .. Len(c) PROVE d[i] = c[i]
    BY <1>3, <1>6
  <2>2. ASSUME NEW i \in 1 .. m PROVE d[Len(c) + i] = IF i <= z THEN ZeroByte ELSE Part(f, i - z)
    <3>1. PICK L \in Nat, k \in Nat : L = Len(c) /\ k = L + i
      BY <1>6
    <3>2. k \in 1 .. Len(c) + m /\ ~(k <= Len(c)) /\ k - Len(c) = i
      BY <1>3, <3>1
    <3>3. d[k] = e[i]
      BY <1>6, <3>2
    <3>4. i \in 1 .. Len(bs) /\ e[i] = bs[i]
      BY <1>2, <1>3, <1>5
    <3>5. QED BY <1>2, <3>1, <3>3, <3>4
  <2>3. QED BY <1>6, <2>1, <2>2 DEF Grown
<1>b. ASSUME NEW i \in DOMAIN d
      PROVE  \/ i \in DOMAIN c /\ i <= Len(c) /\ d[i] = c[i]
             \/ Len(c) < i /\ i <= Len(c) + z /\ d[i] = ZeroByte
             \/ Len(c) + z < i /\ i <= Len(c) + m /\ d[i] = Part(f, i - Len(c) - z)
  BY ONLY c \in Seq(Byte), z \in Nat, <1>3, <1>7, i \in DOMAIN d, GrownBytes
<1>8. /\ HeaderSize \in Nat /\ HeaderSize > 1 /\ BlockSize \in Nat /\ BlockSize > HeaderSize
      /\ f \in Frags /\ f.rec = r /\ f.from = from /\ f.rec # 0 /\ f.len \in Nat
      /\ Begins(f) <=> begin
      /\ from + f.len <= recs[r].len
      /\ Ends(f) <=> from + f.len = recs[r].len
  BY <1>2, LogAssumption DEF IsTurn, Frags
<1>9. IsFrag(f, recs)
  <2>1. begin => from = 0
    BY DEF Ready
  <2>2. QED BY <1>8, <2>1 DEF IsFrag
<1>10. z < HeaderSize
  BY <1>2, <1>8 DEF ZerosAt
<1>11. Typed(d, recs) /\ Whole1(d) /\ Ordered(d) /\ Chained(d)
  <2>1. Typed(c, recs) /\ Whole1(c) /\ Ordered(c) /\ Chained(c) /\ m \in 0 .. z + Size(f)
    BY <1>2, <1>3 DEF Clean
  <2>2. QED BY ONLY c \in Seq(Byte), r \in Nat \ {0}, r \in DOMAIN recs, recs[r].len \in Nat, from \in Nat,
                    z \in Nat, begin \in BOOLEAN, Ready(c, r, from, begin),
                    <1>7, <1>8, <1>9, <1>10, <2>1, TurnKeepsOrder
<1>12. t.end = StartAt(off) + Size(f) /\ StartAt(off) + Size(f) <= BlockSize
  <2>1. t.end = StartAt(off) + Size(f) /\ t.end \in 0 .. BlockSize
    BY <1>2 DEF IsTurn, StartAt
  <2>2. QED BY <1>8, <2>1
<1>13. /\ Aligned(d, recs)
       /\ recs[r].placed => Trailers(d)
       /\ recs[r].placed /\ m = ZerosAt(off) + Size(f) => Abut(d, StartAt(off) + Size(f))
  <2>1. Aligned(c, recs) /\ m \in 0 .. ZerosAt(off) + Size(f) /\ Grown(d, c, ZerosAt(off), f, m)
    BY <1>2, <1>3, <1>7 DEF Clean
  <2>2. QED BY <1>8, <1>12, <2>1, TurnKeepsPlace
<1>14. ASSUME m = Len(TurnBytes(t)), ~Ends(t.frag) PROVE Ready(d, r, from + t.frag.len, FALSE)
  <2>1. m = z + sz /\ ~Ends(f)
    BY <1>2, <1>14
  <2>2. \A n : /\ Part(f, n).frag = f /\ Part(f, n).at = n /\ Real(Part(f, n)) /\ Part(f, n) # ZeroByte
               /\ (Closes(Part(f, n)) <=> n = Size(f))
    BY <1>8, PartFacts
  <2>3. ASSUME NEW i \in DOMAIN d, Real(d[i])
        PROVE  d[i].frag.rec <= r /\ (Ends(d[i].frag) /\ Closes(d[i]) => d[i].frag.rec < r)
    <3>1. \/ i \in DOMAIN c /\ i <= Len(c) /\ d[i] = c[i]
          \/ Len(c) < i /\ i <= Len(c) + z /\ d[i] = ZeroByte
          \/ Len(c) + z < i /\ i <= Len(c) + m /\ d[i] = Part(f, i - Len(c) - z)
      BY <1>b
    <3>2. CASE i \in DOMAIN c /\ d[i] = c[i]
      BY <2>3, <3>2 DEF Ready
    <3>3. CASE d[i] = Part(f, i - Len(c) - z)
      <4>1. d[i].frag = f
        BY <2>2, <3>3
      <4>2. QED BY ONLY <1>8, <2>1, <4>1, r \in Nat \ {0}
    <3>4. QED BY <2>3, <3>1, <3>2, <3>3, ZeroFacts
  <2>4. PICK L \in Nat : L = Len(c)
    BY <1>6
  <2>5. PICK k : k = Len(d) /\ k \in DOMAIN d /\ L + z < k /\ k - L - z = sz /\ k >= 1
    <3>1. sz > 1
      <4>1. sz = HeaderSize + f.len
        BY <1>2 DEF Size
      <4>2. QED BY <1>8, <4>1
    <3>2. Len(d) = L + (z + sz) /\ DOMAIN d = 1 .. Len(d)
      BY ONLY <1>6, <2>1, <2>4
    <3>3. PICK k \in Nat : k = Len(d) /\ k = L + (z + sz)
      BY ONLY <3>2, L \in Nat, z \in Nat, sz \in Nat
    <3>4. k \in 1 .. k /\ L + z < k /\ k - L - z = sz /\ k >= 1
      BY ONLY <3>1, <3>3, L \in Nat, z \in Nat, sz \in Nat
    <3>5. QED BY <3>2, <3>3, <3>4
  <2>6. d[k] = Part(f, sz)
    <3>1. \/ k \in DOMAIN c /\ k <= Len(c) /\ d[k] = c[k]
          \/ Len(c) < k /\ k <= Len(c) + z /\ d[k] = ZeroByte
          \/ Len(c) + z < k /\ k <= Len(c) + m /\ d[k] = Part(f, k - Len(c) - z)
      BY <1>b, <2>5
    <3>2. ~(k <= L) /\ ~(k <= L + z)
      <4>1. k \in Nat
        BY <1>6, <2>5
      <4>2. QED BY <2>5, <4>1
    <3>3. QED BY <2>4, <2>5, <3>1, <3>2
  <2>7. Closes(d[k]) /\ d[k].frag = f
    BY <1>2, <2>2, <2>6
  <2>8. f = t.frag /\ f.from = from
    BY <1>2, <1>8
  <2>9. QED BY <1>8, <2>1, <2>3, <2>5, <2>7, <2>8 DEF Ready
<1>15. m = Len(TurnBytes(t)) => m = ZerosAt(off) + Size(f)
  BY <1>2
<1>16. QED BY <1>6, <1>11, <1>12, <1>13, <1>14, <1>15 DEF Clean, Behind

\* The bytes of the first k turns.
LEMMA AllBytesStep ==
  ASSUME NEW ts \in Seq(TurnSet), \A i \in 1 .. Len(ts) : TurnBytes(ts[i]) \in Seq(Byte), NEW k \in 0 .. Len(ts)
  PROVE  /\ AllBytes(SubSeq(ts, 1, k)) \in Seq(Byte)
         /\ k = 0 => AllBytes(SubSeq(ts, 1, k)) = <<>>
         /\ k # 0 => AllBytes(SubSeq(ts, 1, k)) = AllBytes(SubSeq(ts, 1, k - 1)) \o TurnBytes(ts[k])
<1> DEFINE bytes(n) == [i \in 1 .. n |-> TurnBytes(ts[i])]
<1>1. ASSUME NEW n \in 0 .. Len(ts)
      PROVE  /\ AllBytes(SubSeq(ts, 1, n)) = FlattenSeq(bytes(n))
             /\ bytes(n) \in Seq(Seq(Byte)) /\ Len(bytes(n)) = n
  <2>1. \A i \in 1 .. n : ts[i] \in TurnSet
    BY ElementOfSeq
  <2>2. PICK s : s = SubSeq(ts, 1, n)
    OBVIOUS
  <2>3. /\ s \in Seq(TurnSet) /\ Len(s) = IF 1 <= n THEN n - 1 + 1 ELSE 0
        /\ \A i \in 1 .. n - 1 + 1 : s[i] = ts[1 + i - 1]
    BY <2>1, <2>2, SubSeqProperties
  <2>4. DOMAIN s = 1 .. n /\ \A i \in 1 .. n : s[i] = ts[i]
    BY <2>3
  <2>5. [i \in DOMAIN s |-> TurnBytes(s[i])] = [i \in 1 .. n |-> TurnBytes(ts[i])]
    BY <2>4
  <2>6. AllBytes(s) = FlattenSeq(bytes(n))
    BY <2>5 DEF AllBytes
  <2>7. \A i \in 1 .. n : TurnBytes(ts[i]) \in Seq(Byte)
    OBVIOUS
  <2>8. n \in Nat
    OBVIOUS
  <2>9. QED BY <2>2, <2>6, <2>7, <2>8
<1>2. k \in Nat /\ Len(ts) \in Nat
  OBVIOUS
<1>3. AllBytes(SubSeq(ts, 1, k)) \in Seq(Byte)
  BY <1>1, FlattenType
<1>4. CASE k = 0
  <2>1. bytes(k) = <<>>
    BY <1>1, <1>4, EmptySeq
  <2>2. FlattenSeq(<<>>) = <<>>
    BY DEF FlattenSeq
  <2>3. QED BY <1>1, <1>3, <1>4, <2>1, <2>2
<1>5. CASE k # 0
  <2>1. k - 1 \in 0 .. Len(ts)
    BY <1>2, <1>5
  <2>2. PICK all, front : all = bytes(k) /\ front = bytes(k - 1)
    OBVIOUS
  <2>3. all \in Seq(Seq(Byte)) /\ Len(all) = k /\ AllBytes(SubSeq(ts, 1, k)) = FlattenSeq(all)
    BY <1>1, <2>2
  <2>4. front \in Seq(Seq(Byte)) /\ Len(front) = k - 1 /\ AllBytes(SubSeq(ts, 1, k - 1)) = FlattenSeq(front)
    BY <1>1, <2>1, <2>2
  <2>5. all[k] = TurnBytes(ts[k]) /\ \A i \in 1 .. k - 1 : front[i] = all[i]
    BY <1>2, <1>5, <2>2
  <2> HIDE DEF bytes
  <2>6. Len(all) >= 1 /\ Len(front) = Len(all) - 1 /\ \A i \in 1 .. Len(front) : front[i] = all[i]
    BY <1>2, <1>5, <2>3, <2>4, <2>5
  <2>7. FlattenSeq(all) = FlattenSeq(front) \o all[Len(all)]
    BY ONLY <2>3, <2>4, <2>6, FlattenLast
  <2>8. QED BY <1>3, <1>5, <2>3, <2>4, <2>5, <2>7
<1>6. QED BY <1>4, <1>5

\* The file after some turns of record r.
After(c, ts, k) == c \o AllBytes(SubSeq(ts, 1, k))

\* After every turn the layout is kept, and the next turn may follow.
LEMMA RecordKeeps ==
  ASSUME NEW c \in Seq(Byte), NEW recs, NEW r \in Nat \ {0}, r \in DOMAIN recs, recs[r].len \in Nat,
         NEW off \in 0 .. BlockSize, NEW ts, AreTurns(ts, r, recs[r].len, off), Clean(c, recs), Ready(c, r, 0, TRUE),
         recs[r].placed => Abut(c, off), NEW k \in 0 .. Len(ts)
  PROVE  /\ After(c, ts, k) \in Seq(Byte) /\ Clean(After(c, ts, k), recs)
         /\ recs[r].placed => Abut(After(c, ts, k), IF k = 0 THEN off ELSE ts[k].end)
         /\ k < Len(ts) => Ready(After(c, ts, k), r, From(ts, k + 1), k = 0)
         /\ k < Len(ts) => From(ts, k + 1) \in Nat /\ Off(ts, k + 1, off) \in 0 .. BlockSize
<1>1. /\ ts \in Seq(TurnSet) /\ Len(ts) \in Nat /\ Len(ts) >= 1
      /\ \A i \in 1 .. Len(ts) : IsTurn(ts[i], r, recs[r].len, From(ts, i), Off(ts, i, off), i = 1)
      /\ \A i \in 1 .. Len(ts) : Ends(ts[i].frag) <=> i = Len(ts)
  BY DEF AreTurns
<1>b. BlockSize \in Nat
  BY LogAssumption
<1>2. ASSUME NEW i \in 1 .. Len(ts)
      PROVE  /\ ts[i] \in TurnSet /\ From(ts, i) \in Nat /\ Off(ts, i, off) \in 0 .. BlockSize
             /\ ts[i].frag \in Frags /\ ts[i].frag.from \in Nat /\ ts[i].frag.len \in Nat /\ ts[i].end \in 0 .. BlockSize
             /\ IsTurn(ts[i], r, recs[r].len, From(ts, i), Off(ts, i, off), i = 1)
             /\ ts[i].frag.from = From(ts, i)
             /\ TurnBytes(ts[i]) \in Seq(Byte)
  <2>1. \A j \in 1 .. Len(ts) : ts[j] \in TurnSet
    BY <1>1, ElementOfSeq
  <2>2. \A j \in 1 .. Len(ts) : ts[j].frag \in Frags /\ ts[j].frag.from \in Nat /\ ts[j].frag.len \in Nat /\ ts[j].end \in 0 .. BlockSize
    BY <2>1 DEF TurnSet, Frags
  <2>3. From(ts, i) \in Nat /\ Off(ts, i, off) \in 0 .. BlockSize
    <3>1. CASE i = 1
      BY <3>1 DEF From, Off
    <3>2. CASE i # 1
      <4>1. i - 1 \in 1 .. Len(ts)
        BY <1>1, <3>2
      <4>2. QED BY <2>2, <3>2, <4>1 DEF From, Off
    <3>3. QED BY <3>1, <3>2
  <2>4. IsTurn(ts[i], r, recs[r].len, From(ts, i), Off(ts, i, off), i = 1)
    BY <1>1
  <2>5. TurnBytes(ts[i]) \in Seq(Byte)
    BY <2>3, <2>4, TurnBytesFacts DEF BytesOf
  <2>6. QED BY <2>1, <2>2, <2>3, <2>4, <2>5 DEF IsTurn
<1>3. \A i \in 1 .. Len(ts) : TurnBytes(ts[i]) \in Seq(Byte)
  BY <1>2
<1> DEFINE K(n) == /\ After(c, ts, n) \in Seq(Byte) /\ Clean(After(c, ts, n), recs)
                   /\ recs[r].placed => Abut(After(c, ts, n), IF n = 0 THEN off ELSE ts[n].end)
                   /\ n < Len(ts) => Ready(After(c, ts, n), r, From(ts, n + 1), n = 0)
           Q == {n \in 0 .. Len(ts) : K(n)}
<1>4. 0 \in Q
  <2>1. AllBytes(SubSeq(ts, 1, 0)) = <<>>
    <3>1. PICK z \in 0 .. Len(ts) : z = 0
      BY <1>1
    <3>2. z = 0 => AllBytes(SubSeq(ts, 1, z)) = <<>>
      BY ONLY <1>1, <1>3, z \in 0 .. Len(ts), AllBytesStep
    <3>3. QED BY <3>1, <3>2
  <2>2. After(c, ts, 0) = c
    BY <2>1, ConcatEmptySeq DEF After
  <2>3. From(ts, 0 + 1) = 0
    BY DEF From
  <2>4. Ready(After(c, ts, 0), r, From(ts, 0 + 1), 0 = 0)
    BY <2>2, <2>3 DEF Ready
  <2>5. QED BY <1>1, <2>2, <2>4
<1>5. ASSUME NEW n \in 1 .. Len(ts), n - 1 \in Q PROVE n \in Q
  <2>1. n \in Nat /\ n - 1 < Len(ts) /\ n \in 0 .. Len(ts) /\ (n - 1) + 1 = n /\ (n - 1 = 0 <=> n = 1)
    BY <1>1
  <2>2. PICK a : a = After(c, ts, n - 1)
    OBVIOUS
  <2>3. a \in Seq(Byte) /\ Clean(a, recs)
    BY <1>5, <2>2
  <2>4. recs[r].placed => Abut(a, Off(ts, n, off))
    <3>1. (IF n - 1 = 0 THEN off ELSE ts[n - 1].end) = Off(ts, n, off)
      BY <2>1 DEF Off
    <3>2. QED BY <1>5, <2>2, <3>1
  <2>5. PICK begin \in BOOLEAN : begin <=> n = 1
    <3>1. (n = 1) \in BOOLEAN
      OBVIOUS
    <3>2. QED BY <3>1, Zenon
  <2>6. Ready(a, r, From(ts, n), begin)
    <3>1. Ready(a, r, From(ts, n), n - 1 = 0)
      BY <1>5, <2>1, <2>2
    <3>2. QED BY <2>1, <2>5, <3>1 DEF Ready
  <2>7a. PICK t : t = ts[n]
    OBVIOUS
  <2>7b. PICK from \in Nat : from = From(ts, n)
    BY <1>2
  <2>7c. PICK o \in 0 .. BlockSize : o = Off(ts, n, off)
    BY <1>2
  <2>7. t = ts[n] /\ from = From(ts, n) /\ o = Off(ts, n, off)
    BY <2>7a, <2>7b, <2>7c
  <2>8. IsTurn(t, r, recs[r].len, from, o, begin)
    <3>1. IsTurn(t, r, recs[r].len, from, o, n = 1)
      BY <1>2, <2>7
    <3>2. QED BY <2>5, <3>1 DEF IsTurn
  <2>9. PICK m : m = Len(TurnBytes(t)) /\ m \in 0 .. Len(TurnBytes(t)) /\ SubSeq(TurnBytes(t), 1, m) = TurnBytes(t)
    <3>1. TurnBytes(t) \in Seq(Byte)
      BY <1>2, <2>7
    <3>2. QED BY <3>1, SubSeqFull, LenProperties
  <2>9b. m \in 0 .. Len(TurnBytes(t))
    BY <2>9
  <2>10. PICK d : d = a \o SubSeq(TurnBytes(t), 1, m)
    OBVIOUS
  <2>11. Ready(a, r, from, begin) /\ (recs[r].placed => Abut(a, o))
    BY <2>4, <2>6, <2>7
  <2>12a. Behind(d, recs, r, t, from, m)
    BY ONLY r \in Nat \ {0}, r \in DOMAIN recs, recs[r].len \in Nat, from \in Nat, o \in 0 .. BlockSize, begin \in BOOLEAN,
            <2>3, <2>8, <2>9b, <2>10, <2>11, TurnKeeps
  <2>12. /\ d \in Seq(Byte) /\ Clean(d, recs)
         /\ m = Len(TurnBytes(t)) /\ recs[r].placed => Abut(d, t.end)
         /\ m = Len(TurnBytes(t)) /\ ~Ends(t.frag) => Ready(d, r, from + t.frag.len, FALSE)
    BY <2>12a DEF Behind
  <2>13. d = After(c, ts, n)
    <3>1. AllBytes(SubSeq(ts, 1, n)) = AllBytes(SubSeq(ts, 1, n - 1)) \o TurnBytes(ts[n])
      <4>1. n # 0 => AllBytes(SubSeq(ts, 1, n)) = AllBytes(SubSeq(ts, 1, n - 1)) \o TurnBytes(ts[n])
        BY ONLY <1>1, <1>3, <2>1, AllBytesStep
      <4>2. QED BY <2>1, <4>1
    <3>2. AllBytes(SubSeq(ts, 1, n - 1)) \in Seq(Byte)
      <4>1. PICK p \in 0 .. Len(ts) : p = n - 1
        BY <1>1
      <4>2. AllBytes(SubSeq(ts, 1, p)) \in Seq(Byte)
        BY ONLY <1>1, <1>3, p \in 0 .. Len(ts), AllBytesStep
      <4>3. QED BY <4>1, <4>2
    <3>3. PICK x \in Seq(Byte), y \in Seq(Byte) : x = AllBytes(SubSeq(ts, 1, n - 1)) /\ y = TurnBytes(ts[n])
      BY <1>2, <3>2
    <3>4. (c \o x) \o y = c \o (x \o y)
      BY ONLY c \in Seq(Byte), x \in Seq(Byte), y \in Seq(Byte), ConcatAssociative
    <3>5. QED BY <2>2, <2>7, <2>9, <2>10, <3>1, <3>3, <3>4 DEF After
  <2>14. n < Len(ts) => Ready(d, r, From(ts, n + 1), n = 0)
    <3>1. SUFFICES ASSUME n < Len(ts) PROVE Ready(d, r, From(ts, n + 1), n = 0)
      OBVIOUS
    <3>2. ~Ends(t.frag)
      BY <1>1, <2>1, <2>7, <3>1
    <3>3. Ready(d, r, from + t.frag.len, FALSE)
      BY <2>9, <2>12, <3>2
    <3>4. From(ts, n + 1) = from + t.frag.len
      <4>1. From(ts, n + 1) = ts[n].frag.from + ts[n].frag.len
        BY <2>1 DEF From
      <4>2. ts[n].frag.from = From(ts, n)
        BY <1>2
      <4>3. QED BY <2>7, <4>1, <4>2
    <3>5. QED BY <2>1, <3>3, <3>4 DEF Ready
  <2>15. QED BY <2>1, <2>7, <2>9, <2>12, <2>13, <2>14
<1>6. \A n \in 0 .. Len(ts) : n \in Q
  <2> HIDE DEF Q
  <2> QED BY <1>1, <1>4, <1>5, UpTo
<1>7. K(k)
  BY <1>6
<1>8. k < Len(ts) => From(ts, k + 1) \in Nat /\ Off(ts, k + 1, off) \in 0 .. BlockSize
  <2>1. k < Len(ts) => k + 1 \in 1 .. Len(ts)
    BY <1>1
  <2>2. QED BY <1>2, <2>1
<1>9. QED BY <1>7, <1>8

-----------------------------------------------------------------------------
(* The inductive invariant of the file.                                      *)

Recs == Seq([len : Nat, ok : BOOLEAN, placed : BOOLEAN])

\* File fl is c, but for a byte that went bad after the writer was gone.
Damaged(fl, c, ph) ==
  /\ c \in Seq(Byte) /\ Len(c) = Len(fl)
  /\ \A i \in 1 .. Len(c) : fl[i] = c[i] \/ fl[i] = BadByte
  /\ \A i, j \in 1 .. Len(c) : fl[i] = BadByte /\ fl[j] = BadByte => i = j
  /\ ph = "writing" => fl = c

\* A writer that knows its place is where the file ends.
InPlace(fl, off, ph, p) == p /\ ph = "writing" =>
  /\ Len(fl) % BlockSize = off % BlockSize
  /\ Len(fl) = 0 \/ fl[Len(fl)] = ZeroByte \/ Closes(fl[Len(fl)])

Laid(fl, ph, recs, p) ==
  \E c : Damaged(fl, c, ph) /\ Clean(c, recs) /\ (p => Trailers(c))

FileInvOf(fl, sy, off, ph, recs, p) ==
  /\ fl \in Seq(Byte) /\ sy \in 0 .. Len(fl) /\ off \in 0 .. BlockSize
  /\ ph \in {"writing", "closed"} /\ recs \in Recs /\ p \in BOOLEAN
  /\ Laid(fl, ph, recs, p) /\ PlacedFirst(recs, p) /\ InPlace(fl, off, ph, p)

FileInv == FileInvOf(file, synced, offset, phase, added, placed)

\* A bad byte belongs to no fragment, and is not a zero.
LEMMA BadFacts == BadByte \in Byte /\ BadByte # ZeroByte /\ ~Real(BadByte) /\ \A f \in Frags : BadByte.frag # f
<1>1. /\ BadByte.frag.rec = 0 /\ BadByte \in Byte /\ BadByte.frag.type = "bad" /\ ZeroByte.frag.type = "zero"
  BY DEF BadByte, ZeroByte, Fragment, Byte
<1>2. \A f \in Frags : f.type # "bad"
  BY DEF Frags
<1>3. QED BY <1>1, <1>2 DEF Real

\* The file without its bad byte has none.
LEMMA NoBadInside ==
  ASSUME NEW c, NEW recs, Typed(c, recs), NEW i \in DOMAIN c
  PROVE  c[i] # BadByte
BY BadFacts DEF Typed

\* A file with no bad byte is the one that was written.
LEMMA NotDamaged ==
  ASSUME NEW fl \in Seq(Byte), NEW c, NEW ph, Damaged(fl, c, ph), \A i \in DOMAIN fl : fl[i] # BadByte
  PROVE  fl = c
<1>1. c \in Seq(Byte) /\ Len(c) = Len(fl) /\ \A i \in 1 .. Len(c) : fl[i] = c[i] \/ fl[i] = BadByte
  BY DEF Damaged
<1>2. DOMAIN fl = 1 .. Len(fl) /\ DOMAIN c = 1 .. Len(fl)
  BY <1>1
<1>3. \A i \in 1 .. Len(fl) : fl[i] = c[i]
  BY <1>1, <1>2
<1>4. fl = [i \in 1 .. Len(fl) |-> fl[i]] /\ c = [i \in 1 .. Len(fl) |-> c[i]]
  BY <1>1, <1>2
<1>5. QED BY <1>3, <1>4

\* A new record changes nothing for the ones before it.
LEMMA MoreRecords ==
  ASSUME NEW c, NEW recs \in Recs, NEW x \in [len : Nat, ok : BOOLEAN, placed : BOOLEAN], Clean(c, recs)
  PROVE  /\ Append(recs, x) \in Recs /\ Clean(c, Append(recs, x))
         /\ \A i \in DOMAIN c : Real(c[i]) => c[i].frag.rec \in DOMAIN recs
<1>1. PICK more : more = Append(recs, x)
  OBVIOUS
<1>2. more \in Recs /\ \A r \in DOMAIN recs : r \in DOMAIN more /\ more[r] = recs[r]
  BY <1>1 DEF Recs
<1>3. ASSUME NEW i \in DOMAIN c, Real(c[i])
      PROVE  c[i] # ZeroByte /\ IsFrag(c[i].frag, recs) /\ c[i].frag.rec \in DOMAIN recs
  <2>1. c[i] # ZeroByte
    BY <1>3, ZeroFacts
  <2>2. QED BY <2>1 DEF Clean, Typed, IsFrag
<1>4. ASSUME NEW f, IsFrag(f, recs) PROVE IsFrag(f, more)
  BY <1>2, <1>4 DEF IsFrag
<1>5. Typed(c, more)
  BY <1>4 DEF Clean, Typed
<1>6. Aligned(c, more)
  <2>1. ASSUME NEW j \in DOMAIN c, Real(c[j]), more[c[j].frag.rec].placed PROVE recs[c[j].frag.rec].placed
    BY <1>2, <1>3, <2>1
  <2>2. QED BY <2>1 DEF Clean, Aligned
<1>7. QED BY <1>1, <1>2, <1>3, <1>5, <1>6 DEF Clean

\* A prefix of a file is laid out like the file.
LEMMA PrefixKeeps ==
  ASSUME NEW c \in Seq(Byte), NEW recs, Clean(c, recs), NEW n \in 0 .. Len(c), NEW d, d = SubSeq(c, 1, n)
  PROVE  /\ d \in Seq(Byte) /\ Len(d) = n /\ Clean(d, recs)
         /\ \A i \in 1 .. n : d[i] = c[i]
         /\ Trailers(c) => Trailers(d)
<1>1. d \in Seq(Byte) /\ Len(d) = n /\ \A i \in 1 .. n : d[i] = c[i]
  <2>1. \A i \in 1 .. n : c[i] \in Byte
    BY ElementOfSeq
  <2>2. /\ d \in Seq(Byte) /\ Len(d) = IF 1 <= n THEN n - 1 + 1 ELSE 0
        /\ \A i \in 1 .. n - 1 + 1 : d[i] = c[1 + i - 1]
    BY <2>1, SubSeqProperties
  <2>3. QED BY <2>2
<1>2. n \in Nat /\ Len(c) \in Nat /\ n <= Len(c) /\ DOMAIN c = 1 .. Len(c) /\ DOMAIN d = 1 .. n
  BY <1>1
<1>3. ASSUME NEW i \in DOMAIN d
      PROVE  /\ i \in DOMAIN c /\ d[i] = c[i] /\ i \in Nat
             /\ \A j \in DOMAIN c : j < i => j \in DOMAIN d /\ d[j] = c[j]
             /\ i > 1 => d[i - 1] = c[i - 1] /\ i - 1 \in DOMAIN d
  BY <1>1, <1>2
<1>4. Typed(d, recs)
  BY <1>3 DEF Clean, Typed
<1>5. Whole1(d)
  BY <1>3 DEF Clean, Whole1
<1>6. Ordered(d)
  BY <1>3 DEF Clean, Ordered
<1>7. Chained(d)
  <2>1. SUFFICES ASSUME NEW j \in DOMAIN d, Real(d[j]), d[j].at = 1, ~Begins(d[j].frag)
        PROVE  \E i \in DOMAIN d : Continued(d, i, j)
    BY DEF Chained
  <2>2. PICK i \in DOMAIN c : Continued(c, i, j)
    BY <1>3, <2>1 DEF Clean, Chained
  <2>3. i \in DOMAIN d /\ d[i] = c[i] /\ d[j] = c[j]
    BY <1>3, <2>2 DEF Continued
  <2>4. \A k \in DOMAIN d : i < k /\ k < j => d[k] = ZeroByte
    BY <1>3, <2>2 DEF Continued
  <2>5. Continued(d, i, j)
    BY <2>2, <2>3, <2>4 DEF Continued
  <2>6. QED BY <2>3, <2>5
<1>8. Aligned(d, recs)
  BY <1>3 DEF Clean, Aligned
<1>9. Trailers(c) => Trailers(d)
  BY <1>3 DEF Trailers
<1>10. QED BY <1>1, <1>4, <1>5, <1>6, <1>7, <1>8, <1>9 DEF Clean

\* The first record finds an empty file.
LEMMA FileInit == Init => FileInv
<1> SUFFICES ASSUME Init PROVE FileInv
  OBVIOUS
<1>1. file = <<>> /\ synced = 0 /\ offset = 0 /\ phase = "writing" /\ added = <<>> /\ placed = TRUE
  BY DEF Init
<1>2. BlockSize \in Nat
  BY LogAssumption
<1>3. PICK c : c = <<>> /\ c \in Seq(Byte) /\ Len(c) = 0 /\ DOMAIN c = {}
  <2>1. <<>> \in Seq(Byte) /\ Len(<<>>) = 0
    OBVIOUS
  <2>2. DOMAIN <<>> = 1 .. 0
    BY <2>1, LenProperties
  <2>3. 1 .. 0 = {}
    OBVIOUS
  <2>4. QED BY <2>1, <2>2, <2>3, Zenon
<1>4. Clean(c, added) /\ Trailers(c)
  BY <1>3 DEF Clean, Typed, Whole1, Ordered, Chained, Aligned, Trailers
<1>5. Damaged(file, c, phase)
  BY <1>1, <1>3 DEF Damaged
<1>6. Laid(file, phase, added, placed)
  BY <1>4, <1>5 DEF Laid
<1>7. PlacedFirst(added, placed)
  BY <1>1 DEF PlacedFirst
<1>8. InPlace(file, offset, phase, placed)
  BY <1>1, <1>3 DEF InPlace
<1>9. added \in Recs /\ file \in Seq(Byte) /\ synced \in 0 .. Len(file) /\ offset \in 0 .. BlockSize
  BY <1>1, <1>2, <1>3 DEF Recs
<1>10. QED BY <1>1, <1>6, <1>7, <1>8, <1>9 DEF FileInv, FileInvOf

\* What AddRecord finds, whether it fails or not.
LEMMA BeforeRecord ==
  ASSUME FileInv, NEW ok \in BOOLEAN, NEW len \in Lengths, Record(ok, len),
         NEW r, r = Len(added) + 1, NEW recs, recs = added'
  PROVE  /\ recs \in Recs /\ r \in Nat \ {0} /\ r \in DOMAIN recs /\ recs[r].len = len /\ len \in Nat
         /\ (recs[r].placed <=> placed) /\ recs[r].len \in Nat
         /\ file \in Seq(Byte) /\ offset \in 0 .. BlockSize
         /\ Clean(file, recs) /\ Ready(file, r, 0, TRUE) /\ (recs[r].placed => Abut(file, offset))
         /\ AreTurns(Turns(r, len, offset), r, recs[r].len, offset)
         /\ PlacedFirst(recs, placed) /\ PlacedFirst(recs, FALSE)
         /\ phase = "writing"
<1>1. /\ file \in Seq(Byte) /\ offset \in 0 .. BlockSize /\ added \in Recs /\ placed \in BOOLEAN
      /\ Laid(file, phase, added, placed) /\ PlacedFirst(added, placed) /\ InPlace(file, offset, phase, placed)
  BY DEF FileInv, FileInvOf
<1>2. phase = "writing" /\ len \in Nat
  BY LogAssumption DEF Record
<1>3. PICK x \in [len : Nat, ok : BOOLEAN, placed : BOOLEAN] :
        x = [len |-> len, ok |-> ok, placed |-> placed] /\ x.len = len /\ (x.placed <=> placed)
  <2>1. [len |-> len, ok |-> ok, placed |-> placed] \in [len : Nat, ok : BOOLEAN, placed : BOOLEAN]
    BY <1>1, <1>2
  <2>2. QED BY <2>1
<1>4. recs = Append(added, x)
  BY <1>3 DEF Record
<1>5. /\ recs \in Recs /\ r \in Nat \ {0} /\ r \in DOMAIN recs /\ recs[r] = x /\ DOMAIN recs = DOMAIN added \cup {r}
      /\ \A q \in DOMAIN added : recs[q] = added[q] /\ q < r /\ q \in Nat
  BY <1>1, <1>4 DEF Recs
<1>6. Clean(file, added) /\ (placed => Trailers(file))
  <2>1. PICK c : Damaged(file, c, phase) /\ Clean(c, added) /\ (placed => Trailers(c))
    BY <1>1 DEF Laid
  <2>2. file = c
    BY <1>2, <2>1 DEF Damaged
  <2>3. QED BY <2>1, <2>2
<1>7. Clean(file, recs) /\ \A i \in DOMAIN file : Real(file[i]) => file[i].frag.rec \in DOMAIN added
  BY <1>1, <1>4, <1>6, MoreRecords
<1>8. Ready(file, r, 0, TRUE)
  <2>1. \A i \in DOMAIN file : Real(file[i]) => file[i].frag.rec < r /\ file[i].frag.rec <= r
    BY <1>5, <1>7
  <2>2. QED BY <2>1 DEF Ready
<1>9. recs[r].placed => Abut(file, offset)
  BY <1>1, <1>2, <1>3, <1>5, <1>6 DEF Abut, InPlace
<1>10. AreTurns(Turns(r, len, offset), r, recs[r].len, offset)
  <2>1. AreTurns(Turns(r, len, offset), r, len, offset)
    BY <1>1, <1>2, <1>5, TurnsFacts
  <2>2. QED BY <1>3, <1>5, <2>1
<1>11. PlacedFirst(recs, placed)
  <2>1. \A q \in DOMAIN recs : placed => recs[q].placed
    BY <1>1, <1>3, <1>5 DEF PlacedFirst
  <2>2. ASSUME NEW q \in DOMAIN recs, NEW t \in DOMAIN recs, q < t, recs[t].placed PROVE recs[q].placed
    <3>1. CASE t = r
      BY <1>3, <1>5, <2>1, <2>2, <3>1
    <3>2. CASE t # r
      <4>1. t \in DOMAIN added /\ q \in DOMAIN added
        <5>1. t \in DOMAIN added /\ t < r /\ t \in Nat
          BY <1>5, <3>2
        <5>2. q # r
          BY <1>5, <2>2, <5>1
        <5>3. QED BY <1>5, <5>1, <5>2
      <4>2. QED BY <1>1, <1>5, <2>2, <4>1 DEF PlacedFirst
    <3>3. QED BY <3>1, <3>2
  <2>3. QED BY <2>1, <2>2 DEF PlacedFirst
<1>12. PlacedFirst(recs, FALSE)
  BY <1>11 DEF PlacedFirst
<1>13. recs[r].len = len /\ (recs[r].placed <=> placed) /\ recs[r].len \in Nat
  BY <1>3, <1>5
<1>14. QED BY <1>1, <1>2, <1>5, <1>7, <1>8, <1>9, <1>10, <1>11, <1>12, <1>13

\* AddRecord leaves a file that is laid out like the one it found.
LEMMA FileAdd ==
  ASSUME FileInv, NEW len \in Lengths, AddRecord(len)
  PROVE  FileInv'
<1>1. PICK r, recs : r = Len(added) + 1 /\ recs = added'
  OBVIOUS
<1>2. PICK ts : ts = Turns(r, len, offset)
  OBVIOUS
<1>3. /\ Record(TRUE, len) /\ file' = file \o AllBytes(ts) /\ offset' = Last(ts).end
      /\ synced' = synced /\ phase' = phase /\ placed' = placed
  BY <1>1, <1>2 DEF AddRecord
<1>4. /\ recs \in Recs /\ r \in Nat \ {0} /\ r \in DOMAIN recs
      /\ (recs[r].placed <=> placed) /\ recs[r].len \in Nat
      /\ file \in Seq(Byte) /\ offset \in 0 .. BlockSize
      /\ Clean(file, recs) /\ Ready(file, r, 0, TRUE) /\ (recs[r].placed => Abut(file, offset))
      /\ AreTurns(ts, r, recs[r].len, offset)
      /\ PlacedFirst(recs, placed)
      /\ phase = "writing"
  <2>1. PICK ok \in BOOLEAN : ok = TRUE /\ Record(ok, len)
    BY <1>3
  <2>2. QED BY <1>1, <1>2, <2>1, BeforeRecord
<1>5. ts \in Seq(TurnSet) /\ Len(ts) \in Nat /\ Len(ts) >= 1 /\ ts[Len(ts)] \in TurnSet
  BY <1>4, ElementOfSeq DEF AreTurns
<1>6. PICK k \in 0 .. Len(ts) : k = Len(ts) /\ k # 0
  BY <1>5
<1>7. /\ After(file, ts, k) \in Seq(Byte) /\ Clean(After(file, ts, k), recs)
      /\ recs[r].placed => Abut(After(file, ts, k), IF k = 0 THEN offset ELSE ts[k].end)
  BY ONLY <1>4, k \in 0 .. Len(ts), RecordKeeps
<1>8. After(file, ts, k) = file'
  <2>1. SubSeq(ts, 1, k) = ts
    BY <1>5, <1>6, SubSeqFull
  <2>2. QED BY <1>3, <2>1 DEF After
<1>9. file' \in Seq(Byte) /\ Clean(file', recs) /\ (recs[r].placed => Abut(file', offset'))
  BY <1>3, <1>6, <1>7, <1>8 DEF Last
<1>10. offset' \in 0 .. BlockSize
  BY <1>3, <1>5 DEF Last, TurnSet
<1>11. synced' \in 0 .. Len(file')
  <2>1. synced \in 0 .. Len(file) /\ Len(file) \in Nat /\ Len(file') \in Nat
    BY <1>4, <1>9 DEF FileInv, FileInvOf
  <2>2. Len(file) <= Len(file')
    <3>1. AllBytes(ts) \in Seq(Byte)
      <4>1. \A i \in 1 .. Len(ts) : TurnBytes(ts[i]) \in Seq(Byte)
        <5>1. SUFFICES ASSUME NEW i \in 1 .. Len(ts) PROVE TurnBytes(ts[i]) \in Seq(Byte)
          OBVIOUS
        <5>2. IsTurn(ts[i], r, recs[r].len, From(ts, i), Off(ts, i, offset), i = 1)
          BY <1>4 DEF AreTurns
        <5>3. Off(ts, i, offset) \in 0 .. BlockSize
          <6>1. CASE i = 1
            BY <1>4, <6>1 DEF Off
          <6>2. CASE i # 1
            <7>1. i - 1 \in 1 .. Len(ts)
              BY <1>5, <6>2
            <7>2. ts[i - 1] \in TurnSet
              BY <1>5, <7>1, ElementOfSeq
            <7>3. QED BY <6>2, <7>2 DEF Off, TurnSet
          <6>3. QED BY <6>1, <6>2
        <5>4. QED BY <5>2, <5>3, TurnBytesFacts DEF BytesOf
      <4>2. AllBytes(SubSeq(ts, 1, k)) \in Seq(Byte)
        BY ONLY <1>5, <4>1, k \in 0 .. Len(ts), AllBytesStep
      <4>3. SubSeq(ts, 1, k) = ts
        BY <1>5, <1>6, SubSeqFull
      <4>4. QED BY <4>2, <4>3
    <3>2. Len(file') = Len(file) + Len(AllBytes(ts)) /\ Len(AllBytes(ts)) \in Nat
      BY <1>3, <1>4, <3>1, ConcatProperties
    <3>3. QED BY <2>1, <3>2
  <2>3. QED BY <1>3, <2>1, <2>2
<1>12. Laid(file', phase', recs, placed')
  <2>1. Damaged(file', file', phase')
    <3>1. \A i \in 1 .. Len(file') : file'[i] # BadByte
      <4>1. DOMAIN file' = 1 .. Len(file') /\ Typed(file', recs)
        BY <1>9 DEF Clean
      <4>2. QED BY <4>1, NoBadInside
    <3>2. QED BY <1>9, <3>1 DEF Damaged
  <2>2. placed' => Trailers(file')
    BY <1>3, <1>4, <1>9 DEF Abut
  <2>3. QED BY <1>9, <2>1, <2>2 DEF Laid
<1>13. InPlace(file', offset', phase', placed')
  BY <1>3, <1>4, <1>9 DEF InPlace, Abut
<1>14. FileInvOf(file', synced', offset', phase', added', placed')
  <2>1. placed \in BOOLEAN
    BY DEF FileInv, FileInvOf
  <2>2. QED BY <1>1, <1>3, <1>4, <1>9, <1>10, <1>11, <1>12, <1>13, <2>1 DEF FileInvOf
<1>15. QED BY ONLY <1>14 DEF FileInv, FileInvOf, Laid, Damaged, InPlace

\* An append that fails leaves a part of what it would have written.
LEMMA FileFails ==
  ASSUME FileInv, NEW len \in Lengths, AddRecordFails(len)
  PROVE  FileInv'
<1>1. PICK r, recs : r = Len(added) + 1 /\ recs = added'
  OBVIOUS
<1>2. PICK ts : ts = Turns(r, len, offset)
  OBVIOUS
<1>3. /\ Record(FALSE, len) /\ synced' = synced /\ phase' = phase /\ placed' = FALSE
      /\ \E k \in DOMAIN ts : \E n \in 0 .. Len(TurnBytes(ts[k])) - 1 :
           /\ file' = file \o AllBytes(SubSeq(ts, 1, k - 1)) \o SubSeq(TurnBytes(ts[k]), 1, n)
           /\ offset' = ts[k].end
  BY <1>1, <1>2 DEF AddRecordFails
<1>4. /\ recs \in Recs /\ r \in Nat \ {0} /\ r \in DOMAIN recs /\ recs[r].len \in Nat
      /\ file \in Seq(Byte) /\ offset \in 0 .. BlockSize
      /\ Clean(file, recs) /\ Ready(file, r, 0, TRUE) /\ (recs[r].placed => Abut(file, offset))
      /\ AreTurns(ts, r, recs[r].len, offset)
      /\ PlacedFirst(recs, FALSE)
      /\ phase = "writing"
  <2>1. PICK ok \in BOOLEAN : ok = FALSE /\ Record(ok, len)
    BY <1>3
  <2>2. QED BY <1>1, <1>2, <2>1, BeforeRecord
<1>5. /\ ts \in Seq(TurnSet) /\ Len(ts) \in Nat /\ Len(ts) >= 1 /\ DOMAIN ts = 1 .. Len(ts)
      /\ \A i \in 1 .. Len(ts) : ts[i] \in TurnSet
      /\ \A i \in 1 .. Len(ts) : IsTurn(ts[i], r, recs[r].len, From(ts, i), Off(ts, i, offset), i = 1)
  BY <1>4, ElementOfSeq DEF AreTurns
<1>5a. PICK k \in 1 .. Len(ts) : \E n \in 0 .. Len(TurnBytes(ts[k])) - 1 :
        /\ file' = file \o AllBytes(SubSeq(ts, 1, k - 1)) \o SubSeq(TurnBytes(ts[k]), 1, n)
        /\ offset' = ts[k].end
  BY <1>3, <1>5
<1>6. PICK n \in 0 .. Len(TurnBytes(ts[k])) - 1 :
        /\ file' = file \o AllBytes(SubSeq(ts, 1, k - 1)) \o SubSeq(TurnBytes(ts[k]), 1, n)
        /\ offset' = ts[k].end
  BY <1>5a
<1>7. PICK p \in 0 .. Len(ts) : p = k - 1 /\ p < Len(ts) /\ p + 1 = k
  BY <1>5
<1>8. PICK a : a = After(file, ts, p)
  OBVIOUS
<1>9. /\ After(file, ts, p) \in Seq(Byte) /\ Clean(After(file, ts, p), recs)
      /\ recs[r].placed => Abut(After(file, ts, p), IF p = 0 THEN offset ELSE ts[p].end)
      /\ p < Len(ts) => Ready(After(file, ts, p), r, From(ts, p + 1), p = 0)
      /\ p < Len(ts) => From(ts, p + 1) \in Nat /\ Off(ts, p + 1, offset) \in 0 .. BlockSize
  BY ONLY <1>4, p \in 0 .. Len(ts), RecordKeeps
<1>10. PICK t : t = ts[k]
  OBVIOUS
<1>11. PICK from \in Nat : from = From(ts, k)
  BY <1>7, <1>9
<1>12. PICK o \in 0 .. BlockSize : o = Off(ts, k, offset)
  BY <1>7, <1>9
<1>13. PICK begin \in BOOLEAN : begin <=> k = 1
  <2>1. (k = 1) \in BOOLEAN
    OBVIOUS
  <2>2. QED BY <2>1, Zenon
<1>14. IsTurn(t, r, recs[r].len, from, o, begin)
  <2>1. IsTurn(t, r, recs[r].len, from, o, k = 1)
    BY <1>5, <1>10, <1>11, <1>12
  <2>2. QED BY <1>13, <2>1 DEF IsTurn
<1>15. Ready(a, r, from, begin) /\ (recs[r].placed => Abut(a, o)) /\ a \in Seq(Byte) /\ Clean(a, recs)
  <2>1. Ready(a, r, from, p = 0)
    BY <1>7, <1>8, <1>9, <1>11
  <2>2. p = 0 <=> k = 1
    BY <1>5, <1>7
  <2>3. Ready(a, r, from, begin)
    BY <1>13, <2>1, <2>2 DEF Ready
  <2>4. o = IF p = 0 THEN offset ELSE ts[p].end
    BY <1>7, <1>12, <2>2 DEF Off
  <2>5. QED BY <1>8, <1>9, <2>3, <2>4
<1>16. TurnBytes(t) \in Seq(Byte)
  BY <1>14, TurnBytesFacts DEF BytesOf
<1>17. PICK m \in 0 .. Len(TurnBytes(t)) : m = n
  <2>1. Len(TurnBytes(t)) \in Nat
    BY <1>16
  <2>2. n \in 0 .. Len(TurnBytes(t))
    BY <1>10, <2>1
  <2>3. QED BY <2>2
<1>18. PICK d : d = a \o SubSeq(TurnBytes(t), 1, m)
  OBVIOUS
<1>19. Behind(d, recs, r, t, from, m)
  BY ONLY <1>4, <1>14, <1>15, from \in Nat, o \in 0 .. BlockSize, begin \in BOOLEAN, m \in 0 .. Len(TurnBytes(t)), <1>18, TurnKeeps
<1>20. file' = d
  BY <1>6, <1>7, <1>8, <1>10, <1>17, <1>18 DEF After
<1>21. file' \in Seq(Byte) /\ Clean(file', recs)
  BY <1>19, <1>20 DEF Behind
<1>22. offset' \in 0 .. BlockSize
  BY <1>5, <1>6 DEF TurnSet
<1>23. synced' \in 0 .. Len(file')
  <2>1. synced \in 0 .. Len(file) /\ Len(file) \in Nat
    BY <1>4 DEF FileInv, FileInvOf
  <2>2. \A i \in 1 .. Len(ts) : TurnBytes(ts[i]) \in Seq(Byte)
    <3>1. SUFFICES ASSUME NEW i \in 1 .. Len(ts) PROVE TurnBytes(ts[i]) \in Seq(Byte)
      OBVIOUS
    <3>2. IsTurn(ts[i], r, recs[r].len, From(ts, i), Off(ts, i, offset), i = 1)
      BY <1>5
    <3>3. Off(ts, i, offset) \in 0 .. BlockSize
      <4>1. CASE i = 1
        BY <1>4, <4>1 DEF Off
      <4>2. CASE i # 1
        <5>1. i - 1 \in 1 .. Len(ts)
          BY <1>5, <4>2
        <5>2. QED BY <1>5, <4>2, <5>1 DEF Off, TurnSet
      <4>3. QED BY <4>1, <4>2
    <3>4. QED BY <3>2, <3>3, TurnBytesFacts DEF BytesOf
  <2>3. AllBytes(SubSeq(ts, 1, p)) \in Seq(Byte)
    BY ONLY <1>5, <2>2, p \in 0 .. Len(ts), AllBytesStep
  <2>4. PICK x \in Seq(Byte), y \in Seq(Byte) : x = AllBytes(SubSeq(ts, 1, p)) /\ y = SubSeq(TurnBytes(t), 1, m)
    <3>1. SubSeq(TurnBytes(t), 1, m) \in Seq(Byte)
      <4>1. \A i \in 1 .. m : TurnBytes(t)[i] \in Byte
        BY <1>16, ElementOfSeq
      <4>2. m \in Int
        BY <1>16
      <4>3. QED BY <4>1, <4>2, SubSeqProperties
    <3>2. QED BY <2>3, <3>1
  <2>5. file' = (file \o x) \o y
    BY <1>8, <1>18, <1>20, <2>4 DEF After
  <2>6. file \o x \in Seq(Byte) /\ Len(file \o x) = Len(file) + Len(x) /\ Len(x) \in Nat
    BY <1>4, ConcatProperties
  <2>7. Len(file') = Len(file \o x) + Len(y) /\ Len(y) \in Nat
    BY <2>5, <2>6, ConcatProperties
  <2>8. QED BY <1>3, <2>1, <2>6, <2>7
<1>24. Laid(file', phase', recs, placed')
  <2>1. Damaged(file', file', phase')
    <3>1. \A i \in 1 .. Len(file') : file'[i] # BadByte
      <4>1. DOMAIN file' = 1 .. Len(file') /\ Typed(file', recs)
        BY <1>21 DEF Clean
      <4>2. QED BY <4>1, NoBadInside
    <3>2. QED BY <1>21, <3>1 DEF Damaged
  <2>2. QED BY <1>3, <1>21, <2>1 DEF Laid
<1>25. InPlace(file', offset', phase', placed')
  BY <1>3 DEF InPlace
<1>26. FileInvOf(file', synced', offset', phase', added', placed')
  BY <1>1, <1>3, <1>4, <1>21, <1>22, <1>23, <1>24, <1>25 DEF FileInvOf
<1>27. QED BY ONLY <1>26 DEF FileInv, FileInvOf, Laid, Damaged, InPlace

\* The steps that append nothing.
LEMMA FileOther ==
  ASSUME FileInv, Sync \/ Crash \/ Reuse \/ Corrupt \/ UNCHANGED vars
  PROVE  FileInv'
<1>1. /\ file \in Seq(Byte) /\ synced \in 0 .. Len(file) /\ offset \in 0 .. BlockSize
      /\ phase \in {"writing", "closed"} /\ added \in Recs /\ placed \in BOOLEAN
      /\ Laid(file, phase, added, placed) /\ PlacedFirst(added, placed) /\ InPlace(file, offset, phase, placed)
  BY DEF FileInv, FileInvOf
<1>2. PICK c : Damaged(file, c, phase) /\ Clean(c, added) /\ (placed => Trailers(c))
  BY <1>1 DEF Laid
<1>3. Len(file) \in Nat /\ c \in Seq(Byte) /\ Len(c) = Len(file) /\ DOMAIN c = 1 .. Len(file) /\ DOMAIN file = 1 .. Len(file)
  BY <1>1, <1>2 DEF Damaged
<1>4. BlockSize \in Nat /\ BlockSize > 0
  BY LogAssumption
<1>5. CASE Sync
  <2>1. /\ synced' = Len(file) /\ file' = file /\ offset' = offset /\ phase' = phase /\ added' = added /\ placed' = placed
    BY <1>5 DEF Sync
  <2>2. FileInvOf(file', synced', offset', phase', added', placed')
    BY <1>1, <1>3, <2>1 DEF FileInvOf
  <2>3. QED BY ONLY <2>2 DEF FileInv, FileInvOf, Laid, Damaged, InPlace
<1>6. CASE UNCHANGED vars
  <2>1. /\ synced' = synced /\ file' = file /\ offset' = offset /\ phase' = phase /\ added' = added /\ placed' = placed
    BY <1>6 DEF vars
  <2>2. FileInvOf(file', synced', offset', phase', added', placed')
    BY <1>1, <2>1 DEF FileInvOf
  <2>3. QED BY ONLY <2>2 DEF FileInv, FileInvOf, Laid, Damaged, InPlace
<1>7. CASE Crash
  <2>1. PICK n \in synced .. Len(file) : file' = SubSeq(file, 1, n) /\ synced' = n
    BY <1>7 DEF Crash
  <2>2. phase = "writing" /\ phase' = "closed" /\ offset' = offset /\ added' = added /\ placed' = placed
    BY <1>7 DEF Crash
  <2>3. file = c
    BY <1>2, <2>2 DEF Damaged
  <2>4. PICK k \in 0 .. Len(file) : k = n
    BY <1>1, <1>3
  <2>5. PICK d : d = SubSeq(file, 1, k)
    OBVIOUS
  <2>5a. Clean(file, added)
    BY <1>2, <2>3
  <2>6. /\ d \in Seq(Byte) /\ Len(d) = k /\ Clean(d, added) /\ (Trailers(file) => Trailers(d))
    BY ONLY <1>1, <2>5a, <2>5, k \in 0 .. Len(file), PrefixKeeps
  <2>7. file' = d
    BY <2>1, <2>4, <2>5
  <2>8. Damaged(d, d, phase')
    <3>1. \A i \in 1 .. Len(d) : d[i] # BadByte
      <4>1. DOMAIN d = 1 .. Len(d) /\ Typed(d, added)
        BY <2>6 DEF Clean
      <4>2. QED BY <4>1, NoBadInside
    <3>2. QED BY <2>6, <3>1 DEF Damaged
  <2>9. Laid(file', phase', added', placed')
    BY <1>2, <2>2, <2>3, <2>6, <2>7, <2>8 DEF Laid
  <2>10. synced' \in 0 .. Len(file')
    BY <1>3, <2>1, <2>4, <2>6, <2>7
  <2>11. InPlace(file', offset', phase', placed')
    BY <2>2 DEF InPlace
  <2>12. FileInvOf(file', synced', offset', phase', added', placed')
    BY <1>1, <2>2, <2>6, <2>7, <2>9, <2>10, <2>11 DEF FileInvOf
  <2>13. QED BY ONLY <2>12 DEF FileInv, FileInvOf, Laid, Damaged, InPlace
<1>8. CASE Reuse
  <2>1. /\ phase = "closed" /\ (\A i \in DOMAIN file : file[i] # BadByte)
        /\ phase' = "writing" /\ offset' = Len(file) % BlockSize
        /\ placed' = (placed /\ EndsWithFragment)
        /\ file' = file /\ synced' = synced /\ added' = added
    BY <1>8 DEF Reuse
  <2>2. file = c
    BY <1>1, <1>2, <2>1, NotDamaged
  <2>3. placed' \in BOOLEAN /\ (placed' => placed /\ EndsWithFragment)
    BY <1>1, <2>1
  <2>4. offset' \in 0 .. BlockSize /\ offset' < BlockSize
    BY <1>3, <1>4, <2>1, DivMod
  <2>5. Damaged(file', c, phase')
    BY <1>2, <2>1, <2>2 DEF Damaged
  <2>6. Laid(file', phase', added', placed')
    BY <1>2, <2>1, <2>3, <2>5 DEF Laid
  <2>7. PlacedFirst(added', placed')
    BY <1>1, <2>1, <2>3 DEF PlacedFirst
  <2>8. InPlace(file', offset', phase', placed')
    <3>1. SUFFICES ASSUME placed'
          PROVE  /\ Len(file) % BlockSize = offset' % BlockSize
                 /\ Len(file) = 0 \/ file[Len(file)] = ZeroByte \/ Closes(file[Len(file)])
      BY <2>1 DEF InPlace
    <3>2. PICK o \in Nat : o = offset' /\ o < BlockSize
      BY <1>4, <2>4
    <3>3. o % BlockSize = o
      <4>1. PICK z \in Nat : z = 0
        OBVIOUS
      <4>2. Base(z) <= z /\ Base(z) \in Nat /\ Base(z) % BlockSize = 0
        BY ONLY z \in Nat, BaseFacts
      <4>3. z % BlockSize = 0
        BY <4>1, <4>2
      <4>4. z <= o /\ o < z + BlockSize
        BY <1>4, <3>2, <4>1
      <4>5. o % BlockSize = o - z
        BY ONLY <4>3, <4>4, z \in Nat, o \in Nat, SameBlock
      <4>6. QED BY <4>1, <4>5
    <3>4. file = <<>> \/ Last(file) = ZeroByte \/ Last(file).at = HeaderSize + Last(file).frag.len
      BY <2>3, <3>1 DEF EndsWithFragment
    <3>5. Len(file) = 0 \/ file[Len(file)] = ZeroByte \/ Closes(file[Len(file)])
      <4>1. SUFFICES ASSUME Len(file) # 0, file[Len(file)] # ZeroByte PROVE Closes(file[Len(file)])
        OBVIOUS
      <4>2. Len(file) \in DOMAIN c /\ file # <<>>
        BY <1>3, <4>1
      <4>3. IsFrag(file[Len(file)].frag, added)
        BY <1>2, <2>2, <4>1, <4>2 DEF Clean, Typed
      <4>4. Real(file[Len(file)])
        <5>1. 0 \notin DOMAIN added
          BY <1>1 DEF Recs
        <5>2. QED BY <4>3, <5>1 DEF Real, IsFrag
      <4>5. QED BY <3>4, <4>1, <4>2, <4>4 DEF Closes, Size, Last
    <3>6. QED BY <2>1, <3>2, <3>3, <3>5
  <2>9. FileInvOf(file', synced', offset', phase', added', placed')
    BY <1>1, <2>1, <2>3, <2>4, <2>6, <2>7, <2>8 DEF FileInvOf
  <2>10. QED BY ONLY <2>9 DEF FileInv, FileInvOf, Laid, Damaged, InPlace
<1>9. CASE Corrupt
  <2>1. /\ phase = "closed" /\ (\A i \in DOMAIN file : file[i] # BadByte)
        /\ synced' = synced /\ offset' = offset /\ phase' = phase /\ added' = added /\ placed' = placed
    BY <1>9 DEF Corrupt
  <2>2. PICK b \in DOMAIN file : file' = [file EXCEPT ![b] = BadByte]
    BY <1>9 DEF Corrupt
  <2>3. file = c
    BY <1>1, <1>2, <2>1, NotDamaged
  <2>4. file' \in Seq(Byte) /\ Len(file') = Len(file) /\ \A i \in 1 .. Len(file) : file'[i] = IF i = b THEN BadByte ELSE file[i]
    BY <1>1, <1>3, <2>2, BadFacts, ExceptSeq
  <2>5. Damaged(file', c, phase')
    BY <1>3, <2>1, <2>3, <2>4 DEF Damaged
  <2>6. Laid(file', phase', added', placed')
    BY <1>2, <2>1, <2>5 DEF Laid
  <2>7. InPlace(file', offset', phase', placed')
    BY <2>1 DEF InPlace
  <2>8. FileInvOf(file', synced', offset', phase', added', placed')
    BY <1>1, <2>1, <2>4, <2>6, <2>7 DEF FileInvOf
  <2>9. QED BY ONLY <2>8 DEF FileInv, FileInvOf, Laid, Damaged, InPlace
<1>10. QED BY <1>5, <1>6, <1>7, <1>8, <1>9

\* The layout of the file is an invariant.
LEMMA FileLaid == Spec => []FileInv
<1>1. FileInv /\ [Next]_vars => FileInv'
  BY FileAdd, FileFails, FileOther DEF Next
<1>2. QED BY <1>1, FileInit, PTL DEF Spec

\* The type invariant: what is durable is in the file, and block_offset_ is a
\* place in a block, whatever appends fail.
THEOREM LogTypes == Spec => []TypeOK
<1>1. FileInv => TypeOK
  BY DEF FileInv, FileInvOf, TypeOK
<1>2. QED BY <1>1, FileLaid, PTL

-----------------------------------------------------------------------------
(* The reader's buffer.                                                      *)

RS == [at : Nat, upTo : Nat, eof : BOOLEAN, resyncing : BOOLEAN, partial : BOOLEAN,
       scratch : Seq(Frags), out : Seq(Seq(Frags)), reports : Nat, done : BOOLEAN]

\* The buffer is the rest of the block that starts at b, or nothing.
Buffer(rs, b) ==
  /\ b \in Nat /\ b % BlockSize = 0 /\ b <= rs.at /\ rs.at <= rs.upTo /\ rs.upTo <= b + BlockSize
  /\ rs.eof => rs.upTo < b + BlockSize /\ rs.upTo >= Len(file)
  /\ ~rs.eof => rs.upTo = b + BlockSize \/ (rs.at = b /\ rs.upTo = b)
  /\ rs.upTo <= Len(file) \/ rs.upTo = rs.at

\* The buffer holds a header, or the file has no more.
FullBuffer(rs, b) ==
  /\ b \in Nat /\ b % BlockSize = 0 /\ b <= rs.at /\ rs.at <= rs.upTo /\ rs.upTo <= b + BlockSize
  /\ rs.eof => rs.upTo < b + BlockSize /\ rs.upTo >= Len(file)
  /\ ~rs.eof => rs.upTo = b + BlockSize /\ rs.upTo - rs.at >= HeaderSize
  /\ rs.upTo <= Len(file) \/ rs.upTo = rs.at

\* The buffer ReadPhysicalRecord looks at.
Full(rs) == IF rs.upTo - rs.at < HeaderSize /\ ~rs.eof THEN Refilled(rs) ELSE rs

\* Reader states that differ in their buffers only.
SameBut(rs, fs) ==
  /\ fs.resyncing = rs.resyncing /\ fs.partial = rs.partial /\ fs.scratch = rs.scratch /\ fs.out = rs.out
  /\ fs.reports = rs.reports /\ fs.done = rs.done

\* What of the file is read into an empty buffer.
LEMMA RefillFacts ==
  ASSUME file \in Seq(Byte), NEW u \in Nat, NEW n, n = Min({BlockSize, Max({0, Len(file) - u})})
  PROVE  /\ n \in Nat /\ n <= BlockSize
         /\ n < BlockSize => u + n >= Len(file)
         /\ u + n <= Len(file) \/ n = 0
<1>1. BlockSize \in Nat /\ Len(file) \in Nat
  BY LogAssumption
<1>2. PICK L \in Int : L = Len(file) - u
  BY <1>1
<1>3. PICK x : x = Max({0, L})
  OBVIOUS
<1>4. x \in {0, L} /\ x >= 0 /\ x >= L
  <2>1. \E y \in {0, L} : \A w \in {0, L} : y >= w
    <3>1. CASE L >= 0
      BY <3>1
    <3>2. CASE ~(L >= 0)
      BY <3>2
    <3>3. QED BY <3>1, <3>2
  <2>2. x \in {0, L} /\ \A w \in {0, L} : x >= w
    BY <1>3, <2>1 DEF Max
  <2>3. QED BY <2>2
<1>5. x \in Nat
  BY <1>4
<1>6. n = Min({BlockSize, x})
  BY <1>2, <1>3
<1>7. n \in {BlockSize, x} /\ n <= BlockSize /\ n <= x
  <2>1. {BlockSize, x} \subseteq Nat /\ {BlockSize, x} # {}
    BY <1>1, <1>5
  <2>2. n \in {BlockSize, x} /\ \A w \in {BlockSize, x} : n <= w
    BY <1>6, <2>1, MinOfNats
  <2>3. QED BY <2>2
<1>8. QED BY <1>1, <1>2, <1>4, <1>5, <1>7

\* After a refill the buffer is full.
LEMMA FullFacts ==
  ASSUME file \in Seq(Byte), NEW rs \in RS, NEW b, Buffer(rs, b)
  PROVE  /\ Full(rs) \in RS /\ SameBut(rs, Full(rs))
         /\ \E d : FullBuffer(Full(rs), d)
         /\ \/ Full(rs) = rs /\ (rs.upTo - rs.at >= HeaderSize \/ rs.eof)
            \/ Full(rs).at = rs.upTo /\ rs.upTo - rs.at < HeaderSize /\ ~rs.eof /\ rs.upTo % BlockSize = 0
         /\ Full(rs).at >= rs.at
<1>1. BlockSize \in Nat /\ HeaderSize \in Nat /\ BlockSize > HeaderSize /\ Len(file) \in Nat
  BY LogAssumption
<1>2. rs.at \in Nat /\ rs.upTo \in Nat /\ rs.eof \in BOOLEAN
  BY DEF RS
<1>3. CASE rs.upTo - rs.at < HeaderSize /\ ~rs.eof
  <2>1. PICK n : n = Min({BlockSize, Max({0, Len(file) - rs.upTo})})
    OBVIOUS
  <2>2. /\ n \in Nat /\ n <= BlockSize
        /\ n < BlockSize => rs.upTo + n >= Len(file)
        /\ rs.upTo + n <= Len(file) \/ n = 0
    BY <1>2, <2>1, RefillFacts
  <2>3. Full(rs) = [rs EXCEPT !.at = rs.upTo, !.upTo = rs.upTo + n, !.eof = n < BlockSize]
    BY <1>3, <2>1 DEF Full, Refilled
  <2>4. PICK fs : fs = Full(rs)
    OBVIOUS
  <2>5. /\ fs.at = rs.upTo /\ fs.upTo = rs.upTo + n /\ (fs.eof <=> n < BlockSize)
        /\ SameBut(rs, fs)
    BY <2>3, <2>4 DEF RS, SameBut
  <2>6. fs \in RS
    <3>1. rs.upTo + n \in Nat /\ (n < BlockSize) \in BOOLEAN
      BY <1>2, <2>2
    <3>2. QED BY <1>2, <2>3, <2>4, <3>1 DEF RS
  <2>7. rs.upTo % BlockSize = 0
    <3>1. b \in Nat /\ b % BlockSize = 0 /\ (rs.upTo = b + BlockSize \/ rs.upTo = b)
      BY <1>3 DEF Buffer
    <3>2. QED BY <3>1, BlockNext
  <2>8. FullBuffer(fs, rs.upTo)
    BY <1>1, <1>2, <2>2, <2>5, <2>7 DEF FullBuffer
  <2>9. fs.at >= rs.at
    BY <1>2, <2>5 DEF Buffer
  <2>10. QED BY <1>3, <2>4, <2>5, <2>6, <2>7, <2>8, <2>9
<1>4. CASE ~(rs.upTo - rs.at < HeaderSize /\ ~rs.eof)
  <2>1. Full(rs) = rs
    BY <1>4 DEF Full
  <2>2. rs.upTo - rs.at >= HeaderSize \/ rs.eof
    BY <1>1, <1>2, <1>4
  <2>3. FullBuffer(rs, b)
    <3>1. ~rs.eof => rs.upTo - rs.at >= HeaderSize /\ rs.upTo = b + BlockSize
      <4>1. SUFFICES ASSUME ~rs.eof PROVE rs.upTo - rs.at >= HeaderSize /\ rs.upTo = b + BlockSize
        OBVIOUS
      <4>2. rs.upTo - rs.at >= HeaderSize /\ HeaderSize > 1
        BY <2>2, <4>1, LogAssumption
      <4>3. ~(rs.at = b /\ rs.upTo = b)
        BY <1>1, <1>2, <4>2
      <4>4. QED BY <4>1, <4>2, <4>3 DEF Buffer
    <3>2. QED BY <3>1 DEF Buffer, FullBuffer
  <2>4. SameBut(rs, rs) /\ rs.at >= rs.at
    BY <1>2 DEF SameBut
  <2>5. QED BY <2>1, <2>2, <2>3, <2>4
<1>5. QED BY <1>3, <1>4

-----------------------------------------------------------------------------
(* A turn of the reader.                                                     *)

Head1(fs) == file[fs.at + 1].frag

\* The buffer starts with a fragment and holds all of it.
Took(fs) ==
  /\ fs.upTo - fs.at >= HeaderSize /\ Head1(fs).rec # 0 /\ Size(Head1(fs)) <= fs.upTo - fs.at
  /\ Reads(fs.at, Head1(fs), Size(Head1(fs)))

\* The file ends in a header, or in a fragment with a header that is right.
AtEnd(fs) ==
  \/ fs.upTo - fs.at < HeaderSize
  \/ /\ Head1(fs).rec # 0 /\ Reads(fs.at, Head1(fs), HeaderSize)
     /\ Size(Head1(fs)) > fs.upTo - fs.at /\ fs.eof

Past(fs) == [fs EXCEPT !.at = fs.at + Size(Head1(fs))]

\* What ReadPhysicalRecord gives back.
LEMMA ReadCases ==
  ASSUME file \in Seq(Byte), NEW rs \in RS, NEW b, Buffer(rs, b), NEW o \in Nat,
         NEW fs, fs = Full(rs), NEW p, p = ReadPhysicalRecord(rs, o)
  PROVE  /\ Took(fs) => ~AtEnd(fs)
         /\ Took(fs) => p.rs = Past(fs) /\ p.type = (IF fs.at < o THEN "bad" ELSE Head1(fs).type) /\ p.frag = Head1(fs)
         /\ AtEnd(fs) => p.rs = Cleared(fs) /\ p.type = "eof"
         /\ ~Took(fs) /\ ~AtEnd(fs) => /\ p.type = "bad" /\ p.rs \in {Cleared(fs), Reported(Cleared(fs))}
                                       /\ fs.upTo - fs.at >= HeaderSize
<1>1. HeaderSize \in Nat /\ HeaderSize > 1 /\ Len(file) \in Nat
  BY LogAssumption
<1>2. fs \in RS /\ \E d : FullBuffer(fs, d)
  BY FullFacts
<1>3. fs.at \in Nat /\ fs.upTo \in Nat
  BY <1>2 DEF RS
<1>4. CASE fs.upTo - fs.at < HeaderSize
  <2>1. p = Result(Cleared(fs), "eof", ZeroByte.frag)
    BY <1>4 DEF ReadPhysicalRecord, Full
  <2>2. p.rs = Cleared(fs) /\ p.type = "eof"
    BY <2>1 DEF Result
  <2>3. AtEnd(fs) /\ ~Took(fs)
    BY <1>1, <1>3, <1>4 DEF AtEnd, Took
  <2>4. QED BY <2>2, <2>3
<1>5. CASE ~(fs.upTo - fs.at < HeaderSize)
  <2>1. p = Parsed(fs, o)
    BY <1>5 DEF ReadPhysicalRecord, Full
  <2>2. fs.upTo - fs.at >= HeaderSize
    BY <1>1, <1>3, <1>5
  <2>3. fs.at + 1 \in 1 .. Len(file)
    <3>1. fs.upTo <= Len(file)
      BY <1>1, <1>2, <1>3, <2>2 DEF FullBuffer
    <3>2. QED BY <1>1, <1>3, <2>2, <3>1
  <2>4. PICK f : f = Head1(fs)
    OBVIOUS
  <2>5. f = file[fs.at + 1].frag /\ f.len \in Nat /\ Size(f) \in Nat /\ Size(f) = HeaderSize + f.len /\ HeaderSize <= Size(f)
    <3>1. file[fs.at + 1] \in Byte
      BY <2>3, ElementOfSeq
    <3>2. f = file[fs.at + 1].frag
      BY <2>4 DEF Head1
    <3>3. f.len \in Nat
      BY <3>1, <3>2 DEF Byte
    <3>4. QED BY <1>1, <3>2, <3>3 DEF Size
  <2>6. PICK valid \in BOOLEAN : valid <=> f.rec # 0 /\ Reads(fs.at, f, HeaderSize)
    <3>1. (f.rec # 0 /\ Reads(fs.at, f, HeaderSize)) \in BOOLEAN
      OBVIOUS
    <3>2. QED BY <3>1, Zenon
  <2>7. p = IF valid /\ Size(f) > fs.upTo - fs.at
            THEN IF fs.eof THEN Result(Cleared(fs), "eof", f) ELSE Result(Reported(Cleared(fs)), "bad", f)
            ELSE IF Bytes(fs.at, HeaderSize) = {ZeroByte} THEN Result(Cleared(fs), "bad", f)
            ELSE IF ~valid \/ ~Reads(fs.at, f, Size(f)) THEN Result(Reported(Cleared(fs)), "bad", f)
            ELSE Result([fs EXCEPT !.at = @ + Size(f)], IF fs.at < o THEN "bad" ELSE f.type, f)
    BY <2>1, <2>5, <2>6 DEF Parsed, Size
  <2>8. Took(fs) <=> f.rec # 0 /\ Size(f) <= fs.upTo - fs.at /\ Reads(fs.at, f, Size(f))
    BY <2>2, <2>4 DEF Took
  <2>9. AtEnd(fs) <=> valid /\ Size(f) > fs.upTo - fs.at /\ fs.eof
    BY <1>5, <2>4, <2>6 DEF AtEnd
  <2>10. Took(fs) => ~AtEnd(fs)
    BY <1>3, <2>5, <2>8, <2>9
  <2>11. ASSUME Took(fs) PROVE p.rs = Past(fs) /\ p.type = (IF fs.at < o THEN "bad" ELSE f.type) /\ p.frag = f
    <3>1. Reads(fs.at, f, HeaderSize) /\ file[fs.at + 1] = [frag |-> f, at |-> 1]
      <4>1. \A i \in 1 .. Size(f) : file[fs.at + i] = [frag |-> f, at |-> i]
        BY <2>8, <2>11 DEF Reads
      <4>2. \A i \in 1 .. HeaderSize : i \in 1 .. Size(f)
        BY <1>1, <2>5
      <4>3. 1 \in 1 .. Size(f)
        BY <1>1, <2>5
      <4>4. QED BY <4>1, <4>2, <4>3 DEF Reads
    <3>2. valid /\ ~(Size(f) > fs.upTo - fs.at)
      BY <1>3, <2>5, <2>6, <2>8, <2>11, <3>1
    <3>3. Bytes(fs.at, HeaderSize) # {ZeroByte}
      <4>1. file[fs.at + 1] \in Bytes(fs.at, HeaderSize)
        BY <1>1 DEF Bytes
      <4>2. file[fs.at + 1].frag = f /\ f.rec # 0 /\ ZeroByte.frag.rec = 0
        BY <2>5, <2>8, <2>11 DEF ZeroByte, Fragment
      <4>3. QED BY <4>1, <4>2
    <3>4. p = Result([fs EXCEPT !.at = @ + Size(f)], IF fs.at < o THEN "bad" ELSE f.type, f)
      BY <2>7, <2>8, <2>11, <3>2, <3>3
    <3>5. [fs EXCEPT !.at = @ + Size(f)] = Past(fs)
      BY <2>4 DEF Past
    <3>6. QED BY <3>4, <3>5 DEF Result
  <2>12. ASSUME AtEnd(fs) PROVE p.rs = Cleared(fs) /\ p.type = "eof"
    BY <2>7, <2>9, <2>12 DEF Result
  <2>13. ASSUME ~Took(fs), ~AtEnd(fs) PROVE p.type = "bad" /\ p.rs \in {Cleared(fs), Reported(Cleared(fs))}
    <3>1. CASE valid /\ Size(f) > fs.upTo - fs.at
      BY <2>7, <2>9, <2>13, <3>1 DEF Result
    <3>2. CASE ~(valid /\ Size(f) > fs.upTo - fs.at)
      <4>1. ~valid \/ ~Reads(fs.at, f, Size(f))
        BY <1>3, <2>5, <2>6, <2>8, <2>13, <3>2
      <4>2. QED BY <2>7, <3>2, <4>1 DEF Result
    <3>3. QED BY <3>1, <3>2
  <2>14. QED BY <2>2, <2>4, <2>10, <2>11, <2>12, <2>13
<1>6. QED BY <1>4, <1>5

\* The state in which ReadRecord handles what it read.
Seen(p) == [p.rs EXCEPT !.resyncing = @ /\ p.type = "middle"]

\* Only `resyncing' depends on what was read.
LEMMA SeenFacts ==
  ASSUME NEW p, p.rs \in RS
  PROVE  /\ Seen(p) \in RS
         /\ Seen(p).at = p.rs.at /\ Seen(p).upTo = p.rs.upTo /\ Seen(p).eof = p.rs.eof
         /\ Seen(p).partial = p.rs.partial /\ Seen(p).scratch = p.rs.scratch /\ Seen(p).out = p.rs.out
         /\ Seen(p).reports = p.rs.reports /\ Seen(p).done = p.rs.done
         /\ Seen(p).resyncing <=> p.rs.resyncing /\ p.type = "middle"
<1>1. PICK x \in RS : x = p.rs
  OBVIOUS
<1>2. x.resyncing \in BOOLEAN
  BY DEF RS
<1>3. PICK v \in BOOLEAN : v <=> x.resyncing /\ p.type = "middle"
  <2>1. (x.resyncing /\ p.type = "middle") \in BOOLEAN
    OBVIOUS
  <2>2. QED BY <2>1, Zenon
<1>4. Seen(p) = [x EXCEPT !.resyncing = v]
  BY <1>1, <1>2, <1>3 DEF Seen
<1>5. [x EXCEPT !.resyncing = v] \in RS
  BY DEF RS
<1>6. QED BY <1>1, <1>3, <1>4, <1>5 DEF RS

\* A reader at the end of the file keeps what it has.
Kept(rs, next) ==
  /\ next.partial = rs.partial /\ next.scratch = rs.scratch /\ next.out = rs.out /\ next.reports = rs.reports

\* It gives up the record in progress.
Gave(rs, next) == next.out = rs.out /\ ~next.partial /\ next.done = rs.done /\ ~next.resyncing

\* It handles fragment f.
Handled(rs, next, f) ==
  /\ next.done = rs.done /\ (next.resyncing <=> rs.resyncing /\ f.type = "middle")
  /\ f.type = "full" => next.out = Append(rs.out, <<f>>) /\ ~next.partial
  /\ f.type = "first" => next.out = rs.out /\ next.partial /\ next.scratch = <<f>>
  /\ Begins(f) /\ ~rs.partial => next.reports = rs.reports
  /\ ~Begins(f) /\ rs.resyncing => Kept(rs, next)
  /\ ~Begins(f) /\ ~rs.resyncing /\ ~rs.partial => next.out = rs.out /\ ~next.partial
  /\ f.type = "middle" /\ ~rs.resyncing /\ rs.partial =>
       next.out = rs.out /\ next.partial /\ next.scratch = Append(rs.scratch, f) /\ next.reports = rs.reports
  /\ f.type = "last" /\ ~rs.resyncing /\ rs.partial =>
       next.out = Append(rs.out, Append(rs.scratch, f)) /\ ~next.partial /\ next.reports = rs.reports

\* A report changes the number of reports only.
LEMMA ReportedFacts ==
  ASSUME NEW x \in RS
  PROVE  /\ Reported(x) \in RS /\ Reported(x).at = x.at /\ Reported(x).upTo = x.upTo /\ Reported(x).eof = x.eof
         /\ Reported(x).partial = x.partial /\ Reported(x).scratch = x.scratch /\ Reported(x).out = x.out
         /\ Reported(x).resyncing = x.resyncing /\ Reported(x).done = x.done /\ Reported(x).reports = x.reports + 1
<1>1. PICK n \in Nat : n = x.reports + 1
  BY DEF RS
<1>2. Reported(x) = [x EXCEPT !.reports = n]
  BY <1>1 DEF Reported
<1>3. [x EXCEPT !.reports = n] \in RS
  BY DEF RS
<1>4. QED BY <1>1, <1>2, <1>3 DEF RS

\* What a turn does.
LEMMA TurnedFacts ==
  ASSUME NEW rs \in RS, NEW o, NEW p, p = ReadPhysicalRecord(rs, o), NEW x \in RS, x = p.rs, NEW next, next = ReaderStep(rs, o),
         p.frag \in Frags \/ p.type \in {"bad", "eof"}, p.type \in {p.frag.type, "bad", "eof"}
  PROVE  /\ next \in RS /\ next.at = x.at /\ next.upTo = x.upTo /\ next.eof = x.eof
         /\ p.type = "eof" => next.done /\ Kept(x, next)
         /\ p.type = "bad" => Gave(x, next)
         /\ p.type \notin {"bad", "eof"} => Handled(x, next, p.frag)
<1>1. PICK q : q = Seen(p)
  OBVIOUS
<1>2. /\ q \in RS /\ q.at = x.at /\ q.upTo = x.upTo /\ q.eof = x.eof
      /\ q.partial = x.partial /\ q.scratch = x.scratch /\ q.out = x.out
      /\ q.reports = x.reports /\ q.done = x.done
      /\ q.resyncing <=> x.resyncing /\ p.type = "middle"
  BY <1>1, SeenFacts
<1>3. next = IF x.resyncing /\ p.type \in {"middle", "last"} THEN q
         ELSE CASE p.type = "full" -> Delivered(Begun(q), <<p.frag>>)
         [] p.type = "first"   -> [Begun(q) EXCEPT !.partial = TRUE, !.scratch = <<p.frag>>]
         [] p.type = "middle"  -> IF q.partial THEN [q EXCEPT !.scratch = Append(@, p.frag)] ELSE Reported(q)
         [] p.type = "last"    -> IF q.partial THEN Delivered(q, Append(q.scratch, p.frag)) ELSE Reported(q)
         [] p.type = "bad"     -> OnBad(q)
         [] p.type = "eof"     -> [q EXCEPT !.done = TRUE]
  BY <1>1 DEF ReaderStep, Seen
<1>4. q.reports \in Nat /\ q.scratch \in Seq(Frags) /\ q.out \in Seq(Seq(Frags)) /\ q.partial \in BOOLEAN
  BY <1>2 DEF RS
<1>5. PICK g : g = Begun(q)
  OBVIOUS
<1>6. /\ g \in RS /\ g.at = x.at /\ g.upTo = x.upTo /\ g.eof = x.eof /\ g.out = x.out /\ g.done = x.done
      /\ g.resyncing <=> x.resyncing /\ p.type = "middle"
      /\ ~x.partial => g.reports = x.reports
      /\ g.out \in Seq(Seq(Frags))
  <2>1. g = q \/ (g = Reported(q) /\ q.partial)
    BY <1>5 DEF Begun
  <2>2. CASE g = q
    BY <1>2, <1>4, <2>2
  <2>3. CASE g = Reported(q) /\ q.partial
    BY <1>2, <1>4, <2>3, ReportedFacts
  <2>4. QED BY <2>1, <2>2, <2>3
<1>7. CASE p.type = "eof"
  <2>1. next = [q EXCEPT !.done = TRUE]
    BY <1>3, <1>7
  <2>2. next \in RS /\ next.at = x.at /\ next.upTo = x.upTo /\ next.eof = x.eof /\ next.done
    BY <1>2, <2>1 DEF RS
  <2>3. Kept(x, next)
    BY <1>2, <2>1 DEF RS, Kept
  <2>4. QED BY <1>7, <2>2, <2>3
<1>8. CASE p.type = "bad"
  <2>1. next = OnBad(q)
    BY <1>3, <1>8
  <2>2. next \in RS /\ next.at = x.at /\ next.upTo = x.upTo /\ next.eof = x.eof
        /\ next.out = x.out /\ ~next.partial /\ next.done = x.done /\ ~next.resyncing
    <3>1. CASE q.partial
      <4>1. PICK w \in RS : w = Reported(q)
        BY <1>2, ReportedFacts
      <4>2. next = [w EXCEPT !.partial = FALSE, !.scratch = <<>>]
        BY <2>1, <3>1, <4>1 DEF OnBad
      <4>3. <<>> \in Seq(Frags)
        OBVIOUS
      <4>4. next \in RS
        BY <4>2, <4>3 DEF RS
      <4>5. /\ next.at = w.at /\ next.upTo = w.upTo /\ next.eof = w.eof /\ next.out = w.out /\ ~next.partial
            /\ next.done = w.done /\ next.resyncing = w.resyncing
        BY <4>2 DEF RS
      <4>6. w.at = x.at /\ w.upTo = x.upTo /\ w.eof = x.eof /\ w.out = x.out /\ w.done = x.done /\ w.resyncing = q.resyncing
        BY <1>2, <4>1, ReportedFacts
      <4>7. QED BY <1>2, <1>8, <4>4, <4>5, <4>6
    <3>2. CASE ~q.partial
      <4>1. next = q
        BY <2>1, <3>2 DEF OnBad
      <4>2. QED BY <1>2, <1>8, <3>2, <4>1
    <3>3. QED BY <3>1, <3>2
  <2>3. next.out = x.out /\ ~next.partial /\ next.done = x.done /\ ~next.resyncing
    BY <2>2
  <2>4. QED BY <1>8, <2>2, <2>3 DEF Gave
<1>9. ASSUME p.type \notin {"bad", "eof"}
      PROVE  next \in RS /\ next.at = x.at /\ next.upTo = x.upTo /\ next.eof = x.eof /\ Handled(x, next, p.frag)
  <2>1. PICK f \in Frags : f = p.frag /\ f.type = p.type
    BY <1>9
  <2>2. f.type \in {"full", "first", "middle", "last"}
    BY DEF Frags
  <2>3. CASE f.type = "full"
    <3>1. next = [g EXCEPT !.out = Append(@, <<f>>), !.partial = FALSE, !.scratch = <<>>]
      BY <1>3, <1>5, <2>1, <2>3 DEF Delivered
    <3>2. <<f>> \in Seq(Frags) /\ Append(g.out, <<f>>) \in Seq(Seq(Frags)) /\ <<>> \in Seq(Frags)
      BY <1>6
    <3>3. next \in RS
      BY <1>6, <3>1, <3>2 DEF RS
    <3>4. /\ next.at = x.at /\ next.upTo = x.upTo /\ next.eof = x.eof
          /\ next.out = Append(x.out, <<f>>) /\ ~next.partial /\ next.done = x.done
          /\ next.resyncing = g.resyncing /\ next.reports = g.reports
      BY <1>6, <3>1 DEF RS
    <3>5. Handled(x, next, f)
      BY <1>6, <2>1, <2>3, <3>4 DEF Handled, Begins
    <3>6. QED BY <2>1, <3>3, <3>4, <3>5
  <2>4. CASE f.type = "first"
    <3>1. next = [g EXCEPT !.partial = TRUE, !.scratch = <<f>>]
      BY <1>3, <1>5, <2>1, <2>4
    <3>2. <<f>> \in Seq(Frags)
      OBVIOUS
    <3>3. next \in RS
      BY <1>6, <3>1, <3>2 DEF RS
    <3>4. /\ next.at = x.at /\ next.upTo = x.upTo /\ next.eof = x.eof
          /\ next.out = x.out /\ next.partial /\ next.scratch = <<f>> /\ next.done = x.done
          /\ next.resyncing = g.resyncing /\ next.reports = g.reports
      BY <1>6, <3>1 DEF RS
    <3>5. Handled(x, next, f)
      BY <1>6, <2>1, <2>4, <3>4 DEF Handled, Begins
    <3>6. QED BY <2>1, <3>3, <3>4, <3>5
  <2>5. CASE f.type \in {"middle", "last"} /\ x.resyncing
    <3>1. next = q
      BY <1>3, <2>1, <2>5
    <3>2. Handled(x, next, f)
      BY <1>2, <2>1, <2>5, <3>1 DEF Handled, Begins, Kept
    <3>3. QED BY <1>2, <2>1, <3>1, <3>2
  <2>6. CASE f.type \in {"middle", "last"} /\ ~x.resyncing /\ ~x.partial
    <3>1. next = Reported(q)
      BY <1>2, <1>3, <2>1, <2>6
    <3>2. /\ next \in RS /\ next.at = x.at /\ next.upTo = x.upTo /\ next.eof = x.eof /\ next.out = x.out
          /\ ~next.partial /\ next.done = x.done /\ next.resyncing = q.resyncing
      BY <1>2, <2>6, <3>1, ReportedFacts
    <3>3. Handled(x, next, f)
      BY <1>2, <2>1, <2>6, <3>2 DEF Handled, Begins
    <3>4. QED BY <2>1, <3>2, <3>3
  <2>7. CASE f.type = "middle" /\ ~x.resyncing /\ x.partial
    <3>1. next = [q EXCEPT !.scratch = Append(@, f)]
      BY <1>2, <1>3, <2>1, <2>7
    <3>2. Append(q.scratch, f) \in Seq(Frags)
      BY <1>4
    <3>3. /\ next \in RS /\ next.at = x.at /\ next.upTo = x.upTo /\ next.eof = x.eof /\ next.out = x.out
          /\ next.partial /\ next.done = x.done /\ next.resyncing = q.resyncing
          /\ next.scratch = Append(x.scratch, f) /\ next.reports = x.reports
      <4>1. PICK s \in Seq(Frags) : s = Append(q.scratch, f) /\ s = Append(x.scratch, f)
        BY <1>2, <3>2
      <4>2. next = [q EXCEPT !.scratch = s]
        BY <3>1, <4>1
      <4>3. next \in RS
        BY <1>2, <4>2 DEF RS
      <4>4. /\ next.at = q.at /\ next.upTo = q.upTo /\ next.eof = q.eof /\ next.out = q.out
            /\ next.partial = q.partial /\ next.done = q.done /\ next.resyncing = q.resyncing
            /\ next.scratch = s /\ next.reports = q.reports
        BY <1>2, <4>2 DEF RS
      <4>5. QED BY <1>2, <2>7, <4>1, <4>3, <4>4
    <3>4. Handled(x, next, f)
      BY <1>2, <2>1, <2>7, <3>3 DEF Handled, Begins
    <3>5. QED BY <2>1, <3>3, <3>4
  <2>8. CASE f.type = "last" /\ ~x.resyncing /\ x.partial
    <3>1. next = [q EXCEPT !.out = Append(@, Append(q.scratch, f)), !.partial = FALSE, !.scratch = <<>>]
      BY <1>2, <1>3, <2>1, <2>8 DEF Delivered
    <3>2. Append(q.scratch, f) \in Seq(Frags) /\ Append(q.out, Append(q.scratch, f)) \in Seq(Seq(Frags)) /\ <<>> \in Seq(Frags)
      BY <1>4
    <3>3. next \in RS
      BY <1>2, <3>1, <3>2 DEF RS
    <3>4. /\ next.at = x.at /\ next.upTo = x.upTo /\ next.eof = x.eof
          /\ next.out = Append(x.out, Append(x.scratch, f))
          /\ ~next.partial /\ next.done = x.done /\ next.resyncing = q.resyncing
          /\ next.reports = x.reports
      <4>1. PICK s : s = Append(q.out, Append(q.scratch, f)) /\ s = Append(x.out, Append(x.scratch, f))
        BY <1>2
      <4>2. next = [q EXCEPT !.out = s, !.partial = FALSE, !.scratch = <<>>]
        BY <3>1, <4>1
      <4>3. /\ next.at = q.at /\ next.upTo = q.upTo /\ next.eof = q.eof /\ next.out = s /\ ~next.partial
            /\ next.done = q.done /\ next.resyncing = q.resyncing /\ next.reports = q.reports
        BY <1>2, <4>2 DEF RS
      <4>4. QED BY <1>2, <4>1, <4>3
    <3>5. Handled(x, next, f)
      BY <1>2, <2>1, <2>8, <3>4 DEF Handled, Begins
    <3>6. QED BY <2>1, <3>3, <3>4, <3>5
  <2>9. QED BY <2>2, <2>3, <2>4, <2>5, <2>6, <2>7, <2>8
<1>10. QED BY <1>7, <1>8, <1>9

\* What is known of the file: it is c, but for a bad byte.
Log(c) ==
  /\ file \in Seq(Byte) /\ Damaged(file, c, phase) /\ Clean(c, added) /\ added \in Recs
  /\ PlacedFirst(added, placed) /\ (placed => Trailers(c))

\* The file is such a log in every state.
LEMMA FileIsLog == FileInv => \E c : Log(c)
BY DEF FileInv, FileInvOf, Laid, Log

\* The bytes of the log and of the file.
LEMMA LogFacts ==
  ASSUME NEW c, Log(c)
  PROVE  /\ file \in Seq(Byte) /\ c \in Seq(Byte) /\ Len(c) = Len(file) /\ Len(file) \in Nat
         /\ DOMAIN file = 1 .. Len(file) /\ DOMAIN c = 1 .. Len(file) /\ added \in Recs /\ 0 \notin DOMAIN added
         /\ \A i \in 1 .. Len(file) : c[i] # BadByte /\ (file[i] = c[i] \/ file[i] = BadByte)
         /\ \A i \in 1 .. Len(file) : Real(file[i]) => file[i] = c[i]
         /\ \A i \in 1 .. Len(file) :
              Real(c[i]) => /\ c[i].frag \in Frags /\ IsFrag(c[i].frag, added) /\ c[i].frag.rec \in DOMAIN added
                            /\ c[i].at \in Nat /\ 1 <= c[i].at /\ c[i].at <= Size(c[i].frag) /\ c[i] = Part(c[i].frag, c[i].at)
         /\ \A i \in 1 .. Len(file) : ~Real(c[i]) => c[i] = ZeroByte
<1>1. file \in Seq(Byte) /\ c \in Seq(Byte) /\ Len(c) = Len(file) /\ Typed(c, added) /\ added \in Recs
  BY DEF Log, Damaged, Clean
<1>2. Len(file) \in Nat /\ DOMAIN file = 1 .. Len(file) /\ DOMAIN c = 1 .. Len(file) /\ 0 \notin DOMAIN added
  BY <1>1 DEF Recs
<1>3. \A i \in 1 .. Len(file) : c[i] # BadByte /\ (file[i] = c[i] \/ file[i] = BadByte)
  BY <1>1, <1>2, NoBadInside DEF Log, Damaged
<1>4. \A i \in 1 .. Len(file) : Real(file[i]) => file[i] = c[i]
  BY <1>3, BadFacts
<1>5. ASSUME NEW i \in 1 .. Len(file), Real(c[i])
      PROVE  /\ c[i].frag \in Frags /\ IsFrag(c[i].frag, added) /\ c[i].frag.rec \in DOMAIN added
             /\ c[i].at \in Nat /\ 1 <= c[i].at /\ c[i].at <= Size(c[i].frag) /\ c[i] = Part(c[i].frag, c[i].at)
  <2>1. c[i] # ZeroByte
    BY <1>5, ZeroFacts
  <2>2. c[i] \in [frag : Frags, at : Nat] /\ IsFrag(c[i].frag, added) /\ 1 <= c[i].at /\ c[i].at <= Size(c[i].frag)
    BY <1>1, <1>2, <2>1 DEF Typed
  <2>3. QED BY <2>2 DEF IsFrag, Part
<1>6. \A i \in 1 .. Len(file) : ~Real(c[i]) => c[i] = ZeroByte
  <2>1. SUFFICES ASSUME NEW i \in 1 .. Len(file), c[i] # ZeroByte PROVE Real(c[i])
    OBVIOUS
  <2>2. IsFrag(c[i].frag, added)
    BY <1>1, <1>2, <2>1 DEF Typed
  <2>3. QED BY <1>2, <2>2 DEF IsFrag, Real
<1>7. QED BY <1>1, <1>2, <1>3, <1>4, <1>5, <1>6

\* The fragment at the start of the buffer is one that was written.
LEMMA TookFacts ==
  ASSUME NEW c, Log(c), NEW fs \in RS, NEW d, FullBuffer(fs, d), Took(fs), NEW f, f = Head1(fs)
  PROVE  /\ f \in Frags /\ IsFrag(f, added) /\ f.rec \in DOMAIN added /\ f.rec # 0 /\ Size(f) \in Nat /\ Size(f) >= HeaderSize
         /\ fs.at + Size(f) <= fs.upTo /\ fs.at + Size(f) <= Len(file)
         /\ \A i \in 1 .. Size(f) : c[fs.at + i] = Part(f, i)
<1>1. HeaderSize \in Nat /\ HeaderSize > 1 /\ Len(file) \in Nat /\ file \in Seq(Byte)
  BY LogAssumption, LogFacts
<1>2. fs.at \in Nat /\ fs.upTo \in Nat
  BY DEF RS
<1>3. fs.upTo - fs.at >= HeaderSize /\ f.rec # 0 /\ Size(f) <= fs.upTo - fs.at /\ Reads(fs.at, f, Size(f))
  BY DEF Took
<1>4. fs.upTo <= Len(file)
  BY <1>1, <1>2, <1>3 DEF FullBuffer
<1>5. fs.at + 1 \in 1 .. Len(file)
  BY <1>1, <1>2, <1>3, <1>4
<1>6. file[fs.at + 1].frag = f /\ Real(file[fs.at + 1])
  BY <1>3 DEF Head1, Real
<1>7. file[fs.at + 1] = c[fs.at + 1]
  BY <1>5, <1>6, LogFacts
<1>8. f \in Frags /\ IsFrag(f, added) /\ f.rec \in DOMAIN added
  BY <1>5, <1>6, <1>7, LogFacts
<1>9. Size(f) \in Nat /\ Size(f) >= HeaderSize
  BY <1>1, <1>8 DEF Size, Frags
<1>10. fs.at + Size(f) <= fs.upTo /\ fs.at + Size(f) <= Len(file)
  BY <1>1, <1>2, <1>3, <1>4, <1>9
<1>11. ASSUME NEW i \in 1 .. Size(f) PROVE c[fs.at + i] = Part(f, i)
  <2>1. file[fs.at + i] = Part(f, i)
    BY <1>3 DEF Reads, Part
  <2>2. fs.at + i \in 1 .. Len(file)
    BY <1>1, <1>2, <1>9, <1>10
  <2>3. Real(Part(f, i))
    BY <1>3, <1>8, PartFacts
  <2>4. QED BY <2>1, <2>2, <2>3, LogFacts
<1>12. QED BY <1>3, <1>8, <1>9, <1>10, <1>11

\* The states between which a turn goes.
Stepped(rs, fs, next, o) ==
  /\ next \in RS /\ (\E d : Buffer(next, d)) /\ next.upTo = fs.upTo /\ next.eof = fs.eof /\ next.at >= fs.at
  /\ AtEnd(fs) => next.done /\ Kept(rs, next)
  /\ ~AtEnd(fs) => ~next.done /\ fs.upTo - fs.at >= HeaderSize /\ next.at >= fs.at + HeaderSize
  /\ ~AtEnd(fs) /\ ~Took(fs) => Gave(rs, next) /\ next.at = fs.upTo
  /\ Took(fs) => ~AtEnd(fs) /\ next.at = fs.at + Size(Head1(fs))
  /\ Took(fs) /\ fs.at < o => Gave(rs, next)
  /\ Took(fs) /\ fs.at >= o => Handled(rs, next, Head1(fs))

\* Every turn of the reader is one of these.
LEMMA StepCases ==
  ASSUME NEW c, Log(c), NEW rs \in RS, NEW b, Buffer(rs, b), ~rs.done, NEW o \in Nat,
         NEW fs, fs = Full(rs), NEW next, next = ReaderStep(rs, o)
  PROVE  Stepped(rs, fs, next, o)
<1>1. HeaderSize \in Nat /\ HeaderSize > 1 /\ Len(file) \in Nat /\ file \in Seq(Byte)
  BY LogAssumption, LogFacts
<1>2. fs \in RS /\ SameBut(rs, fs) /\ \E d : FullBuffer(fs, d)
  BY <1>1, FullFacts
<1>3. PICK d : FullBuffer(fs, d)
  BY <1>2
<1>4. fs.at \in Nat /\ fs.upTo \in Nat /\ fs.at <= fs.upTo
  BY <1>2, <1>3 DEF RS, FullBuffer
<1>5. PICK p : p = ReadPhysicalRecord(rs, o)
  OBVIOUS
<1>6. /\ Took(fs) => ~AtEnd(fs)
      /\ Took(fs) => p.rs = Past(fs) /\ p.type = (IF fs.at < o THEN "bad" ELSE Head1(fs).type) /\ p.frag = Head1(fs)
      /\ AtEnd(fs) => p.rs = Cleared(fs) /\ p.type = "eof"
      /\ ~Took(fs) /\ ~AtEnd(fs) => /\ p.type = "bad" /\ p.rs \in {Cleared(fs), Reported(Cleared(fs))}
                                    /\ fs.upTo - fs.at >= HeaderSize
  BY <1>1, <1>5, ReadCases
<1>7. PICK w : w = Cleared(fs)
  OBVIOUS
<1>8. w \in RS /\ w.at = fs.upTo /\ w.upTo = fs.upTo /\ w.eof = fs.eof /\ SameBut(fs, w)
  BY <1>2, <1>4, <1>7 DEF Cleared, RS, SameBut
<1>b. ASSUME NEW n \in RS, n.upTo = fs.upTo, n.eof = fs.eof, fs.at <= n.at, n.at <= fs.upTo, fs.upTo <= Len(file) \/ n.at = fs.upTo
      PROVE  Buffer(n, d)
  BY <1>3, <1>4, <1>b DEF Buffer, FullBuffer, RS
<1>9. CASE Took(fs)
  <2>1. PICK f : f = Head1(fs)
    OBVIOUS
  <2>2. /\ f \in Frags /\ f.rec # 0 /\ Size(f) \in Nat /\ Size(f) >= HeaderSize
        /\ fs.at + Size(f) <= fs.upTo /\ fs.at + Size(f) <= Len(file)
    BY <1>2, <1>3, <1>9, <2>1, TookFacts
  <2>3. PICK x : x = Past(fs)
    OBVIOUS
  <2>4. x \in RS /\ x.at = fs.at + Size(f) /\ x.upTo = fs.upTo /\ x.eof = fs.eof /\ SameBut(fs, x)
    <3>1. PICK y \in Nat : y = fs.at + Size(f)
      BY <1>4, <2>2
    <3>2. x = [fs EXCEPT !.at = y]
      BY ONLY <2>1, <2>3, <3>1 DEF Past
    <3>3. fs \in RS
      BY <1>2
    <3>4. x \in RS /\ x.at = y /\ x.upTo = fs.upTo /\ x.eof = fs.eof /\ SameBut(fs, x)
      BY ONLY <3>2, <3>3, y \in Nat DEF RS, SameBut
    <3>5. QED BY ONLY <3>1, <3>4
  <2>5. p.rs = x /\ p.frag = f /\ p.type = (IF fs.at < o THEN "bad" ELSE f.type)
    BY <1>6, <1>9, <2>1, <2>3
  <2>6. f.type \in {"full", "first", "middle", "last"}
    BY <2>2 DEF Frags
  <2>7. /\ next \in RS /\ next.at = x.at /\ next.upTo = x.upTo /\ next.eof = x.eof
        /\ p.type = "bad" => Gave(x, next)
        /\ p.type \notin {"bad", "eof"} => Handled(x, next, p.frag)
    <3>1. p.frag \in Frags \/ p.type \in {"bad", "eof"}
      BY ONLY <2>2, <2>5
    <3>2. p.type \in {p.frag.type, "bad", "eof"}
      BY ONLY <2>5
    <3>3. x \in RS /\ x = p.rs
      BY ONLY <2>4, <2>5
    <3>4. QED BY ONLY rs \in RS, <1>5, <3>1, <3>2, <3>3, next = ReaderStep(rs, o), TurnedFacts
  <2>8. fs.at < o => Gave(rs, next)
    BY <1>2, <2>4, <2>5, <2>7 DEF Gave, SameBut
  <2>9. fs.at >= o => Handled(rs, next, f)
    <3>1. SUFFICES ASSUME fs.at >= o PROVE Handled(rs, next, f)
      OBVIOUS
    <3>2. Handled(x, next, f)
      BY <1>4, <2>5, <2>6, <2>7, <3>1
    <3>3. QED BY <1>2, <2>4, <3>2 DEF Handled, SameBut, Kept
  <2>10. ~next.done
    <3>1. CASE fs.at < o
      BY <2>8, <3>1 DEF Gave
    <3>2. CASE ~(fs.at < o)
      BY <1>4, <2>9, <3>2 DEF Handled
    <3>3. QED BY <3>1, <3>2
  <2>11. Buffer(next, d)
    <3>1. fs.at <= next.at /\ next.at <= fs.upTo
      BY <1>1, <1>4, <2>2, <2>4, <2>7
    <3>2. fs.upTo <= Len(file)
      BY <1>1, <1>3, <1>4, <2>2 DEF FullBuffer
    <3>3. QED BY <1>b, <2>4, <2>7, <3>1, <3>2
  <2>12. fs.upTo - fs.at >= HeaderSize /\ next.at >= fs.at + HeaderSize
    BY <1>1, <1>4, <2>2, <2>4, <2>7
  <2>13. next.at >= fs.at
    BY <1>1, <1>4, <2>2, <2>4, <2>7
  <2>14. QED BY <1>6, <1>9, <2>1, <2>4, <2>7, <2>8, <2>9, <2>10, <2>11, <2>12, <2>13 DEF Stepped
<1>10. CASE AtEnd(fs)
  <2>1. p.rs = w /\ p.type = "eof" /\ ~Took(fs)
    BY <1>6, <1>7, <1>10
  <2>2. /\ next \in RS /\ next.at = w.at /\ next.upTo = w.upTo /\ next.eof = w.eof /\ next.done /\ Kept(w, next)
    BY <1>5, <1>8, <2>1, TurnedFacts
  <2>3. Kept(rs, next)
    BY <1>2, <1>8, <2>2 DEF Kept, SameBut
  <2>4. Buffer(next, d)
    BY <1>b, <1>4, <1>8, <2>2
  <2>5. QED BY <1>4, <1>8, <1>10, <2>1, <2>2, <2>3, <2>4 DEF Stepped
<1>11. CASE ~Took(fs) /\ ~AtEnd(fs)
  <2>1. p.type = "bad" /\ p.rs \in {w, Reported(w)} /\ fs.upTo - fs.at >= HeaderSize
    BY <1>6, <1>7, <1>11
  <2>2. PICK x : x = p.rs
    OBVIOUS
  <2>3. x \in RS /\ x.at = fs.upTo /\ x.upTo = fs.upTo /\ x.eof = fs.eof /\ x.out = fs.out /\ x.done = fs.done
    BY <1>8, <2>1, <2>2, ReportedFacts DEF SameBut
  <2>4. /\ next \in RS /\ next.at = x.at /\ next.upTo = x.upTo /\ next.eof = x.eof /\ Gave(x, next)
    BY <1>5, <2>1, <2>2, <2>3, TurnedFacts
  <2>5. Gave(rs, next) /\ ~next.done
    BY <1>2, <2>3, <2>4 DEF Gave, SameBut
  <2>6. Buffer(next, d)
    BY <1>b, <1>4, <2>3, <2>4
  <2>7. next.at >= fs.at + HeaderSize
    BY <1>1, <1>4, <2>1, <2>3, <2>4
  <2>8. QED BY <1>4, <1>11, <2>1, <2>3, <2>4, <2>5, <2>6, <2>7 DEF Stepped
<1>12. QED BY <1>9, <1>10, <1>11

-----------------------------------------------------------------------------
(* The turns of a reader, from the first one on.                             *)

MakesRun(f, o, N) ==
  f = [n \in 0 .. N |->
         IF n = 0 THEN ReaderStart(o)
         ELSE LET rs == f[n - 1] IN IF rs.done THEN rs ELSE ReaderStep(rs, o)]

\* The recursive function that makes the reader's states exists.
LEMMA RunMade ==
  ASSUME NEW o, NEW N \in Nat
  PROVE  \E f : MakesRun(f, o, N)
<1> DEFINE Next1(rs) == IF rs.done THEN rs ELSE ReaderStep(rs, o)
           First == ReaderStart(o)
<1> HIDE DEF Next1, First
<1> DEFINE Is(f, m) == f = [n \in 0 .. m |-> IF n = 0 THEN First ELSE Next1(f[n - 1])]
           Q == {m \in 0 .. N : \E f : Is(f, m)}
<1>1. Is([n \in 0 .. 0 |-> First], 0)
  OBVIOUS
<1>2. ASSUME NEW m \in 1 .. N, m - 1 \in Q PROVE m \in Q
  <2>1. PICK f : Is(f, m - 1)
    BY <1>2
  <2> DEFINE g == [n \in 0 .. m |-> IF n = m THEN Next1(f[m - 1]) ELSE f[n]]
  <2>2. ASSUME NEW n \in 0 .. m PROVE g[n] = IF n = 0 THEN First ELSE Next1(g[n - 1])
    <3>1. CASE n = m
      BY <3>1
    <3>2. CASE n # m
      <4>1. n \in 0 .. m - 1 /\ (n # 0 => n - 1 \in 0 .. m /\ n - 1 # m)
        BY <3>2
      <4>2. g[n] = f[n] /\ (n # 0 => g[n - 1] = f[n - 1])
        BY <3>2, <4>1
      <4>3. f[n] = IF n = 0 THEN First ELSE Next1(f[n - 1])
        BY <2>1, <4>1
      <4>4. QED BY <4>2, <4>3
    <3>3. QED BY <3>1, <3>2
  <2>3. g = [n \in 0 .. m |-> g[n]]
    OBVIOUS
  <2> HIDE DEF g
  <2>4. Is(g, m)
    BY <2>2, <2>3
  <2> HIDE DEF Is
  <2>5. QED BY <2>4
<1>3. 0 \in Q
  <2> HIDE DEF Is
  <2> QED BY <1>1
<1>4. N \in Q
  <2> HIDE DEF Q
  <2>1. \A n \in 0 .. N : n \in Q
    BY <1>2, <1>3, UpTo
  <2>2. QED BY <2>1
<1>5. QED BY <1>4 DEF Next1, First, MakesRun

Turned == 0 .. Len(file) + 2

\* The states a reader goes through.
IsRun(run, o) ==
  /\ run[0] = ReaderStart(o)
  /\ \A n \in Turned : n # 0 => run[n] = IF run[n - 1].done THEN run[n - 1] ELSE ReaderStep(run[n - 1], o)
  /\ ReadLog(o) = run[Len(file) + 2]

\* ReadLog gives the last of them.
LEMMA RunExists1 ==
  ASSUME file \in Seq(Byte), NEW o
  PROVE  \E run : IsRun(run, o)
<1> DEFINE run == CHOOSE f : f = [n \in 0 .. Len(file) + 2 |->
                       IF n = 0 THEN ReaderStart(o)
                       ELSE LET rs == f[n - 1] IN IF rs.done THEN rs ELSE ReaderStep(rs, o)]
<1>1. run = [n \in 0 .. Len(file) + 2 |->
                       IF n = 0 THEN ReaderStart(o)
                       ELSE LET rs == run[n - 1] IN IF rs.done THEN rs ELSE ReaderStep(rs, o)]
  <2>1. PICK N \in Nat : N = Len(file) + 2
    OBVIOUS
  <2>2. \E f : MakesRun(f, o, N)
    BY RunMade
  <2>3. QED BY <2>1, <2>2, Zenon DEF MakesRun
<1>2. ReadLog(o) = run[Len(file) + 2]
  BY DEF ReadLog
<1> HIDE DEF run
<1>3. run[0] = ReaderStart(o)
  BY <1>1
<1>4. ASSUME NEW n \in Turned, n # 0 PROVE run[n] = IF run[n - 1].done THEN run[n - 1] ELSE ReaderStep(run[n - 1], o)
  BY <1>1, <1>4 DEF Turned
<1>5. QED BY <1>2, <1>3, <1>4 DEF IsRun

\* A reader starts with an empty buffer at the start of a block.
LEMMA StartFacts ==
  ASSUME NEW o \in Nat, NEW rs, rs = ReaderStart(o)
  PROVE  /\ rs \in RS /\ Buffer(rs, rs.at) /\ rs.at = rs.upTo /\ ~rs.done /\ ~rs.partial /\ rs.out = <<>> /\ rs.reports = 0
         /\ ~rs.eof /\ (rs.resyncing <=> o > 0)
         /\ \/ rs.at = Base(o)
            \/ rs.at = Base(o) + BlockSize /\ o % BlockSize > BlockSize - (HeaderSize - 1)
<1>1. HeaderSize \in Nat /\ BlockSize \in Nat /\ BlockSize > HeaderSize
  BY LogAssumption
<1>2. /\ Base(o) \in Nat /\ Base(o) % BlockSize = 0 /\ o % BlockSize \in Nat
  BY BaseFacts
<1>3. PICK s \in Nat : s = Base(o)
  BY <1>2
<1>4. s % BlockSize = 0 /\ (s + BlockSize) % BlockSize = 0
  BY ONLY <1>2, <1>3, s \in Nat, BlockNext
<1>5. PICK a \in Nat : a = s + IF o % BlockSize > BlockSize - (HeaderSize - 1) THEN BlockSize ELSE 0
  BY <1>1
<1>6. a % BlockSize = 0
  <2>1. a = s \/ a = s + BlockSize
    BY <1>1, <1>5
  <2>2. QED BY ONLY <2>1, <1>4
<1>7. rs = ReaderAt(a, o)
  BY <1>3, <1>5 DEF ReaderStart, Base
<1>8. PICK q \in BOOLEAN : q = (o > 0)
  <2>1. (o > 0) \in BOOLEAN
    OBVIOUS
  <2>2. QED BY <2>1, Zenon
<1>e. PICK x : x = <<>>
  OBVIOUS
<1>f. x \in Seq(Frags) /\ x \in Seq(Seq(Frags))
  BY <1>e
<1>g. rs = [at |-> a, upTo |-> a, eof |-> FALSE, resyncing |-> q, partial |-> FALSE,
            scratch |-> x, out |-> x, reports |-> 0, done |-> FALSE]
  BY ONLY <1>7, <1>8, <1>e DEF ReaderAt
<1>9. rs \in RS
  BY ONLY <1>g, <1>f, a \in Nat, q \in BOOLEAN DEF RS
<1>10. /\ rs.at = a /\ rs.upTo = a /\ ~rs.done /\ ~rs.partial /\ rs.out = <<>> /\ rs.reports = 0
       /\ ~rs.eof /\ (rs.resyncing <=> o > 0)
  <2>1. /\ rs.at = a /\ rs.upTo = a /\ ~rs.done /\ ~rs.partial /\ rs.out = x /\ rs.reports = 0
        /\ ~rs.eof /\ (rs.resyncing <=> q)
    BY ONLY <1>g
  <2>2. QED BY ONLY <2>1, <1>8, <1>e, Zenon
<1>11. Buffer(rs, rs.at)
  BY <1>1, <1>6, <1>10 DEF Buffer
<1>12. a = Base(o) \/ (a = Base(o) + BlockSize /\ o % BlockSize > BlockSize - (HeaderSize - 1))
  BY <1>1, <1>3, <1>5
<1>13. QED BY <1>9, <1>10, <1>11, <1>12

Sane(rs, n) ==
  /\ rs \in RS /\ (\E b : Buffer(rs, b))
  /\ ~rs.done => rs.at >= n /\ (n = 0 \/ rs.at <= Len(file))

\* A turn goes forward.
LEMMA SaneStep ==
  ASSUME NEW c, Log(c), NEW o \in Nat, NEW n \in Nat, NEW rs, Sane(rs, n), ~rs.done, NEW next, next = ReaderStep(rs, o)
  PROVE  Sane(next, n + 1) /\ Stepped(rs, Full(rs), next, o)
<1>1. HeaderSize \in Nat /\ HeaderSize > 1 /\ Len(file) \in Nat /\ file \in Seq(Byte)
  BY LogAssumption, LogFacts
<1>2. rs \in RS /\ rs.at >= n
  BY DEF Sane
<1>3. PICK b : Buffer(rs, b)
  BY DEF Sane
<1>4. PICK fs : fs = Full(rs)
  OBVIOUS
<1>5. fs \in RS /\ (\E d : FullBuffer(fs, d)) /\ fs.at >= rs.at
  BY <1>1, <1>2, <1>3, <1>4, FullFacts
<1>6. PICK d : FullBuffer(fs, d)
  BY <1>5
<1>7. Stepped(rs, fs, next, o)
  BY <1>2, <1>3, <1>4, StepCases
<1>8. next \in RS /\ (\E e : Buffer(next, e)) /\ next.upTo = fs.upTo
  BY <1>7 DEF Stepped
<1>9. ASSUME ~next.done PROVE next.at >= n + 1 /\ next.at <= Len(file)
  <2>1. fs.upTo - fs.at >= HeaderSize /\ next.at >= fs.at + HeaderSize
    BY <1>7, <1>9 DEF Stepped
  <2>2. fs.at \in Nat /\ fs.upTo \in Nat /\ next.at \in Nat /\ rs.at \in Nat
    BY <1>2, <1>5, <1>8 DEF RS
  <2>3. fs.upTo <= Len(file)
    BY <1>1, <1>6, <2>1, <2>2 DEF FullBuffer
  <2>4. next.at <= next.upTo
    BY <1>8 DEF Buffer
  <2>5. QED BY <1>1, <1>2, <1>5, <1>8, <2>1, <2>2, <2>3, <2>4
<1>10. Sane(next, n + 1)
  BY <1>8, <1>9 DEF Sane
<1>11. QED BY <1>4, <1>7, <1>10

\* Every state a reader goes through is sane.
LEMMA RunSane ==
  ASSUME NEW c, Log(c), NEW o \in Nat, NEW run, IsRun(run, o), NEW n \in Turned
  PROVE  Sane(run[n], n)
<1> DEFINE Q == {k \in Turned : Sane(run[k], k)}
<1>h. PICK N \in Nat : N = Len(file) + 2 /\ Turned = 0 .. N
  BY LogFacts DEF Turned
<1>1. 0 \in Q
  <2>1. run[0] = ReaderStart(o)
    BY DEF IsRun
  <2>2. PICK rs : rs = run[0]
    OBVIOUS
  <2>3. rs \in RS /\ Buffer(rs, rs.at)
    BY <2>1, <2>2, StartFacts
  <2>4. rs.at >= 0
    BY <2>3 DEF RS
  <2>5. Sane(rs, 0)
    BY <2>3, <2>4 DEF Sane
  <2>6. QED BY <2>2, <2>5, <1>h
<1>2. ASSUME NEW k \in 1 .. N, k - 1 \in Q PROVE k \in Q
  <2>1. k \in Turned /\ k # 0 /\ k - 1 \in Nat
    BY <1>h
  <2>2. run[k] = IF run[k - 1].done THEN run[k - 1] ELSE ReaderStep(run[k - 1], o)
    BY <2>1 DEF IsRun
  <2>3. PICK m \in Nat : m = k - 1
    BY <2>1
  <2>4. Sane(run[m], m)
    BY <1>2, <2>3
  <2>5. CASE run[m].done
    <3>1. run[k] = run[m]
      BY <2>2, <2>3, <2>5
    <3>2. Sane(run[k], k)
      BY <2>4, <2>5, <3>1 DEF Sane
    <3>3. QED BY <2>1, <3>2
  <2>6. CASE ~run[m].done
    <3>1. run[k] = ReaderStep(run[m], o)
      BY <2>2, <2>3, <2>6
    <3>2. PICK rs, next : rs = run[m] /\ next = ReaderStep(rs, o)
      OBVIOUS
    <3>3. Sane(next, m + 1)
      BY <2>4, <2>6, <3>2, SaneStep
    <3>4. m + 1 = k
      BY <2>1, <2>3
    <3>5. Sane(run[k], k)
      BY <3>1, <3>2, <3>3, <3>4
    <3>6. QED BY <2>1, <3>5
  <2>7. QED BY <2>5, <2>6
<1> HIDE DEF Q
<1>3. \A k \in 0 .. N : k \in Q
  BY <1>1, <1>2, UpTo
<1>4. QED BY <1>3, <1>h DEF Q

\* A reader that is not done takes one more turn; at the end it is done.
LEMMA RunTurn ==
  ASSUME NEW c, Log(c), NEW o \in Nat, NEW run, IsRun(run, o), NEW n \in Turned, ~run[n].done
  PROVE  /\ n + 1 \in Turned /\ run[n + 1] = ReaderStep(run[n], o)
         /\ run[n] \in RS /\ (\E b : Buffer(run[n], b)) /\ Stepped(run[n], Full(run[n]), run[n + 1], o)
<1>1. Sane(run[n], n)
  BY RunSane
<1>2. n \in Nat /\ Len(file) \in Nat /\ n <= Len(file) + 2
  BY LogFacts DEF Turned
<1>3. run[n].at \in Nat
  BY <1>1 DEF Sane, RS
<1>4. n = 0 \/ n <= Len(file)
  BY <1>1, <1>2, <1>3 DEF Sane
<1>5. n + 1 \in Turned /\ n + 1 # 0 /\ (n + 1) - 1 = n
  BY <1>2, <1>4 DEF Turned
<1>6. run[n + 1] = ReaderStep(run[n], o)
  <2>1. PICK k \in Turned : k = n + 1
    BY <1>5
  <2>2. k # 0 /\ k - 1 = n
    BY <1>5, <2>1
  <2>3. run[k] = IF run[k - 1].done THEN run[k - 1] ELSE ReaderStep(run[k - 1], o)
    BY <2>2 DEF IsRun
  <2>4. QED BY <2>1, <2>2, <2>3
<1>7. PICK rs, next : rs = run[n] /\ next = ReaderStep(rs, o)
  OBVIOUS
<1>8. Stepped(rs, Full(rs), next, o)
  BY <1>1, <1>2, <1>7, SaneStep
<1>9. QED BY <1>1, <1>5, <1>6, <1>7, <1>8 DEF Sane

\* What holds of the first state and is kept by every turn holds of all states.
LEMMA RunInduct ==
  ASSUME NEW c, Log(c), NEW o \in Nat, NEW run, IsRun(run, o), NEW I, run[0] \in I,
         \A n \in Turned : run[n] \in I /\ ~run[n].done => run[n + 1] \in I
  PROVE  \A n \in Turned : run[n] \in I
<1> DEFINE Q == {k \in Turned : run[k] \in I}
<1>h. PICK N \in Nat : N = Len(file) + 2 /\ Turned = 0 .. N
  BY LogFacts DEF Turned
<1>1. 0 \in Q
  BY <1>h
<1>2. ASSUME NEW k \in 1 .. N, k - 1 \in Q PROVE k \in Q
  <2>1. k \in Turned /\ k # 0
    BY <1>h
  <2>2. run[k] = IF run[k - 1].done THEN run[k - 1] ELSE ReaderStep(run[k - 1], o)
    BY <2>1 DEF IsRun
  <2>3. PICK m \in Turned : m = k - 1 /\ run[m] \in I
    BY <1>2
  <2>4. m + 1 = k
    BY <2>3, <1>h
  <2>5. CASE run[m].done
    BY <2>1, <2>2, <2>3, <2>5
  <2>6. CASE ~run[m].done
    <3>1. run[m + 1] \in I
      BY <2>3, <2>6
    <3>2. QED BY <2>1, <2>4, <3>1
  <2>7. QED BY <2>5, <2>6
<1> HIDE DEF Q
<1>3. \A k \in 0 .. N : k \in Q
  BY <1>1, <1>2, UpTo
<1>4. QED BY <1>3, <1>h DEF Q

-----------------------------------------------------------------------------
(* What is around a byte of the log.                                         *)

\* The bytes of a fragment before one of its bytes.
LEMMA Backward ==
  ASSUME NEW c \in Seq(Byte), Whole1(c), NEW i \in DOMAIN c, NEW f \in Frags, f.rec # 0, NEW n \in Nat, c[i] = Part(f, n),
         NEW k \in 0 .. n - 1
  PROVE  i - k \in DOMAIN c /\ c[i - k] = Part(f, n - k)
<1>h. PICK N \in Nat : N = n - 1
  OBVIOUS
<1> DEFINE Q == {m \in 0 .. N : i - m \in DOMAIN c /\ c[i - m] = Part(f, n - m)}
<1>d. PICK L \in Nat : DOMAIN c = 1 .. L
  OBVIOUS
<1>i. i \in Nat /\ i >= 1
  BY <1>d
<1>1. 0 \in Q
  BY <1>i, <1>h
<1>2. ASSUME NEW m \in 1 .. N, m - 1 \in Q PROVE m \in Q
  <2>1. PICK x \in DOMAIN c : x = i - (m - 1) /\ c[x] = Part(f, n - (m - 1))
    BY <1>2
  <2>2. PICK y \in Nat : y = n - (m - 1) /\ y > 1
    BY <1>h
  <2>3. c[x] = Part(f, y)
    BY <2>1, <2>2
  <2>4. Real(c[x]) /\ c[x].at = y /\ c[x].frag = f
    BY <2>3, PartFacts
  <2>5. x > 1 /\ c[x - 1] = Part(f, y - 1)
    BY <2>2, <2>4 DEF Whole1
  <2>6. x - 1 = i - m /\ y - 1 = n - m
    BY <1>i, <1>h, <2>1, <2>2
  <2>7. x - 1 \in DOMAIN c
    BY <1>d, <2>5
  <2>8. QED BY <2>5, <2>6, <2>7
<1> HIDE DEF Q
<1>3. \A m \in 0 .. N : m \in Q
  BY <1>1, <1>2, UpTo
<1>4. k \in 0 .. N
  BY <1>h
<1>5. QED BY <1>3, <1>4 DEF Q

\* Ends of fragments are at least a header apart.
LEMMA ClosesApart ==
  ASSUME NEW c, Log(c), NEW a \in DOMAIN c, NEW m \in DOMAIN c, a < m, Closes(c[a]), Closes(c[m])
  PROVE  m - a >= HeaderSize
<1>1. HeaderSize \in Nat /\ HeaderSize > 1
  BY LogAssumption
<1>2. c \in Seq(Byte) /\ Whole1(c) /\ DOMAIN c = 1 .. Len(file) /\ Len(file) \in Nat
  BY LogFacts DEF Log, Clean
<1>3. Real(c[a]) /\ Real(c[m]) /\ c[a].at = Size(c[a].frag) /\ c[m].at = Size(c[m].frag)
  BY DEF Closes
<1>4. PICK f \in Frags : f = c[a].frag /\ f.rec # 0 /\ c[a] = Part(f, Size(f))
  <2>1. c[a].frag \in Frags /\ c[a] = Part(c[a].frag, c[a].at)
    BY <1>2, <1>3, LogFacts
  <2>2. QED BY <1>3, <2>1 DEF Real
<1>5. PICK g \in Frags : g = c[m].frag /\ g.rec # 0 /\ c[m] = Part(g, Size(g))
  <2>1. c[m].frag \in Frags /\ c[m] = Part(c[m].frag, c[m].at)
    BY <1>2, <1>3, LogFacts
  <2>2. QED BY <1>3, <2>1 DEF Real
<1>6. PICK sz \in Nat : sz = Size(g) /\ sz >= HeaderSize
  BY <1>1, <1>5 DEF Size, Frags
<1>7. SUFFICES ASSUME m - a < HeaderSize PROVE FALSE
  BY <1>1, <1>2
<1>8. PICK k \in 0 .. sz - 1 : k = m - a /\ k >= 1
  BY <1>1, <1>2, <1>6, <1>7
<1>9. c[m - k] = Part(g, sz - k)
  BY <1>2, <1>5, <1>6, Backward
<1>10. m - k = a
  BY <1>2, <1>8
<1>11. Part(f, Size(f)) = Part(g, sz - k)
  BY <1>4, <1>9, <1>10
<1>12. f = g /\ Size(f) = sz - k
  BY <1>4, <1>5, <1>11, PartFacts
<1>13. QED BY <1>6, <1>8, <1>12

\* A fragment of a placed record does not reach over the start of a block.
LEMMA BlockHead ==
  ASSUME NEW c, Log(c), NEW q \in Nat, q % BlockSize = 0, q + 1 \in DOMAIN c, Real(c[q + 1]),
         added[c[q + 1].frag.rec].placed
  PROVE  c[q + 1].at = 1
<1>1. HeaderSize \in Nat /\ HeaderSize > 1 /\ BlockSize \in Nat /\ BlockSize > 0
  BY LogAssumption
<1>2. c \in Seq(Byte) /\ Whole1(c) /\ Aligned(c, added) /\ DOMAIN c = 1 .. Len(file) /\ Len(file) \in Nat
  BY LogFacts DEF Log, Clean
<1>x. /\ c[q + 1].frag \in Frags /\ c[q + 1].at \in Nat /\ 1 <= c[q + 1].at /\ c[q + 1].at <= Size(c[q + 1].frag)
      /\ c[q + 1] = Part(c[q + 1].frag, c[q + 1].at)
  <2>1. PICK x \in DOMAIN c : x = q + 1
    OBVIOUS
  <2>2. /\ c[x].frag \in Frags /\ c[x].at \in Nat /\ 1 <= c[x].at /\ c[x].at <= Size(c[x].frag)
        /\ c[x] = Part(c[x].frag, c[x].at)
    BY <1>2, <2>1, LogFacts
  <2>3. QED BY <2>1, <2>2
<1>3. PICK f \in Frags : f = c[q + 1].frag /\ f.rec # 0
  BY <1>x DEF Real
<1>4. PICK n \in Nat : n = c[q + 1].at /\ 1 <= n /\ n <= Size(f) /\ c[q + 1] = Part(f, n)
  BY <1>x, <1>3
<1>5. SUFFICES ASSUME n > 1 PROVE FALSE
  BY <1>4
<1>6. PICK k \in 0 .. n - 1 : k = n - 1
  BY <1>5
<1>7. PICK i \in DOMAIN c : i = q + 1
  OBVIOUS
<1>8. i - k \in DOMAIN c /\ c[i - k] = Part(f, n - k)
  <2>1. c[i] = Part(f, n) /\ f.rec # 0 /\ c \in Seq(Byte) /\ Whole1(c)
    BY <1>2, <1>3, <1>4, <1>7
  <2>2. QED BY ONLY <2>1, i \in DOMAIN c, f \in Frags, n \in Nat, k \in 0 .. n - 1, Backward
<1>9. PICK j \in DOMAIN c : j = i - k /\ c[j] = Part(f, 1)
  BY <1>6, <1>8
<1>10. Real(c[j]) /\ c[j].at = 1 /\ c[j].frag = f
  BY <1>3, <1>9, PartFacts
<1>11. InBlock(j) + Size(f) <= BlockSize
  BY <1>2, <1>3, <1>10 DEF Aligned
<1>12. PICK s \in Nat : s = j - 1 /\ s < q /\ q + 1 - s <= Size(f)
  <2>1. PICK sz \in Nat : sz = Size(f)
    BY <1>1 DEF Size, Frags
  <2>2. n <= sz
    BY <1>4, <2>1
  <2>3. j \in Nat /\ j >= 1
    BY <1>2
  <2>4. j = q + 1 - (n - 1)
    BY <1>6, <1>7, <1>9
  <2>5. PICK s \in Nat : s = j - 1
    BY <2>3
  <2>6. s < q /\ q + 1 - s <= sz
    BY <1>5, <2>2, <2>3, <2>4, <2>5
  <2>7. QED BY <2>1, <2>5, <2>6
<1>13. /\ Base(s) \in Nat /\ Base(s) <= s /\ s < Base(s) + BlockSize /\ Base(s) % BlockSize = 0 /\ s % BlockSize \in Nat
  BY BaseFacts
<1>14. s % BlockSize = s - Base(s)
  BY <1>13 DEF Base
<1>15. PICK b \in Nat : b = Base(s) /\ b % BlockSize = 0 /\ b < q
  BY <1>12, <1>13
<1>16. b + BlockSize <= q
  BY ONLY <1>15, b \in Nat, q \in Nat, q % BlockSize = 0, BlocksApart
<1>17. (s - b) + Size(f) <= BlockSize
  BY <1>11, <1>12, <1>14, <1>15 DEF InBlock
<1>18. PICK sz \in Nat : sz = Size(f)
  BY <1>1 DEF Size, Frags
<1>19. QED BY <1>1, <1>12, <1>16, <1>17, <1>18

\* The fragment that follows the end of another one behind at most a trailer,
\* and does not begin a record, continues that one.
LEMMA Predecessor ==
  ASSUME NEW c, Log(c), NEW a \in DOMAIN c, Closes(c[a]), NEW q \in Nat, a <= q, q - a < HeaderSize,
         NEW j \in DOMAIN c, j = q + 1, Real(c[j]), c[j].at = 1, ~Begins(c[j].frag)
  PROVE  Continued(c, a, j)
<1>1. HeaderSize \in Nat /\ HeaderSize > 1
  BY LogAssumption
<1>2. Chained(c) /\ DOMAIN c = 1 .. Len(file) /\ Len(file) \in Nat
  BY LogFacts DEF Log, Clean
<1>3. PICK i \in DOMAIN c : Continued(c, i, j)
  BY <1>2 DEF Chained
<1>4. i < j /\ Closes(c[i]) /\ \A k \in DOMAIN c : i < k /\ k < j => c[k] = ZeroByte
  BY <1>3 DEF Continued
<1>5. i \in Nat /\ a \in Nat
  BY <1>2
<1>6. ~(i < a)
  <2>1. SUFFICES ASSUME i < a PROVE FALSE
    OBVIOUS
  <2>2. c[a] = ZeroByte
    BY <1>4, <1>5, <2>1
  <2>3. QED BY <2>2, ZeroFacts
<1>7. ~(a < i)
  <2>1. SUFFICES ASSUME a < i PROVE FALSE
    OBVIOUS
  <2>2. i - a >= HeaderSize
    BY <1>4, <2>1, ClosesApart
  <2>3. QED BY <1>1, <1>4, <1>5, <2>2
<1>8. i = a
  BY <1>5, <1>6, <1>7
<1>9. QED BY <1>3, <1>8

\* A reader looks at most a trailer ahead.
LEMMA LooksAhead ==
  ASSUME NEW c, Log(c), NEW rs \in RS, NEW b, Buffer(rs, b), NEW fs, fs = Full(rs)
  PROVE  fs \in RS /\ rs.at \in Nat /\ fs.at \in Nat /\ rs.at <= fs.at /\ fs.at - rs.at < HeaderSize
<1>1. HeaderSize \in Nat /\ HeaderSize > 1 /\ file \in Seq(Byte)
  BY LogAssumption, LogFacts
<1>2. /\ fs \in RS
      /\ \/ fs = rs
         \/ fs.at = rs.upTo /\ rs.upTo - rs.at < HeaderSize
      /\ fs.at >= rs.at
  BY <1>1, FullFacts
<1>3. rs.at \in Nat /\ fs.at \in Nat
  BY <1>2 DEF RS
<1>4. QED BY <1>1, <1>2, <1>3

\* The first and the last byte of a fragment that is taken.
LEMMA TookEnds ==
  ASSUME NEW c, Log(c), NEW fs \in RS, NEW d, FullBuffer(fs, d), Took(fs), NEW f, f = Head1(fs)
  PROVE  /\ f \in Frags /\ f.rec # 0 /\ IsFrag(f, added) /\ Size(f) \in Nat /\ Size(f) >= HeaderSize
         /\ fs.at \in Nat /\ fs.at + 1 \in DOMAIN c /\ c[fs.at + 1] = Part(f, 1)
         /\ fs.at + Size(f) \in DOMAIN c /\ c[fs.at + Size(f)] = Part(f, Size(f))
<1>1. HeaderSize \in Nat /\ HeaderSize > 1 /\ Len(file) \in Nat /\ DOMAIN c = 1 .. Len(file)
  BY LogAssumption, LogFacts
<1>2. /\ f \in Frags /\ f.rec # 0 /\ IsFrag(f, added) /\ Size(f) \in Nat /\ Size(f) >= HeaderSize
      /\ fs.at + Size(f) <= Len(file)
      /\ \A i \in 1 .. Size(f) : c[fs.at + i] = Part(f, i)
  BY TookFacts
<1>3. fs.at \in Nat
  BY DEF RS
<1>4. 1 \in 1 .. Size(f) /\ Size(f) \in 1 .. Size(f)
  BY <1>1, <1>2
<1>5. c[fs.at + 1] = Part(f, 1) /\ c[fs.at + Size(f)] = Part(f, Size(f))
  BY <1>2, <1>4
<1>6. fs.at + 1 \in DOMAIN c /\ fs.at + Size(f) \in DOMAIN c
  BY <1>1, <1>2, <1>3
<1>7. QED BY <1>2, <1>3, <1>5, <1>6

-----------------------------------------------------------------------------
(* What a reader delivers.                                                   *)

\* Record r has no byte before o.
FromOn(c, r, o) == \A i \in DOMAIN c : c[i].frag.rec = r => i > o

\* The last byte of record r is among the first `at'.
ClosedBy(c, r, at) == \E j \in DOMAIN c : j <= at /\ c[j].frag.rec = r /\ Closes(c[j]) /\ Ends(c[j].frag)

\* Fragments of one record that follow each other, from the first on.
Chain(c, fr, o) ==
  /\ fr \in Seq(Frags) /\ Len(fr) >= 1 /\ fr[1].rec \in DOMAIN added /\ fr[1].from = 0 /\ FromOn(c, fr[1].rec, o)
  /\ \A k \in 2 .. Len(fr) : fr[k].rec = fr[1].rec /\ fr[k].from = fr[k - 1].from + fr[k - 1].len

\* The reader is behind the last fragment of the record in progress.
InProgress(c, rs, o) ==
  rs.partial =>
    /\ Chain(c, rs.scratch, o) /\ rs.at \in DOMAIN c /\ ~Ends(Last(rs.scratch))
    /\ c[rs.at] = Part(Last(rs.scratch), Size(Last(rs.scratch)))

IsRead(c, fr, at, o) == Chain(c, fr, o) /\ IsRecord(fr) /\ ClosedBy(c, fr[1].rec, at)

Delivers(c, out, at, o) ==
  /\ \A i \in DOMAIN out : IsRead(c, out[i], at, o)
  /\ \A i, j \in DOMAIN out : i < j => out[i][1].rec < out[j][1].rec

\* The reader is where a fragment ended, or at the end of its buffer.
Stands(c, rs) == rs.at = rs.upTo \/ (rs.at \in DOMAIN c /\ Closes(c[rs.at]))

ReaderInv(c, rs, o) ==
  /\ rs \in RS /\ (\E b : Buffer(rs, b))
  /\ ~rs.done => InProgress(c, rs, o) /\ (rs.resyncing => ~rs.partial) /\ Stands(c, rs)
  /\ Delivers(c, rs.out, rs.at, o)

\* A chain of one fragment.
LEMMA ChainOne ==
  ASSUME NEW c, NEW o, NEW f \in Frags, IsFrag(f, added), f.from = 0, FromOn(c, f.rec, o)
  PROVE  Chain(c, <<f>>, o) /\ <<f>>[1] = f /\ Last(<<f>>) = f
<1>1. PICK fr : fr = <<f>>
  OBVIOUS
<1>2. fr \in Seq(Frags) /\ Len(fr) = 1 /\ fr[1] = f
  BY <1>1
<1>3. Last(fr) = f
  BY <1>2 DEF Last
<1>4. Chain(c, fr, o)
  BY <1>2 DEF Chain, IsFrag
<1>5. QED BY <1>1, <1>2, <1>3, <1>4

\* The fragments of a chain are of one record.
LEMMA ChainLast ==
  ASSUME NEW c, NEW o, NEW fr, Chain(c, fr, o)
  PROVE  Last(fr).rec = fr[1].rec /\ Last(fr) \in Frags /\ fr \in Seq(Frags) /\ fr[1] \in Frags /\ fr[1].rec \in DOMAIN added
<1>1. PICK n \in Nat : n = Len(fr) /\ n >= 1 /\ fr \in Seq(Frags)
  BY DEF Chain
<1>2. Last(fr) = fr[n]
  BY <1>1 DEF Last
<1>3. n = 1 \/ n \in 2 .. Len(fr)
  BY <1>1
<1>4. fr[n].rec = fr[1].rec
  BY <1>3 DEF Chain
<1>5. QED BY <1>1, <1>2, <1>4 DEF Chain

\* A chain that grows.
LEMMA ChainAppend ==
  ASSUME NEW c, NEW o, NEW fr, Chain(c, fr, o), NEW f \in Frags, f.rec = fr[1].rec, f.from = Last(fr).from + Last(fr).len
  PROVE  Chain(c, Append(fr, f), o) /\ Append(fr, f)[1] = fr[1] /\ Last(Append(fr, f)) = f
<1>1. PICK n \in Nat : n = Len(fr) /\ n >= 1 /\ fr \in Seq(Frags)
  BY DEF Chain
<1>2. PICK g : g = Append(fr, f)
  OBVIOUS
<1>3. g \in Seq(Frags) /\ Len(g) = n + 1 /\ g[n + 1] = f /\ \A i \in 1 .. n : g[i] = fr[i]
  BY <1>1, <1>2
<1>4. Last(g) = f /\ Last(fr) = fr[n]
  BY <1>1, <1>3 DEF Last
<1>5. g[1] = fr[1]
  BY <1>1, <1>3
<1>6. ASSUME NEW k \in 2 .. n + 1 PROVE g[k].rec = g[1].rec /\ g[k].from = g[k - 1].from + g[k - 1].len
  <2>1. CASE k = n + 1
    <3>1. g[k] = f /\ k - 1 = n /\ g[n] = fr[n]
      BY <1>1, <1>3, <2>1
    <3>2. QED BY <1>4, <1>5, <3>1
  <2>2. CASE k # n + 1
    <3>1. k \in 2 .. n /\ k \in 1 .. n /\ k - 1 \in 1 .. n
      BY <1>1, <2>2
    <3>2. g[k] = fr[k] /\ g[k - 1] = fr[k - 1]
      BY <1>3, <3>1
    <3>3. fr[k].rec = fr[1].rec /\ fr[k].from = fr[k - 1].from + fr[k - 1].len
      BY <1>1, <3>1 DEF Chain
    <3>4. QED BY <1>5, <3>2, <3>3
  <2>3. QED BY <2>1, <2>2
<1>7. Chain(c, g, o)
  BY <1>1, <1>3, <1>5, <1>6 DEF Chain
<1>8. QED BY <1>2, <1>4, <1>5, <1>7

\* A chain up to the last fragment is a record.
LEMMA ChainRecord ==
  ASSUME NEW c, NEW o, NEW fr, Chain(c, fr, o), IsFrag(Last(fr), added), Ends(Last(fr))
  PROVE  IsRecord(fr)
<1>1. Last(fr).rec = fr[1].rec
  BY ChainLast
<1>2. Last(fr).from + Last(fr).len = added[fr[1].rec].len
  BY <1>1 DEF IsFrag
<1>3. QED BY <1>2 DEF IsRecord, Chain

\* A record whose first fragment is at o or later has no byte before o.
LEMMA BeginsAt ==
  ASSUME NEW c, Log(c), NEW o \in Nat, NEW q \in Nat, o <= q, NEW f \in Frags, f.rec # 0, Begins(f),
         q + 1 \in DOMAIN c, c[q + 1] = Part(f, 1)
  PROVE  FromOn(c, f.rec, o)
<1>1. Ordered(c) /\ DOMAIN c = 1 .. Len(file) /\ Len(file) \in Nat
  BY LogFacts DEF Log, Clean
<1>2. PICK j \in DOMAIN c : j = q + 1
  OBVIOUS
<1>3. Real(c[j]) /\ c[j].frag = f /\ c[j].at = 1
  BY <1>2, PartFacts
<1>4. ASSUME NEW i \in DOMAIN c, c[i].frag.rec = f.rec PROVE i > o
  <2>1. Real(c[i])
    BY <1>4 DEF Real
  <2>2. c[i].frag.rec \in Nat /\ f.rec \in Nat
    BY <1>1, <1>4 DEF Frags
  <2>3. ~(i < j)
    BY <1>1, <1>3, <1>4, <2>1, <2>2 DEF Ordered
  <2>4. QED BY <1>1, <1>2, <2>3
<1>5. QED BY <1>4 DEF FromOn

\* What was delivered stays delivered.
LEMMA DeliversMore ==
  ASSUME NEW c, Log(c), NEW out, NEW at \in Nat, NEW o, Delivers(c, out, at, o), NEW e \in Nat, at <= e
  PROVE  Delivers(c, out, e, o)
<1>1. DOMAIN c = 1 .. Len(file) /\ Len(file) \in Nat
  BY LogFacts
<1>2. ASSUME NEW i \in DOMAIN out PROVE IsRead(c, out[i], e, o)
  <2>1. IsRead(c, out[i], at, o)
    BY DEF Delivers
  <2>2. PICK j \in DOMAIN c : j <= at /\ c[j].frag.rec = out[i][1].rec /\ Closes(c[j]) /\ Ends(c[j].frag)
    BY <2>1 DEF IsRead, ClosedBy
  <2>3. j <= e
    BY <1>1, <2>2
  <2>4. ClosedBy(c, out[i][1].rec, e)
    BY <2>2, <2>3 DEF ClosedBy
  <2>5. QED BY <2>1, <2>4 DEF IsRead
<1>3. QED BY <1>2 DEF Delivers

\* A record that ends at e is behind the ones that were delivered.
LEMMA DeliversAppend ==
  ASSUME NEW c, Log(c), NEW out \in Seq(Seq(Frags)), NEW at \in Nat, NEW o, Delivers(c, out, at, o),
         NEW e \in DOMAIN c, at < e, NEW fr \in Seq(Frags), Chain(c, fr, o), IsRecord(fr),
         c[e].frag.rec = fr[1].rec, Closes(c[e]), Ends(c[e].frag)
  PROVE  Delivers(c, Append(out, fr), e, o)
<1>1. Ordered(c) /\ DOMAIN c = 1 .. Len(file) /\ Len(file) \in Nat
  BY LogFacts DEF Log, Clean
<1>2. e \in Nat
  BY <1>1
<1>3. Delivers(c, out, e, o)
  BY <1>2, DeliversMore
<1>4. PICK n \in Nat : n = Len(out)
  OBVIOUS
<1>5. PICK g : g = Append(out, fr)
  OBVIOUS
<1>6. DOMAIN out = 1 .. n /\ DOMAIN g = 1 .. n + 1 /\ g[n + 1] = fr /\ \A i \in 1 .. n : g[i] = out[i]
  BY <1>4, <1>5
<1>7. IsRead(c, fr, e, o)
  <2>1. ClosedBy(c, fr[1].rec, e)
    BY <1>2 DEF ClosedBy
  <2>2. QED BY <2>1 DEF IsRead
<1>8. ASSUME NEW i \in 1 .. n + 1 PROVE IsRead(c, g[i], e, o)
  <2>1. CASE i = n + 1
    BY <1>6, <1>7, <2>1
  <2>2. CASE i # n + 1
    <3>1. i \in 1 .. n
      BY <2>2
    <3>2. QED BY <1>3, <1>6, <3>1 DEF Delivers
  <2>3. QED BY <2>1, <2>2
<1>9. ASSUME NEW i \in 1 .. n PROVE out[i][1].rec < fr[1].rec
  <2>1. IsRead(c, out[i], at, o)
    BY <1>6 DEF Delivers
  <2>2. PICK j \in DOMAIN c : j <= at /\ c[j].frag.rec = out[i][1].rec /\ Closes(c[j]) /\ Ends(c[j].frag)
    BY <2>1 DEF IsRead, ClosedBy
  <2>3. j < e
    BY <1>1, <1>2, <2>2
  <2>4. Real(c[j]) /\ Real(c[e])
    BY <2>2 DEF Closes
  <2>5. c[j].frag.rec < c[e].frag.rec
    BY <1>1, <2>2, <2>3, <2>4 DEF Ordered
  <2>6. QED BY <2>2, <2>5
<1>10. ASSUME NEW i \in 1 .. n + 1, NEW j \in 1 .. n + 1, i < j PROVE g[i][1].rec < g[j][1].rec
  <2>1. i \in 1 .. n /\ g[i] = out[i]
    BY <1>6, <1>10
  <2>2. CASE j = n + 1
    BY <1>6, <1>9, <2>1, <2>2
  <2>3. CASE j # n + 1
    <3>1. j \in 1 .. n /\ g[j] = out[j]
      BY <1>6, <2>3
    <3>2. QED BY <1>6, <1>10, <2>1, <3>1 DEF Delivers
  <2>4. QED BY <2>2, <2>3
<1>11. Delivers(c, g, e, o)
  BY <1>6, <1>8, <1>10 DEF Delivers
<1>12. QED BY <1>5, <1>11

\* The fragment a reader takes next continues the one it stands behind.
LEMMA TookContinues ==
  ASSUME NEW c, Log(c), NEW rs \in RS, NEW b, Buffer(rs, b), NEW fs, fs = Full(rs), Took(fs), NEW f, f = Head1(fs),
         ~Begins(f), rs.at \in DOMAIN c, Closes(c[rs.at])
  PROVE  /\ ~Ends(c[rs.at].frag) /\ c[rs.at].frag.rec = f.rec
         /\ f.from = c[rs.at].frag.from + c[rs.at].frag.len
<1>1. fs \in RS /\ fs.at \in Nat /\ rs.at <= fs.at /\ fs.at - rs.at < HeaderSize
  BY LooksAhead
<1>2. PICK d : FullBuffer(fs, d)
  BY FullFacts, LogFacts
<1>3. f \in Frags /\ f.rec # 0 /\ fs.at + 1 \in DOMAIN c /\ c[fs.at + 1] = Part(f, 1)
  BY <1>1, <1>2, TookEnds
<1>4. PICK j \in DOMAIN c : j = fs.at + 1 /\ c[j] = Part(f, 1)
  BY <1>3
<1>5. Real(c[j]) /\ c[j].frag = f /\ c[j].at = 1
  BY <1>3, <1>4, PartFacts
<1>6. PICK q \in Nat : q = fs.at /\ rs.at <= q /\ q - rs.at < HeaderSize /\ j = q + 1
  BY <1>1, <1>4
<1>7. PICK a \in DOMAIN c : a = rs.at /\ Closes(c[a]) /\ a <= q /\ q - a < HeaderSize
  BY <1>6
<1>8. Continued(c, a, j)
  BY <1>5, <1>6, <1>7, Predecessor
<1>9. QED BY <1>5, <1>7, <1>8 DEF Continued

\* A turn that takes fragment f.
LEMMA TakeKeeps ==
  ASSUME NEW c, Log(c), NEW o \in Nat, NEW rs, ReaderInv(c, rs, o), ~rs.done, NEW fs, fs = Full(rs), Took(fs), fs.at >= o,
         NEW f, f = Head1(fs), NEW next \in RS, Handled(rs, next, f), next.at = fs.at + Size(f), \E d : Buffer(next, d)
  PROVE  ReaderInv(c, next, o)
<1>1. rs \in RS /\ InProgress(c, rs, o) /\ (rs.resyncing => ~rs.partial) /\ Delivers(c, rs.out, rs.at, o)
  BY DEF ReaderInv
<1>2. PICK b : Buffer(rs, b)
  BY DEF ReaderInv
<1>3. fs \in RS /\ rs.at \in Nat /\ fs.at \in Nat /\ rs.at <= fs.at
  BY <1>1, <1>2, LooksAhead
<1>4. PICK d : FullBuffer(fs, d)
  BY <1>1, <1>2, FullFacts, LogFacts
<1>5. /\ f \in Frags /\ f.rec # 0 /\ IsFrag(f, added) /\ Size(f) \in Nat /\ Size(f) >= HeaderSize
      /\ fs.at + 1 \in DOMAIN c /\ c[fs.at + 1] = Part(f, 1)
      /\ fs.at + Size(f) \in DOMAIN c /\ c[fs.at + Size(f)] = Part(f, Size(f))
  BY <1>3, <1>4, TookEnds
<1>6. HeaderSize \in Nat /\ HeaderSize > 1
  BY LogAssumption
<1>7. PICK e \in DOMAIN c : e = fs.at + Size(f) /\ c[e] = Part(f, Size(f)) /\ next.at = e
  BY <1>5
<1>8. e \in Nat /\ rs.at < e
  <2>1. PICK sz \in Nat : sz = Size(f) /\ sz >= HeaderSize
    BY <1>5
  <2>2. QED BY <1>3, <1>6, <1>7, <2>1
<1>9. Closes(c[e]) /\ c[e].frag = f
  BY <1>5, <1>7, PartFacts
<1>10. Stands(c, next)
  BY <1>7, <1>9 DEF Stands
<1>11. Delivers(c, rs.out, e, o)
  BY <1>1, <1>3, <1>8, DeliversMore
<1>12. rs.out \in Seq(Seq(Frags)) /\ rs.partial \in BOOLEAN
  BY <1>1 DEF RS
<1>13. ASSUME Begins(f) PROVE f.from = 0 /\ FromOn(c, f.rec, o)
  <2>1. f.from = 0
    BY <1>5, <1>13 DEF IsFrag
  <2>2. PICK q \in Nat : q = fs.at /\ o <= q /\ q + 1 \in DOMAIN c /\ c[q + 1] = Part(f, 1)
    BY <1>3, <1>5
  <2>3. FromOn(c, f.rec, o)
    BY <1>5, <1>13, <2>2, BeginsAt
  <2>4. QED BY <2>1, <2>3
<1>14. ASSUME rs.partial, ~Begins(f)
       PROVE  Chain(c, Append(rs.scratch, f), o) /\ Append(rs.scratch, f)[1].rec = f.rec /\ Last(Append(rs.scratch, f)) = f
  <2>1. PICK sc : sc = rs.scratch
    OBVIOUS
  <2>2. Chain(c, sc, o) /\ rs.at \in DOMAIN c /\ c[rs.at] = Part(Last(sc), Size(Last(sc)))
    BY <1>1, <1>14, <2>1 DEF InProgress
  <2>3. Last(sc).rec = sc[1].rec /\ Last(sc) \in Frags /\ sc[1].rec \in DOMAIN added
    BY <2>2, ChainLast
  <2>4. PICK g \in Frags : g = Last(sc) /\ g.rec # 0
    BY <2>3, LogFacts
  <2>5. Closes(c[rs.at]) /\ c[rs.at].frag = g
    BY <2>2, <2>4, PartFacts
  <2>6. g.rec = f.rec /\ f.from = g.from + g.len
    BY <1>1, <1>2, <1>14, <2>2, <2>5, TookContinues
  <2>7. f.rec = sc[1].rec /\ f.from = Last(sc).from + Last(sc).len
    BY <2>3, <2>4, <2>6
  <2>8. Chain(c, Append(sc, f), o) /\ Append(sc, f)[1] = sc[1] /\ Last(Append(sc, f)) = f
    BY <1>5, <2>2, <2>7, ChainAppend
  <2>9. QED BY <2>1, <2>7, <2>8
<1>15. f.type \in {"full", "first", "middle", "last"}
  BY <1>5 DEF Frags
<1>16. CASE f.type = "full"
  <2>1. next.out = Append(rs.out, <<f>>) /\ ~next.partial /\ (next.resyncing => ~next.partial)
    BY <1>16 DEF Handled
  <2>2. Begins(f) /\ Ends(f)
    BY <1>16 DEF Begins, Ends
  <2>3. PICK fr : fr = <<f>>
    OBVIOUS
  <2>4. Chain(c, fr, o) /\ fr[1] = f /\ Last(fr) = f
    BY <1>5, <1>13, <2>2, <2>3, ChainOne
  <2>5. IsRecord(fr)
    BY <1>5, <2>2, <2>4, ChainRecord
  <2>6. fr \in Seq(Frags)
    BY <2>4 DEF Chain
  <2>7. Delivers(c, Append(rs.out, fr), e, o)
    BY <1>1, <1>3, <1>8, <1>9, <1>12, <2>2, <2>4, <2>5, <2>6, DeliversAppend
  <2>8. InProgress(c, next, o)
    BY <2>1 DEF InProgress
  <2>9. QED BY <1>7, <1>10, <2>1, <2>3, <2>7, <2>8 DEF ReaderInv
<1>17. CASE f.type = "first"
  <2>1. next.out = rs.out /\ next.partial /\ next.scratch = <<f>> /\ ~next.resyncing
    BY <1>17 DEF Handled
  <2>2. Begins(f) /\ ~Ends(f)
    BY <1>17 DEF Begins, Ends
  <2>3. Chain(c, <<f>>, o) /\ Last(<<f>>) = f
    BY <1>5, <1>13, <2>2, ChainOne
  <2>4. InProgress(c, next, o)
    BY <1>7, <2>1, <2>2, <2>3 DEF InProgress
  <2>5. QED BY <1>7, <1>10, <1>11, <2>1, <2>4 DEF ReaderInv
<1>18. CASE ~Begins(f) /\ rs.partial /\ f.type = "middle"
  <2>1. next.out = rs.out /\ next.partial /\ next.scratch = Append(rs.scratch, f) /\ ~next.resyncing
    BY <1>1, <1>18 DEF Handled
  <2>2. ~Ends(f)
    BY <1>18 DEF Ends
  <2>3. InProgress(c, next, o)
    BY <1>7, <1>14, <1>18, <2>1, <2>2 DEF InProgress
  <2>4. QED BY <1>7, <1>10, <1>11, <2>1, <2>3 DEF ReaderInv
<1>19. CASE ~Begins(f) /\ rs.partial /\ f.type = "last"
  <2>1. PICK fr : fr = Append(rs.scratch, f)
    OBVIOUS
  <2>2. next.out = Append(rs.out, fr) /\ ~next.partial
    BY <1>1, <1>19, <2>1 DEF Handled
  <2>3. Ends(f)
    BY <1>19 DEF Ends
  <2>4. Chain(c, fr, o) /\ fr[1].rec = f.rec /\ Last(fr) = f
    BY <1>14, <1>19, <2>1
  <2>5. IsRecord(fr)
    BY <1>5, <2>3, <2>4, ChainRecord
  <2>6. fr \in Seq(Frags)
    BY <2>4 DEF Chain
  <2>7. Delivers(c, Append(rs.out, fr), e, o)
    BY <1>1, <1>3, <1>8, <1>9, <1>12, <2>3, <2>4, <2>5, <2>6, DeliversAppend
  <2>8. InProgress(c, next, o)
    BY <2>2 DEF InProgress
  <2>9. QED BY <1>7, <1>10, <2>2, <2>7, <2>8 DEF ReaderInv
<1>20. CASE ~Begins(f) /\ ~rs.partial
  <2>1. next.out = rs.out /\ ~next.partial
    BY <1>12, <1>20 DEF Handled, Kept
  <2>2. InProgress(c, next, o)
    BY <2>1 DEF InProgress
  <2>3. QED BY <1>7, <1>10, <1>11, <2>1, <2>2 DEF ReaderInv
<1>21. QED BY <1>15, <1>16, <1>17, <1>18, <1>19, <1>20 DEF Begins

\* Every turn keeps what a reader delivers and has in progress.
LEMMA ReaderKeeps ==
  ASSUME NEW c, Log(c), NEW o \in Nat, NEW rs, ReaderInv(c, rs, o), ~rs.done, NEW next, Stepped(rs, Full(rs), next, o)
  PROVE  ReaderInv(c, next, o)
<1>1. rs \in RS /\ Delivers(c, rs.out, rs.at, o)
  BY DEF ReaderInv
<1>2. PICK b : Buffer(rs, b)
  BY DEF ReaderInv
<1>3. PICK fs : fs = Full(rs)
  OBVIOUS
<1>4. fs \in RS /\ rs.at \in Nat /\ fs.at \in Nat /\ rs.at <= fs.at
  BY <1>1, <1>2, <1>3, LooksAhead
<1>5. next \in RS /\ (\E d : Buffer(next, d)) /\ next.upTo = fs.upTo /\ next.at >= fs.at
  BY <1>3 DEF Stepped
<1>6. next.at \in Nat /\ rs.at <= next.at
  <2>1. next.at \in Nat
    BY <1>5 DEF RS
  <2>2. QED BY <1>4, <1>5, <2>1
<1>7. Delivers(c, rs.out, next.at, o)
  BY <1>1, <1>4, <1>6, DeliversMore
<1>8. CASE AtEnd(fs)
  <2>1. next.done /\ next.out = rs.out
    BY <1>3, <1>8 DEF Stepped, Kept
  <2>2. QED BY <1>5, <1>7, <2>1 DEF ReaderInv
<1>9. CASE ~AtEnd(fs) /\ ~Took(fs)
  <2>1. next.out = rs.out /\ ~next.partial /\ next.at = fs.upTo
    BY <1>3, <1>9 DEF Stepped, Gave
  <2>2. QED BY <1>5, <1>7, <2>1 DEF ReaderInv, InProgress, Stands
<1>10. CASE Took(fs)
  <2>1. PICK f : f = Head1(fs)
    OBVIOUS
  <2>2. next.at = fs.at + Size(f) /\ (fs.at < o => Gave(rs, next)) /\ (fs.at >= o => Handled(rs, next, f))
    BY <1>3, <1>10, <2>1 DEF Stepped
  <2>3. CASE fs.at < o
    <3>1. next.out = rs.out /\ ~next.partial
      BY <2>2, <2>3 DEF Gave
    <3>2. PICK d : FullBuffer(fs, d)
      BY <1>1, <1>2, <1>3, FullFacts, LogFacts
    <3>3. f \in Frags /\ f.rec # 0 /\ fs.at + Size(f) \in DOMAIN c /\ c[fs.at + Size(f)] = Part(f, Size(f))
      BY <1>4, <1>10, <2>1, <3>2, TookEnds
    <3>4. Closes(c[next.at]) /\ next.at \in DOMAIN c
      BY <2>2, <3>3, PartFacts
    <3>5. QED BY <1>5, <1>7, <3>1, <3>4 DEF ReaderInv, InProgress, Stands
  <2>4. CASE fs.at >= o
    BY <1>3, <1>5, <1>10, <2>1, <2>2, <2>4, TakeKeeps
  <2>5. QED BY <1>4, <2>3, <2>4
<1>11. QED BY <1>8, <1>9, <1>10

\* It holds of every state a reader goes through.
LEMMA ReaderInvHolds ==
  ASSUME NEW c, Log(c), NEW o \in Nat, NEW run, IsRun(run, o)
  PROVE  \A n \in Turned : ReaderInv(c, run[n], o)
<1> DEFINE I == {rs \in RS : ReaderInv(c, rs, o)}
<1>1. run[0] \in I
  <2>1. PICK rs : rs = run[0] /\ rs = ReaderStart(o)
    BY DEF IsRun
  <2>2. rs \in RS /\ Buffer(rs, rs.at) /\ rs.at = rs.upTo /\ ~rs.partial /\ rs.out = <<>>
    BY <2>1, StartFacts
  <2>3. Delivers(c, rs.out, rs.at, o)
    <3>1. DOMAIN rs.out = {}
      BY <2>2
    <3>2. QED BY <3>1 DEF Delivers
  <2>4. ReaderInv(c, rs, o)
    BY <2>2, <2>3 DEF ReaderInv, InProgress, Stands
  <2>5. QED BY <2>1, <2>2, <2>4
<1>2. ASSUME NEW n \in Turned, run[n] \in I, ~run[n].done PROVE run[n + 1] \in I
  <2>1. Stepped(run[n], Full(run[n]), run[n + 1], o)
    BY <1>2, RunTurn
  <2>2. PICK rs, next : rs = run[n] /\ next = run[n + 1]
    OBVIOUS
  <2>3. ReaderInv(c, next, o)
    BY <1>2, <2>1, <2>2, ReaderKeeps
  <2>4. QED BY <2>2, <2>3 DEF ReaderInv
<1> HIDE DEF I
<1>3. \A n \in Turned : run[n] \in I
  BY <1>1, <1>2, RunInduct
<1>4. QED BY <1>3 DEF I

\* A reader delivers whole records only, as they were added and in their order.
LEMMA ReadsDeliver ==
  ASSUME NEW c, Log(c), NEW o \in Nat
  PROVE  ReadLog(o).out \in Seq(Seq(Frags)) /\ \E at \in Nat : Delivers(c, ReadLog(o).out, at, o)
<1>1. PICK run : IsRun(run, o)
  BY RunExists1, LogFacts
<1>2. PICK n \in Turned : n = Len(file) + 2
  BY LogFacts DEF Turned
<1>3. ReadLog(o) = run[n]
  BY <1>1, <1>2 DEF IsRun
<1>4. ReaderInv(c, run[n], o)
  BY <1>1, ReaderInvHolds
<1>5. QED BY <1>3, <1>4 DEF ReaderInv, RS

\* NothingInvented, for every size of block and header: whatever was appended,
\* failed, was lost in a crash or went bad, a reader from the start of the file
\* delivers only records that were added, each whole and in their order.
THEOREM ReaderInventsNothing == Spec => []NothingInvented
<1>1. FileInv => NothingInvented
  <2>1. SUFFICES ASSUME FileInv PROVE NothingInvented
    OBVIOUS
  <2>2. PICK c : Log(c)
    BY <2>1, FileIsLog
  <2>3. PICK o \in Nat : o = 0
    OBVIOUS
  <2>4. PICK out : out = ReadLog(o).out
    OBVIOUS
  <2>5. PICK at \in Nat : Delivers(c, out, at, o)
    BY <2>2, <2>4, ReadsDeliver
  <2>6. \A i \in DOMAIN out : IsRecord(out[i])
    BY <2>5 DEF Delivers, IsRead
  <2>7. \A i, j \in DOMAIN out : i < j => out[i][1].rec < out[j][1].rec
    BY <2>5 DEF Delivers
  <2>8. out = ReadLog(0).out
    BY <2>3, <2>4
  <2>9. QED BY <2>6, <2>7, <2>8 DEF NothingInvented
<1>2. QED BY <1>1, FileLaid, PTL

-----------------------------------------------------------------------------
(* What a reader cannot miss.                                                *)

\* Record r is delivered.
Has(rs, r) == \E i \in DOMAIN rs.out : rs.out[i][1].rec = r

\* One more record is delivered.
LEMMA HasAppend ==
  ASSUME NEW rs \in RS, NEW next, NEW fr, next.out = Append(rs.out, fr), NEW r, Has(rs, r) \/ fr[1].rec = r
  PROVE  Has(next, r)
<1>1. PICK n \in Nat : n = Len(rs.out) /\ DOMAIN rs.out = 1 .. n
  BY DEF RS
<1>2. PICK out \in Seq(Seq(Frags)) : out = rs.out
  BY DEF RS
<1>3. PICK g : g = next.out
  OBVIOUS
<1>4. DOMAIN g = 1 .. n + 1 /\ g[n + 1] = fr /\ \A i \in 1 .. n : g[i] = out[i]
  BY <1>1, <1>2, <1>3
<1>5. CASE Has(rs, r)
  <2>1. PICK i \in 1 .. n : out[i][1].rec = r
    BY <1>1, <1>2, <1>5 DEF Has
  <2>2. i \in DOMAIN g /\ g[i][1].rec = r
    BY <1>4, <2>1
  <2>3. QED BY <1>3, <2>2 DEF Has
<1>6. CASE fr[1].rec = r
  <2>1. n + 1 \in DOMAIN g /\ g[n + 1][1].rec = r
    BY <1>1, <1>4, <1>6
  <2>2. QED BY <1>3, <2>1 DEF Has
<1>7. QED BY <1>5, <1>6

\* A turn takes nothing back.
LEMMA StepGrows ==
  ASSUME NEW c, Log(c), NEW o \in Nat, NEW rs \in RS, NEW b, Buffer(rs, b), NEW next,
         Stepped(rs, Full(rs), next, o), NEW r, Has(rs, r)
  PROVE  Has(next, r)
<1>1. PICK fs : fs = Full(rs)
  OBVIOUS
<1>2. fs \in RS /\ fs.at \in Nat
  BY <1>1, LooksAhead
<1>3. CASE next.out = rs.out
  BY <1>3 DEF Has
<1>4. ASSUME NEW fr, next.out = Append(rs.out, fr) PROVE Has(next, r)
  BY <1>4, HasAppend
<1>5. CASE AtEnd(fs)
  BY <1>1, <1>3, <1>5 DEF Stepped, Kept
<1>6. CASE ~AtEnd(fs) /\ ~Took(fs)
  BY <1>1, <1>3, <1>6 DEF Stepped, Gave
<1>7. CASE Took(fs) /\ fs.at < o
  BY <1>1, <1>3, <1>7 DEF Stepped, Gave
<1>8. CASE Took(fs) /\ fs.at >= o
  <2>1. PICK f : f = Head1(fs)
    OBVIOUS
  <2>2. PICK d : FullBuffer(fs, d)
    BY <1>1, FullFacts, LogFacts
  <2>3. f \in Frags
    BY <1>2, <1>8, <2>1, <2>2, TookEnds
  <2>4. Handled(rs, next, f)
    BY <1>1, <1>8, <2>1 DEF Stepped
  <2>5. f.type \in {"full", "first", "middle", "last"} /\ rs.partial \in BOOLEAN /\ rs.resyncing \in BOOLEAN
    BY <2>3 DEF Frags, RS
  <2>6. next.out = rs.out \/ next.out = Append(rs.out, <<f>>) \/ next.out = Append(rs.out, Append(rs.scratch, f))
    BY <2>4, <2>5 DEF Handled, Begins, Kept
  <2>7. QED BY <1>3, <1>4, <2>6
<1>9. QED BY <1>2, <1>5, <1>6, <1>7, <1>8

\* What is delivered at some turn is delivered in the end.
LEMMA RunGrows ==
  ASSUME NEW c, Log(c), NEW o \in Nat, NEW run, IsRun(run, o), NEW m \in Turned, NEW r, Has(run[m], r)
  PROVE  Has(ReadLog(o), r)
<1>h. PICK N \in Nat : N = Len(file) + 2 /\ Turned = 0 .. N
  BY LogFacts DEF Turned
<1> DEFINE Q == {k \in Turned : k < m \/ Has(run[k], r)}
<1>1. 0 \in Q
  BY <1>h
<1>2. ASSUME NEW k \in 1 .. N, k - 1 \in Q PROVE k \in Q
  <2>1. k \in Turned /\ k # 0
    BY <1>h
  <2>2. run[k] = IF run[k - 1].done THEN run[k - 1] ELSE ReaderStep(run[k - 1], o)
    BY <2>1 DEF IsRun
  <2>3. PICK n \in Turned : n = k - 1 /\ (n < m \/ Has(run[n], r))
    BY <1>2
  <2>4. n + 1 = k
    BY <2>3, <1>h
  <2>5. CASE n < m
    <3>1. k < m \/ k = m
      BY <1>h, <2>4, <2>5
    <3>2. QED BY <2>1, <3>1
  <2>6. CASE Has(run[n], r) /\ run[n].done
    BY <2>1, <2>2, <2>3, <2>6
  <2>7. CASE Has(run[n], r) /\ ~run[n].done
    <3>1. /\ run[n] \in RS /\ (\E b : Buffer(run[n], b)) /\ Stepped(run[n], Full(run[n]), run[n + 1], o)
      BY <2>7, RunTurn
    <3>2. PICK rs, next : rs = run[n] /\ next = run[n + 1]
      OBVIOUS
    <3>3. Has(next, r)
      BY <2>7, <3>1, <3>2, StepGrows
    <3>4. QED BY <2>1, <2>4, <3>2, <3>3
  <2>8. QED BY <2>3, <2>5, <2>6, <2>7
<1> HIDE DEF Q
<1>3. \A k \in 0 .. N : k \in Q
  BY <1>1, <1>2, UpTo
<1>4. N \in Q
  BY <1>3
<1>5. Has(run[N], r)
  BY <1>4, <1>h DEF Q
<1>6. QED BY <1>5, <1>h DEF IsRun

\* The byte behind one of a fragment is the next one of that fragment.
LEMMA NextByte ==
  ASSUME NEW c, Log(c), NEW x \in DOMAIN c, NEW y \in DOMAIN c, y = x + 1, NEW g \in Frags, g.rec # 0, NEW k \in Nat,
         c[x] = Part(g, k), k < Size(g), c[y] # ZeroByte \/ Trailers(c), Real(c[y]) => added[c[y].frag.rec].placed
  PROVE  c[y] = Part(g, k + 1)
<1>1. Whole1(c) /\ Aligned(c, added) /\ DOMAIN c = 1 .. Len(file) /\ Len(file) \in Nat
  BY LogFacts DEF Log, Clean
<1>2. x \in Nat /\ x >= 1 /\ y > 1 /\ y - 1 = x
  BY <1>1
<1>3. PICK sz \in Nat : sz = Size(g)
  BY LogAssumption DEF Size, Frags
<1>4. c[x] # ZeroByte /\ ~Closes(c[x]) /\ c[x].at = k /\ c[x].frag = g
  <2>1. ~(k = Size(g))
    BY <1>3
  <2>2. QED BY <2>1, PartFacts
<1>5. Real(c[y])
  <2>1. SUFFICES ASSUME ~Real(c[y]) PROVE FALSE
    OBVIOUS
  <2>2. c[y] = ZeroByte
    BY <1>1, <2>1, LogFacts
  <2>3. Trailers(c)
    BY <2>2
  <2>4. c[x] = ZeroByte \/ Closes(c[x])
    BY <1>2, <2>2, <2>3 DEF Trailers
  <2>5. QED BY <1>4, <2>4
<1>6. c[y].at \in Nat /\ 1 <= c[y].at /\ c[y] = Part(c[y].frag, c[y].at) /\ c[y].frag \in Frags
  BY <1>1, <1>5, LogFacts
<1>7. c[y].at # 1
  <2>1. SUFFICES ASSUME c[y].at = 1 PROVE FALSE
    OBVIOUS
  <2>2. c[x] = ZeroByte \/ Closes(c[x])
    BY <1>1, <1>2, <1>5, <2>1 DEF Aligned
  <2>3. QED BY <1>4, <2>2
<1>8. PICK n \in Nat : n = c[y].at /\ n > 1
  BY <1>6, <1>7
<1>9. c[x] = Part(c[y].frag, n - 1)
  BY <1>1, <1>2, <1>5, <1>8 DEF Whole1
<1>10. c[y].frag = g /\ n - 1 = k
  <2>1. c[x].frag = c[y].frag /\ c[x].at = n - 1
    BY <1>9 DEF Part
  <2>2. QED BY <1>4, <2>1
<1>11. n = k + 1
  BY <1>8, <1>10
<1>12. QED BY <1>6, <1>8, <1>10, <1>11

\* The bytes of a fragment, as far as no zero and nothing torn can be.
LEMMA Forward ==
  ASSUME NEW c, Log(c), NEW q \in Nat, q + 1 \in DOMAIN c, NEW g \in Frags, g.rec # 0, c[q + 1] = Part(g, 1),
         NEW L \in 0 .. Len(file),
         \A x \in DOMAIN c : q < x /\ x <= L =>
           (c[x] # ZeroByte \/ Trailers(c)) /\ (Real(c[x]) => added[c[x].frag.rec].placed),
         NEW k \in Nat, k >= 1, k <= Size(g), q + k <= L
  PROVE  c[q + k] = Part(g, k)
<1>1. DOMAIN c = 1 .. Len(file) /\ Len(file) \in Nat
  BY LogFacts
<1>2. PICK sz \in Nat : sz = Size(g)
  BY LogAssumption DEF Size, Frags
<1> DEFINE Q == {n \in Nat : n = 0 \/ c[q + n] = Part(g, n)}
<1>3. 0 \in Q
  OBVIOUS
<1>4. ASSUME NEW n \in 1 .. k, n - 1 \in Q PROVE n \in Q
  <2>1. CASE n = 1
    BY <2>1
  <2>2. CASE n # 1
    <3>1. PICK m \in Nat : m = n - 1 /\ m >= 1 /\ c[q + m] = Part(g, m)
      BY <1>4, <2>2
    <3>2. PICK x \in DOMAIN c : x = q + m
      BY <1>1, <3>1
    <3>3. PICK y \in DOMAIN c : y = x + 1 /\ q < y /\ y <= L
      BY <1>1, <3>1, <3>2
    <3>4. (c[y] # ZeroByte \/ Trailers(c)) /\ (Real(c[y]) => added[c[y].frag.rec].placed)
      BY <3>3
    <3>5. c[x] = Part(g, m) /\ m < Size(g)
      BY <1>2, <3>1, <3>2
    <3>6. c[y] = Part(g, m + 1)
      BY <3>3, <3>4, <3>5, NextByte
    <3>7. y = q + n /\ m + 1 = n
      BY <3>1, <3>2, <3>3
    <3>8. QED BY <3>6, <3>7
  <2>3. QED BY <2>1, <2>2
<1> HIDE DEF Q
<1>5. \A n \in 0 .. k : n \in Q
  BY <1>3, <1>4, UpTo
<1>6. k \in 0 .. k
  OBVIOUS
<1>7. QED BY <1>5, <1>6 DEF Q

\* A fragment of a placed record that is intact in the file is taken by the
\* reader that stands before it.
LEMMA TakesIntact ==
  ASSUME NEW c, Log(c), NEW fs \in RS, NEW d, FullBuffer(fs, d), NEW f \in Frags, f.rec # 0, added[f.rec].placed,
         fs.at + Size(f) <= Len(file), \A i \in 1 .. Size(f) : c[fs.at + i] = Part(f, i) /\ file[fs.at + i] = Part(f, i)
  PROVE  Took(fs) /\ Head1(fs) = f
<1>1. HeaderSize \in Nat /\ HeaderSize > 1 /\ BlockSize \in Nat
  BY LogAssumption
<1>2. Aligned(c, added) /\ DOMAIN c = 1 .. Len(file) /\ Len(file) \in Nat
  BY LogFacts DEF Log, Clean
<1>3. PICK sz \in Nat : sz = Size(f) /\ sz >= HeaderSize
  BY <1>1 DEF Size, Frags
<1>4. PICK q \in Nat : q = fs.at
  BY DEF RS
<1>5. fs.upTo \in Nat
  BY DEF RS
<1>6. 1 \in 1 .. Size(f)
  BY <1>1, <1>3
<1>7. file[q + 1] = Part(f, 1) /\ c[q + 1] = Part(f, 1)
  BY <1>4, <1>6
<1>8. Head1(fs) = f
  BY <1>4, <1>7, PartFacts DEF Head1
<1>9. PICK j \in DOMAIN c : j = q + 1
  BY <1>1, <1>2, <1>3, <1>4
<1>10. Real(c[j]) /\ c[j].frag = f /\ c[j].at = 1
  BY <1>7, <1>9, PartFacts
<1>11. (q % BlockSize) + sz <= BlockSize
  <2>1. InBlock(j) + Size(f) <= BlockSize
    BY <1>2, <1>10 DEF Aligned
  <2>2. j - 1 = q
    BY <1>9
  <2>3. QED BY <1>3, <2>1, <2>2 DEF InBlock
<1>12. d \in Nat /\ d % BlockSize = 0 /\ d <= q /\ q <= fs.upTo
  BY <1>4 DEF FullBuffer
<1>13. sz <= fs.upTo - q
  <2>1. CASE fs.eof
    <3>1. fs.upTo >= Len(file)
      BY <2>1 DEF FullBuffer
    <3>2. QED BY <1>2, <1>3, <1>4, <1>5, <3>1
  <2>2. CASE ~fs.eof
    <3>1. fs.upTo = d + BlockSize /\ fs.upTo - q >= HeaderSize
      BY <1>4, <2>2 DEF FullBuffer
    <3>2. q < d + BlockSize
      BY <1>1, <1>5, <1>12, <3>1
    <3>3. PICK s \in Nat : s = d
      BY <1>12
    <3>4. q % BlockSize = q - s
      <4>1. s % BlockSize = 0 /\ s <= q /\ q < s + BlockSize
        BY <1>12, <3>2, <3>3
      <4>2. QED BY ONLY <4>1, s \in Nat, q \in Nat, SameBlock
    <3>5. QED BY <1>1, <1>11, <3>1, <3>3, <3>4
  <2>3. QED BY <2>1, <2>2
<1>14. Reads(fs.at, f, Size(f))
  BY DEF Reads, Part
<1>15. fs.upTo - fs.at >= HeaderSize
  BY <1>1, <1>3, <1>4, <1>5, <1>13
<1>16. QED BY <1>3, <1>4, <1>8, <1>13, <1>14, <1>15 DEF Took

\* Fragment f of a placed record is in the file at p, and nothing before it in
\* its block is damaged.
Reachable(c, p, f) ==
  /\ p \in Nat /\ f \in Frags /\ f.rec # 0 /\ f.rec \in DOMAIN added /\ added[f.rec].placed
  /\ p + 1 \in DOMAIN c /\ c[p + 1] = Part(f, 1) /\ p + Size(f) <= Len(file)
  /\ \A x \in DOMAIN c : Base(p) < x /\ x <= p => file[x] = c[x]

\* Before such a fragment there are fragments of placed records only, without
\* a gap, from the start of the block.
LEMMA NoGap ==
  ASSUME NEW c, Log(c), NEW p, NEW f, Reachable(c, p, f), NEW s \in Nat, s = Base(p), NEW x \in DOMAIN c, s < x, x <= p + 1
  PROVE  c[x] # ZeroByte /\ Real(c[x]) /\ added[c[x].frag.rec].placed
<1>1. BlockSize \in Nat /\ BlockSize > 0
  BY LogAssumption
<1>2. Aligned(c, added) /\ Ordered(c) /\ DOMAIN c = 1 .. Len(file) /\ Len(file) \in Nat
  BY LogFacts DEF Log, Clean
<1>3. p \in Nat /\ f \in Frags /\ f.rec # 0 /\ f.rec \in DOMAIN added /\ added[f.rec].placed
  BY DEF Reachable
<1>4. PICK j \in DOMAIN c : j = p + 1 /\ c[j] = Part(f, 1)
  BY DEF Reachable
<1>5. Real(c[j]) /\ c[j].frag = f /\ c[j].at = 1
  BY <1>3, <1>4, PartFacts
<1>6. CASE x = j
  <2>1. c[x] # ZeroByte
    BY <1>3, <1>4, <1>6, PartFacts
  <2>2. QED BY <1>3, <1>5, <1>6, <2>1
<1>7. CASE x # j
  <2>1. x \in Nat /\ x < j
    BY <1>2, <1>3, <1>4, <1>7
  <2>2. InBlock(j) = p - s
    <3>1. p % BlockSize = p - s
      <4>1. p % BlockSize \in Nat
        BY <1>3, BaseFacts
      <4>2. QED BY <1>3, <4>1 DEF Base
    <3>2. j - 1 = p
      BY <1>3, <1>4
    <3>3. QED BY <3>1, <3>2 DEF InBlock
  <2>3. j - x <= InBlock(j)
    BY <1>3, <1>4, <2>1, <2>2
  <2>4. c[x] # ZeroByte
    BY <1>2, <1>3, <1>5, <2>1, <2>3 DEF Aligned
  <2>5. Real(c[x])
    BY <1>2, <2>4, LogFacts
  <2>6. c[x].frag.rec <= f.rec
    BY <1>2, <1>5, <2>1, <2>5 DEF Ordered
  <2>7. c[x].frag.rec \in DOMAIN added /\ c[x].frag.rec \in Nat
    BY <1>2, <2>5, LogFacts DEF Frags
  <2>8. c[x].frag.rec = f.rec \/ c[x].frag.rec < f.rec
    BY <1>3, <2>6, <2>7 DEF Frags
  <2>9. added[c[x].frag.rec].placed
    BY <1>3, <2>7, <2>8 DEF Log, PlacedFirst
  <2>10. QED BY <2>4, <2>5, <2>9
<1>8. QED BY <1>6, <1>7

\* A reader in the block of such a fragment, before it, takes a fragment.
LEMMA TakesBefore ==
  ASSUME NEW c, Log(c), NEW p, NEW f, Reachable(c, p, f), NEW rs \in RS, NEW b, Buffer(rs, b), Stands(c, rs),
         NEW fs, fs = Full(rs), NEW d, FullBuffer(fs, d), fs.at < p, p < d + BlockSize
  PROVE  Took(fs) /\ fs.at + Size(Head1(fs)) <= p
<1>1. HeaderSize \in Nat /\ HeaderSize > 1 /\ BlockSize \in Nat /\ BlockSize > 0 /\ file \in Seq(Byte)
  BY LogAssumption, LogFacts
<1>2. Whole1(c) /\ DOMAIN c = 1 .. Len(file) /\ Len(file) \in Nat
  BY LogFacts DEF Log, Clean
<1>3. p \in Nat /\ f \in Frags /\ f.rec # 0 /\ p + 1 \in DOMAIN c /\ c[p + 1] = Part(f, 1) /\ p + Size(f) <= Len(file)
  BY DEF Reachable
<1>4. /\ fs \in RS /\ rs.at \in Nat /\ rs.upTo \in Nat
      /\ \/ fs = rs /\ (rs.upTo - rs.at >= HeaderSize \/ rs.eof)
         \/ fs.at = rs.upTo /\ rs.upTo % BlockSize = 0
  BY <1>1, FullFacts DEF RS
<1>5. PICK q \in Nat : q = fs.at
  BY <1>4 DEF RS
<1>6. PICK s \in Nat : s = d /\ s % BlockSize = 0 /\ s <= q /\ q < p /\ p < s + BlockSize
  BY <1>5 DEF FullBuffer
<1>7. s = Base(p)
  <2>1. s <= p
    BY <1>3, <1>6
  <2>2. QED BY ONLY <1>6, <1>3, <2>1, s \in Nat, SameBlock
<1>8. PICK j \in DOMAIN c : j = q + 1 /\ s < j /\ j <= p /\ j > 0
  BY <1>2, <1>3, <1>5, <1>6
<1>9. /\ c[j] # ZeroByte /\ Real(c[j]) /\ added[c[j].frag.rec].placed
  <2>1. j <= p + 1
    BY <1>2, <1>3, <1>8
  <2>2. QED BY <1>7, <1>8, <2>1, NoGap
<1>10. PICK g \in Frags : g = c[j].frag /\ g.rec # 0
  BY <1>2, <1>9, LogFacts DEF Real
<1>11. PICK n \in Nat : n = c[j].at /\ 1 <= n /\ n <= Size(g) /\ c[j] = Part(g, n)
  BY <1>2, <1>9, <1>10, LogFacts
<1>12. PICK sz \in Nat : sz = Size(g) /\ sz >= HeaderSize
  BY <1>1, <1>10 DEF Size, Frags
<1>13. n = 1
  <2>1. CASE fs = rs /\ (rs.upTo - rs.at >= HeaderSize \/ rs.eof)
    <3>1. rs.at # rs.upTo
      <4>1. SUFFICES ASSUME rs.at = rs.upTo PROVE FALSE
        OBVIOUS
      <4>2. rs.eof
        BY <1>1, <1>4, <2>1, <4>1
      <4>3. fs.upTo >= Len(file)
        BY <2>1, <4>2 DEF FullBuffer
      <4>4. PICK zf \in Nat : zf = Size(f)
        BY <1>1, <1>3 DEF Size, Frags
      <4>5. QED BY <1>2, <1>3, <1>4, <1>5, <1>6, <2>1, <4>1, <4>3, <4>4
    <3>2. PICK a \in DOMAIN c : a = q /\ Closes(c[a])
      BY <1>5, <2>1, <3>1 DEF Stands
    <3>3. SUFFICES ASSUME n > 1 PROVE FALSE
      BY <1>11
    <3>4. j - 1 = a
      BY <1>8, <3>2
    <3>5. c[a] = Part(g, n - 1)
      BY <1>2, <1>9, <1>10, <1>11, <3>3, <3>4 DEF Whole1
    <3>6. n - 1 = Size(g)
      BY ONLY <1>10, <3>2, <3>5, g \in Frags, PartFacts
    <3>7. QED BY <1>11, <1>12, <3>6
  <2>2. CASE fs.at = rs.upTo /\ rs.upTo % BlockSize = 0
    <3>1. q % BlockSize = 0 /\ q + 1 \in DOMAIN c /\ Real(c[q + 1]) /\ added[c[q + 1].frag.rec].placed
      BY <1>5, <1>8, <1>9, <2>2
    <3>2. c[q + 1].at = 1
      BY <3>1, BlockHead
    <3>3. QED BY <1>8, <1>11, <3>2
  <2>3. QED BY <1>4, <2>1, <2>2
<1>14. PICK L \in 0 .. Len(file) : L = p + 1
  BY <1>2, <1>3
<1>15. \A x \in DOMAIN c : q < x /\ x <= L =>
         (c[x] # ZeroByte \/ Trailers(c)) /\ (Real(c[x]) => added[c[x].frag.rec].placed)
  <2>1. SUFFICES ASSUME NEW x \in DOMAIN c, q < x, x <= L
                 PROVE  (c[x] # ZeroByte \/ Trailers(c)) /\ (Real(c[x]) => added[c[x].frag.rec].placed)
    OBVIOUS
  <2>2. s < x /\ x <= p + 1
    BY <1>2, <1>5, <1>6, <1>14, <2>1
  <2>3. QED BY <1>7, <2>2, NoGap
<1>16. ASSUME NEW k \in Nat, k >= 1, k <= Size(g), q + k <= L PROVE c[q + k] = Part(g, k)
  <2>1. c[q + 1] = Part(g, 1) /\ q + 1 \in DOMAIN c
    BY <1>8, <1>11, <1>13
  <2>2. QED BY <1>10, <1>15, <1>16, <2>1, Forward
<1>17. q + sz <= p
  <2>1. SUFFICES ASSUME q + sz > p PROVE FALSE
    BY <1>3, <1>12
  <2>2. PICK k \in Nat : k = p + 1 - q /\ k > 1
    BY <1>3, <1>6
  <2>3. k <= sz /\ q + k <= L /\ q + k = p + 1
    BY <1>3, <1>14, <2>1, <2>2
  <2>4. c[q + k] = Part(g, k)
    BY <1>12, <1>16, <2>2, <2>3
  <2>5. Part(f, 1) = Part(g, k)
    BY <1>3, <2>3, <2>4
  <2>6. k = 1
    BY <2>5 DEF Part
  <2>7. QED BY <2>2, <2>6
<1>18. ASSUME NEW i \in 1 .. sz PROVE c[q + i] = Part(g, i) /\ file[q + i] = Part(g, i)
  <2>1. q + i <= L /\ q + i \in DOMAIN c /\ s < q + i /\ q + i <= p
    BY <1>2, <1>3, <1>6, <1>14, <1>17
  <2>2. c[q + i] = Part(g, i)
    BY <1>12, <1>16, <2>1
  <2>3. file[q + i] = c[q + i]
    BY <1>7, <2>1 DEF Reachable
  <2>4. QED BY <2>2, <2>3
<1>19. q + sz <= Len(file)
  BY <1>2, <1>3, <1>12, <1>17
<1>20. Took(fs) /\ Head1(fs) = g
  <2>1. \A i \in 1 .. Size(g) : c[fs.at + i] = Part(g, i) /\ file[fs.at + i] = Part(g, i)
    BY <1>5, <1>12, <1>18
  <2>2. fs.at + Size(g) <= Len(file) /\ added[g.rec].placed
    BY <1>5, <1>9, <1>10, <1>12, <1>19
  <2>3. QED BY <1>4, <1>10, <2>1, <2>2, TakesIntact
<1>21. QED BY <1>5, <1>12, <1>17, <1>20

\* A reader that starts at or before such a fragment gets to it.
LEMMA Visits ==
  ASSUME NEW c, Log(c), NEW o \in Nat, NEW run, IsRun(run, o), NEW p, NEW f, Reachable(c, p, f), run[0].at <= p
  PROVE  \E m \in Turned : ~run[m].done /\ Full(run[m]).at = p
<1>1. HeaderSize \in Nat /\ HeaderSize > 1 /\ BlockSize \in Nat /\ BlockSize > 0 /\ file \in Seq(Byte)
  BY LogAssumption, LogFacts
<1>2. Aligned(c, added) /\ DOMAIN c = 1 .. Len(file) /\ Len(file) \in Nat
  BY LogFacts DEF Log, Clean
<1>3. /\ p \in Nat /\ f \in Frags /\ f.rec # 0 /\ p + 1 \in DOMAIN c /\ c[p + 1] = Part(f, 1) /\ p + Size(f) <= Len(file)
      /\ added[f.rec].placed
  BY DEF Reachable
<1>4. PICK N \in Nat : N = Len(file) + 2 /\ Turned = 0 .. N
  BY <1>2 DEF Turned
<1>5. PICK sz \in Nat : sz = Size(f) /\ sz >= HeaderSize
  BY <1>1, <1>3 DEF Size, Frags
<1> DEFINE S == {n \in Turned : ~run[n].done /\ Full(run[n]).at <= p}
<1>6. 0 \in S
  <2>1. PICK rs : rs = run[0] /\ rs = ReaderStart(o)
    BY DEF IsRun
  <2>2. rs \in RS /\ Buffer(rs, rs.at) /\ rs.at = rs.upTo /\ ~rs.done
    BY <2>1, StartFacts
  <2>3. Full(rs) = rs \/ Full(rs).at = rs.upTo
    BY <1>1, <2>2, FullFacts
  <2>4. Full(rs).at <= p
    BY <2>1, <2>2, <2>3
  <2>5. ~run[0].done /\ Full(run[0]).at <= p
    BY ONLY <2>1, <2>2, <2>4
  <2>6. 0 \in Turned
    BY <1>4
  <2>7. QED BY ONLY <2>5, <2>6
<1>7. PICK m \in S : \A n \in S : n <= m
  <2>1. S \subseteq Nat /\ \A n \in S : n <= N
    BY <1>4
  <2>2. S # {}
    BY <1>6
  <2> HIDE DEF S
  <2>3. Max(S) \in S /\ \A n \in S : n <= Max(S)
    BY <2>1, <2>2, MaxOfNats
  <2>4. QED BY <2>3
<1>8. m \in Turned /\ ~run[m].done /\ Full(run[m]).at <= p
  OBVIOUS
<1> HIDE DEF S
<1>9. SUFFICES ASSUME Full(run[m]).at # p PROVE FALSE
  BY <1>8
<1>10. PICK rs, next : rs = run[m] /\ next = run[m + 1]
  OBVIOUS
<1>11. PICK fs : fs = Full(rs)
  OBVIOUS
<1>12. /\ m + 1 \in Turned /\ rs \in RS /\ (\E b : Buffer(rs, b)) /\ Stepped(rs, fs, next, o)
  BY <1>8, <1>10, <1>11, RunTurn
<1>13. PICK b : Buffer(rs, b)
  BY <1>12
<1>14. fs \in RS /\ \E d : FullBuffer(fs, d)
  BY <1>1, <1>11, <1>12, <1>13, FullFacts
<1>15. PICK d : FullBuffer(fs, d)
  BY <1>14
<1>16. PICK q \in Nat : q = fs.at
  BY <1>14 DEF RS
<1>17. q < p
  BY <1>3, <1>8, <1>9, <1>10, <1>11, <1>16
<1>18. PICK u \in Nat : u = fs.upTo
  BY <1>14 DEF RS
<1>19. PICK s \in Nat : s = d /\ s % BlockSize = 0 /\ s <= q /\ q <= u /\ u <= s + BlockSize
  BY <1>15, <1>16, <1>18 DEF FullBuffer
<1>20. /\ fs.eof => u < s + BlockSize /\ u >= Len(file)
       /\ ~fs.eof => u = s + BlockSize /\ u - q >= HeaderSize
  BY <1>15, <1>16, <1>18, <1>19 DEF FullBuffer
<1>21. Stands(c, rs)
  <2>1. ReaderInv(c, run[m], o)
    BY <1>8, ReaderInvHolds
  <2>2. QED BY <1>8, <1>10, <2>1 DEF ReaderInv
<1>22. p < s + BlockSize => Took(fs) /\ q + Size(Head1(fs)) <= p
  BY <1>11, <1>12, <1>13, <1>15, <1>16, <1>17, <1>19, <1>21, TakesBefore
<1>23. p >= s + BlockSize => ~fs.eof
  BY <1>1, <1>2, <1>3, <1>5, <1>20
<1>24. ~AtEnd(fs)
  <2>1. CASE p < s + BlockSize
    BY <1>12, <1>22, <2>1 DEF Stepped
  <2>2. CASE p >= s + BlockSize
    <3>1. ~fs.eof /\ ~(fs.upTo - fs.at < HeaderSize)
      BY <1>1, <1>16, <1>18, <1>20, <1>23, <2>2
    <3>2. QED BY <3>1 DEF AtEnd
  <2>3. QED BY <1>1, <1>3, <2>1, <2>2
<1>25. next \in RS /\ ~next.done /\ next.upTo = u /\ next.eof = fs.eof
  BY <1>12, <1>18, <1>24 DEF Stepped
<1>26. PICK e : Buffer(next, e)
  BY <1>12 DEF Stepped
<1>27. PICK t \in Nat : t = next.at /\ t <= u
  BY <1>25, <1>26 DEF Buffer, RS
<1>28. \/ Full(next) = next
       \/ Full(next).at = u /\ u - t < HeaderSize /\ ~next.eof
  BY <1>1, <1>25, <1>26, <1>27, FullFacts
<1>29. Full(next).at <= p
  <2>1. CASE p >= s + BlockSize
    <3>1. u <= p /\ t <= p
      BY <1>1, <1>3, <1>19, <1>27, <2>1
    <3>2. QED BY <1>27, <1>28, <3>1
  <2>2. CASE p < s + BlockSize
    <3>1. t <= p
      BY <1>12, <1>16, <1>22, <1>27, <2>2 DEF Stepped
    <3>2. u - t < HeaderSize => next.eof
      <4>1. SUFFICES ASSUME ~fs.eof PROVE u - t >= HeaderSize
        BY <1>1, <1>25, <1>27
      <4>2. u = s + BlockSize
        BY <1>20, <4>1
      <4>3. PICK j \in DOMAIN c : j = p + 1
        BY <1>3
      <4>4. Real(c[j]) /\ c[j].frag = f /\ c[j].at = 1
        BY <1>3, <4>3, PartFacts
      <4>5. InBlock(j) + Size(f) <= BlockSize
        BY <1>2, <1>3, <4>4 DEF Aligned
      <4>6. p % BlockSize = p - s
        <5>1. s <= p
          BY <1>3, <1>17, <1>19
        <5>2. QED BY ONLY <1>19, <1>3, <2>2, <5>1, s \in Nat, SameBlock
      <4>7. j - 1 = p
        BY <1>3, <4>3
      <4>8. (p - s) + sz <= BlockSize
        BY <1>5, <4>5, <4>6, <4>7 DEF InBlock
      <4>9. QED BY <1>1, <1>3, <1>5, <3>1, <4>2, <4>8
    <3>3. QED BY <1>27, <1>28, <3>1, <3>2
  <2>3. QED BY <1>1, <1>3, <2>1, <2>2
<1>30. m + 1 \in S
  BY <1>10, <1>12, <1>25, <1>29 DEF S
<1>31. m + 1 <= m
  BY <1>7, <1>30
<1>32. m \in Nat
  BY <1>4, <1>8
<1>33. QED BY <1>31, <1>32

\* The reader that stands behind a fragment looks at the one that continues it.
LEMMA LooksAt ==
  ASSUME NEW c, Log(c), NEW p, NEW f, Reachable(c, p, f), NEW rs \in RS, NEW b, Buffer(rs, b),
         NEW i \in DOMAIN c, rs.at = i, NEW j \in DOMAIN c, j = p + 1, Continued(c, i, j)
  PROVE  Full(rs).at = p
<1>1. HeaderSize \in Nat /\ HeaderSize > 1 /\ BlockSize \in Nat /\ BlockSize > HeaderSize /\ file \in Seq(Byte)
  BY LogAssumption, LogFacts
<1>2. Aligned(c, added) /\ DOMAIN c = 1 .. Len(file) /\ Len(file) \in Nat
  BY LogFacts DEF Log, Clean
<1>3. p \in Nat /\ f \in Frags /\ f.rec # 0 /\ c[j] = Part(f, 1) /\ added[f.rec].placed
  BY DEF Reachable
<1>4. Real(c[j]) /\ c[j].frag = f /\ c[j].at = 1
  BY <1>3, PartFacts
<1>5. j - 1 = p /\ i \in Nat /\ i >= 1
  BY <1>2, <1>3
<1>6. PICK sz \in Nat : sz = Size(f) /\ sz >= HeaderSize
  BY <1>1, <1>3 DEF Size, Frags
<1>7. InBlock(j) = p % BlockSize
  BY <1>5 DEF InBlock
<1>8. (p % BlockSize) + sz <= BlockSize
  BY <1>2, <1>3, <1>4, <1>6, <1>7 DEF Aligned
<1>9. PICK u \in Nat : u = rs.upTo
  BY DEF RS
<1>10. \/ Full(rs).at = i /\ (u - i >= HeaderSize \/ rs.eof)
       \/ Full(rs).at = u /\ u - i < HeaderSize /\ ~rs.eof /\ u % BlockSize = 0
  BY <1>1, <1>9, FullFacts
<1>11. PICK s \in Nat : s = b /\ s % BlockSize = 0 /\ s <= i /\ i <= u /\ u <= s + BlockSize
  BY <1>9 DEF Buffer
<1>12. /\ rs.eof => u >= Len(file)
       /\ ~rs.eof => u = s + BlockSize \/ i = s
  BY <1>9, <1>11 DEF Buffer
<1>13. i < j /\ j - i <= HeaderSize /\ \A k \in DOMAIN c : i < k /\ k < j => c[k] = ZeroByte
  BY DEF Continued
<1>14. CASE i = p
  <2>1. SUFFICES ASSUME Full(rs).at = u, u - i < HeaderSize, u % BlockSize = 0, u # p PROVE FALSE
    BY <1>10, <1>14
  <2>2. PICK B \in Nat : B = Base(p) /\ B <= p /\ B % BlockSize = 0
    BY <1>3, BaseFacts
  <2>3. p % BlockSize = p - B
    <3>1. p % BlockSize \in Nat
      BY <1>3, BaseFacts
    <3>2. QED BY <1>3, <2>2, <3>1 DEF Base
  <2>4. B < u
    BY <1>3, <1>11, <1>14, <2>1, <2>2
  <2>5. B + BlockSize <= u
    BY ONLY <2>1, <2>2, <2>4, B \in Nat, u \in Nat, BlocksApart
  <2>6. QED BY <1>1, <1>3, <1>6, <1>8, <1>14, <2>1, <2>3, <2>5
<1>15. CASE i # p
  <2>1. i < p
    BY <1>3, <1>5, <1>13, <1>15
  <2>2. PICK z \in DOMAIN c : z = p /\ c[z] = ZeroByte
    <3>1. p \in DOMAIN c /\ p < j
      BY <1>2, <1>3, <1>5, <2>1
    <3>2. QED BY <1>13, <2>1, <3>1
  <2>3. p % BlockSize = 0
    <3>1. ~(z < j /\ j - z <= InBlock(j))
      BY <1>2, <1>3, <1>4, <2>2 DEF Aligned
    <3>2. p % BlockSize \in Nat
      BY <1>3, BaseFacts
    <3>3. z < j /\ j - z = 1
      BY <1>3, <1>5, <2>2
    <3>4. QED BY <1>7, <3>1, <3>2, <3>3
  <2>4. s < p
    BY <1>3, <1>5, <1>11, <2>1
  <2>5. s + BlockSize <= p
    BY ONLY <1>11, <1>3, <2>3, <2>4, s \in Nat, BlocksApart
  <2>6. p - i < HeaderSize
    BY <1>1, <1>3, <1>5, <1>13
  <2>7. u <= p /\ ~rs.eof
    BY <1>1, <1>2, <1>3, <1>11, <1>12, <2>5
  <2>8. Full(rs).at = u
    BY <1>1, <1>3, <1>5, <1>10, <2>6, <2>7
  <2>9. u = s + BlockSize
    BY <1>1, <1>3, <1>5, <1>12, <2>5, <2>6, <2>7
  <2>10. u = p
    <3>1. SUFFICES ASSUME u < p PROVE FALSE
      BY <1>3, <2>7
    <3>2. u % BlockSize = 0
      <4>1. (s + BlockSize) % BlockSize = 0
        BY ONLY <1>11, s \in Nat, BlockNext
      <4>2. QED BY <2>9, <4>1
    <3>3. u + BlockSize <= p
      BY ONLY <1>3, <2>3, <3>1, <3>2, u \in Nat, BlocksApart
    <3>4. QED BY <1>1, <1>3, <1>5, <1>11, <2>6, <3>3
  <2>11. QED BY <2>8, <2>10
<1>16. QED BY <1>14, <1>15

\* A reader that starts at offset o starts before every fragment behind o.
LEMMA StartsBefore ==
  ASSUME NEW c, Log(c), NEW o \in Nat, NEW p, NEW f, Reachable(c, p, f), o <= p
  PROVE  ReaderStart(o).at <= p
<1>1. HeaderSize \in Nat /\ HeaderSize > 1 /\ BlockSize \in Nat /\ BlockSize > HeaderSize
  BY LogAssumption
<1>2. Aligned(c, added) /\ DOMAIN c = 1 .. Len(file) /\ Len(file) \in Nat
  BY LogFacts DEF Log, Clean
<1>3. p \in Nat /\ f \in Frags /\ f.rec # 0 /\ p + 1 \in DOMAIN c /\ c[p + 1] = Part(f, 1) /\ added[f.rec].placed
  BY DEF Reachable
<1>4. PICK j \in DOMAIN c : j = p + 1
  BY <1>3
<1>5. Real(c[j]) /\ c[j].frag = f /\ c[j].at = 1 /\ j - 1 = p
  BY <1>3, <1>4, PartFacts
<1>6. PICK sz \in Nat : sz = Size(f) /\ sz >= HeaderSize
  BY <1>1, <1>3 DEF Size, Frags
<1>7. (p % BlockSize) + sz <= BlockSize
  BY <1>2, <1>3, <1>5, <1>6 DEF Aligned, InBlock
<1>8. PICK B \in Nat : B = Base(o) /\ B <= o /\ B % BlockSize = 0 /\ o < B + BlockSize
  BY BaseFacts
<1>9. o % BlockSize = o - B
  <2>1. o % BlockSize \in Nat
    BY BaseFacts
  <2>2. QED BY <1>8, <2>1 DEF Base
<1>10. \/ ReaderStart(o).at = B
       \/ ReaderStart(o).at = B + BlockSize /\ o % BlockSize > BlockSize - (HeaderSize - 1)
  BY <1>8, StartFacts
<1>11. CASE p < B + BlockSize
  <2>1. B <= p
    BY <1>3, <1>8
  <2>2. p % BlockSize = p - B
    BY ONLY <1>8, <1>3, <1>11, <2>1, B \in Nat, SameBlock
  <2>3. ~(o % BlockSize > BlockSize - (HeaderSize - 1))
    BY <1>1, <1>3, <1>6, <1>7, <1>8, <1>9, <2>2
  <2>4. QED BY <1>10, <2>1, <2>3
<1>12. CASE ~(p < B + BlockSize)
  BY <1>1, <1>3, <1>8, <1>10, <1>12
<1>13. QED BY <1>11, <1>12

\* Record r was added while the writer knew its place, has no byte before o, and
\* is not damaged, nor anything before it in one of its blocks.
Safe(c, r, o) ==
  /\ r \in DOMAIN added /\ added[r].placed /\ FromOn(c, r, o)
  /\ \A e \in DOMAIN c : Closes(c[e]) /\ c[e].frag.rec = r =>
       \A x \in DOMAIN c : Base(e - Size(c[e].frag)) < x /\ x <= e => file[x] = c[x]

\* The reader has just read the fragment of r that ends at e.
Got(c, rs, e, r) ==
  /\ ~rs.done /\ rs.at = e
  /\ Ends(c[e].frag) => Has(rs, r)
  /\ ~Ends(c[e].frag) => rs.partial

\* The bytes of a fragment that is complete.
LEMMA FragPlace ==
  ASSUME NEW c, Log(c), NEW e \in DOMAIN c, Closes(c[e]), NEW f, f = c[e].frag
  PROVE  /\ f \in Frags /\ f.rec # 0 /\ \E sz \in Nat : sz = Size(f) /\ sz >= HeaderSize /\ sz <= e
         /\ \A k \in 1 .. Size(f) : e - Size(f) + k \in DOMAIN c /\ c[e - Size(f) + k] = Part(f, k)
<1>1. HeaderSize \in Nat /\ HeaderSize > 1 /\ BlockSize \in Nat
  BY LogAssumption
<1>2. c \in Seq(Byte) /\ Whole1(c) /\ DOMAIN c = 1 .. Len(file) /\ Len(file) \in Nat
  BY LogFacts DEF Log, Clean
<1>4. Real(c[e]) /\ c[e].at = Size(f)
  BY DEF Closes
<1>5. f \in Frags /\ f.rec # 0 /\ c[e] = Part(f, Size(f))
  <2>1. c[e].frag \in Frags /\ c[e] = Part(c[e].frag, c[e].at)
    BY <1>2, <1>4, LogFacts
  <2>2. QED BY <1>4, <2>1 DEF Real
<1>6. PICK sz \in Nat : sz = Size(f) /\ sz >= HeaderSize
  BY <1>1, <1>5 DEF Size, Frags
<1>7. e \in Nat /\ e <= Len(file)
  BY <1>2
<1>8. ASSUME NEW k \in 0 .. sz - 1 PROVE e - k \in DOMAIN c /\ c[e - k] = Part(f, sz - k)
  <2>1. c[e] = Part(f, sz) /\ f.rec # 0 /\ c \in Seq(Byte) /\ Whole1(c) /\ f \in Frags
    BY <1>2, <1>5, <1>6
  <2>2. QED BY ONLY <2>1, e \in DOMAIN c, sz \in Nat, k \in 0 .. sz - 1, Backward
<1>9. sz <= e
  <2>1. sz - 1 \in 0 .. sz - 1
    BY <1>1, <1>6
  <2>2. e - (sz - 1) \in DOMAIN c
    BY <1>8, <2>1
  <2>3. QED BY <1>2, <1>6, <1>7, <2>2
<1>10. ASSUME NEW k \in 1 .. sz PROVE e - sz + k \in DOMAIN c /\ c[e - sz + k] = Part(f, k)
  <2>1. PICK h \in 0 .. sz - 1 : h = sz - k
    OBVIOUS
  <2>2. e - h \in DOMAIN c /\ c[e - h] = Part(f, sz - h)
    BY <1>8
  <2>3. e - h = e - sz + k /\ sz - h = k
    BY <1>7, <2>1
  <2>4. QED BY <2>2, <2>3
<1>11. QED BY <1>5, <1>6, <1>9, <1>10

\* The place of a fragment of such a record.
LEMMA SafePlace ==
  ASSUME NEW c, Log(c), NEW o \in Nat, NEW r, Safe(c, r, o), NEW e \in DOMAIN c, Closes(c[e]), c[e].frag.rec = r,
         NEW f, f = c[e].frag, NEW p, p = e - Size(f)
  PROVE  /\ Reachable(c, p, f) /\ f.rec = r /\ o <= p /\ p + Size(f) = e
         /\ \A k \in 1 .. Size(f) : c[p + k] = Part(f, k) /\ file[p + k] = Part(f, k)
<1>1. HeaderSize \in Nat /\ HeaderSize > 1 /\ BlockSize \in Nat
  BY LogAssumption
<1>2. c \in Seq(Byte) /\ Whole1(c) /\ DOMAIN c = 1 .. Len(file) /\ Len(file) \in Nat
  BY LogFacts DEF Log, Clean
<1>3. r \in DOMAIN added /\ added[r].placed /\ FromOn(c, r, o)
  BY DEF Safe
<1>4. /\ f \in Frags /\ f.rec # 0 /\ \E sz \in Nat : sz = Size(f) /\ sz >= HeaderSize /\ sz <= e
      /\ \A k \in 1 .. Size(f) : e - Size(f) + k \in DOMAIN c /\ c[e - Size(f) + k] = Part(f, k)
  BY ONLY Log(c), e \in DOMAIN c, Closes(c[e]), f = c[e].frag, FragPlace
<1>5. f \in Frags /\ f.rec # 0
  BY <1>4
<1>6. PICK sz \in Nat : sz = Size(f) /\ sz >= HeaderSize /\ sz <= e
  BY <1>4
<1>7. e \in Nat /\ e <= Len(file)
  BY <1>2
<1>9. PICK t \in Nat : t = p /\ t = e - sz
  BY <1>6, <1>7
<1>10. ASSUME NEW k \in 1 .. sz PROVE t + k \in DOMAIN c /\ c[t + k] = Part(f, k)
  <2>1. e - sz + k \in DOMAIN c /\ c[e - sz + k] = Part(f, k)
    BY <1>4, <1>6
  <2>2. QED BY ONLY <1>9, <2>1
<1>11. \A x \in DOMAIN c : Base(t) < x /\ x <= e => file[x] = c[x]
  BY <1>9 DEF Safe
<1>12. PICK B \in Nat : B = Base(t) /\ B <= t
  BY BaseFacts
<1>13. \A k \in 1 .. sz : c[t + k] = Part(f, k) /\ file[t + k] = Part(f, k)
  <2>1. SUFFICES ASSUME NEW k \in 1 .. sz PROVE c[t + k] = Part(f, k) /\ file[t + k] = Part(f, k)
    OBVIOUS
  <2>2. t + k \in DOMAIN c /\ c[t + k] = Part(f, k)
    BY <1>10
  <2>3. B < t + k /\ t + k <= e
    BY <1>7, <1>9, <1>12
  <2>4. QED BY <1>11, <1>12, <2>2, <2>3
<1>14. t + 1 \in DOMAIN c /\ c[t + 1] = Part(f, 1)
  <2>1. 1 \in 1 .. sz
    BY <1>1, <1>6
  <2>2. QED BY <1>10, <2>1
<1>15. o <= t
  <2>1. c[t + 1].frag.rec = r
    BY <1>14, PartFacts, <1>5
  <2>2. t + 1 > o
    BY <1>3, <1>14, <2>1 DEF FromOn
  <2>3. QED BY <2>2
<1>16. Reachable(c, t, f)
  <2>1. \A x \in DOMAIN c : Base(t) < x /\ x <= t => file[x] = c[x]
    BY <1>2, <1>7, <1>9, <1>11
  <2>2. t + Size(f) <= Len(file)
    BY <1>2, <1>6, <1>7, <1>9
  <2>3. QED BY <1>3, <1>5, <1>14, <2>1, <2>2 DEF Reachable
<1>17. QED
  <2>1. p + Size(f) = e
    BY <1>6, <1>7, <1>9
  <2>2. o <= p /\ Reachable(c, p, f)
    BY <1>9, <1>15, <1>16
  <2>3. \A k \in 1 .. Size(f) : c[p + k] = Part(f, k) /\ file[p + k] = Part(f, k)
    BY <1>6, <1>9, <1>13
  <2>4. QED BY <2>1, <2>2, <2>3

\* A reader that stands before a fragment of such a record, and has the ones
\* before it in progress, reads it.
LEMMA ReadsFragment ==
  ASSUME NEW c, Log(c), NEW o \in Nat, NEW run, IsRun(run, o), NEW r, Safe(c, r, o),
         NEW e \in DOMAIN c, Closes(c[e]), c[e].frag.rec = r, NEW f, f = c[e].frag, NEW p, p = e - Size(f),
         NEW m \in Turned, ~run[m].done, Full(run[m]).at = p,
         Begins(f) \/ (run[m].partial /\ run[m].scratch[1].rec = r)
  PROVE  m + 1 \in Turned /\ Got(c, run[m + 1], e, r)
<1>1. PICK rs, next : rs = run[m] /\ next = run[m + 1]
  OBVIOUS
<1>2. PICK fs : fs = Full(rs)
  OBVIOUS
<1>3. m + 1 \in Turned /\ rs \in RS /\ (\E b : Buffer(rs, b)) /\ Stepped(rs, fs, next, o)
  BY <1>1, <1>2, RunTurn
<1>4. PICK b : Buffer(rs, b)
  BY <1>3
<1>5. fs \in RS /\ \E d : FullBuffer(fs, d)
  BY <1>2, <1>3, <1>4, FullFacts, LogFacts
<1>6. PICK d : FullBuffer(fs, d)
  BY <1>5
<1>7. /\ Reachable(c, p, f) /\ f.rec = r /\ o <= p /\ p + Size(f) = e
      /\ \A k \in 1 .. Size(f) : c[p + k] = Part(f, k) /\ file[p + k] = Part(f, k)
  BY SafePlace
<1>8. /\ p \in Nat /\ f \in Frags /\ f.rec # 0 /\ p + Size(f) <= Len(file) /\ added[f.rec].placed
  BY <1>7 DEF Reachable
<1>9. fs.at = p
  BY <1>1, <1>2
<1>10. Took(fs) /\ Head1(fs) = f
  BY <1>5, <1>6, <1>7, <1>8, <1>9, TakesIntact
<1>11. ~next.done /\ next.at = e /\ Handled(rs, next, f)
  BY <1>3, <1>7, <1>8, <1>9, <1>10 DEF Stepped
<1>12. rs.partial => ~rs.resyncing /\ rs.scratch \in Seq(Frags) /\ Len(rs.scratch) >= 1
  <2>1. ReaderInv(c, rs, o)
    BY <1>1, ReaderInvHolds
  <2>2. QED BY <1>1, <2>1 DEF ReaderInv, InProgress, Chain
<1>13. f.type \in {"full", "first", "middle", "last"}
  BY <1>8 DEF Frags
<1>14. ASSUME Ends(f) PROVE Has(next, r)
  <2>1. CASE f.type = "full"
    <3>1. PICK fr : fr = <<f>>
      OBVIOUS
    <3>2. fr[1].rec = r /\ next.out = Append(rs.out, fr)
      BY <1>7, <1>11, <2>1, <3>1 DEF Handled
    <3>3. QED BY <1>3, <3>2, HasAppend
  <2>2. CASE f.type = "last"
    <3>1. rs.partial /\ rs.scratch[1].rec = r
      BY <1>1, <2>2 DEF Begins
    <3>2. PICK sc \in Seq(Frags) : sc = rs.scratch /\ Len(sc) >= 1
      BY <1>12, <3>1
    <3>3. PICK fr : fr = Append(sc, f)
      OBVIOUS
    <3>4. next.out = Append(rs.out, fr)
      BY <1>11, <1>12, <2>2, <3>1, <3>2, <3>3 DEF Handled
    <3>5. fr[1] = sc[1]
      BY <3>2, <3>3
    <3>6. fr[1].rec = r
      BY <3>1, <3>2, <3>5
    <3>7. QED BY <1>3, <3>4, <3>6, HasAppend
  <2>3. QED BY <1>14, <2>1, <2>2 DEF Ends
<1>15. ASSUME ~Ends(f) PROVE next.partial
  <2>1. CASE f.type = "first"
    BY <1>11, <2>1 DEF Handled
  <2>2. CASE f.type = "middle"
    <3>1. rs.partial
      BY <1>1, <2>2 DEF Begins
    <3>2. QED BY <1>11, <1>12, <2>2, <3>1 DEF Handled
  <2>3. QED BY <1>13, <1>15, <2>1, <2>2 DEF Ends
<1>16. Got(c, next, e, r)
  BY <1>11, <1>14, <1>15 DEF Got
<1>17. QED BY <1>1, <1>3, <1>16

Reached(c, run, e, r) == \E n \in Turned : Got(c, run[n], e, r)

\* A fragment of such a record is reached when the ones before it are.
LEMMA ReachStep ==
  ASSUME NEW c, Log(c), NEW o \in Nat, NEW run, IsRun(run, o), NEW r, Safe(c, r, o),
         NEW e \in DOMAIN c, Closes(c[e]), c[e].frag.rec = r,
         \A i \in DOMAIN c : i < e /\ Closes(c[i]) /\ c[i].frag.rec = r => Reached(c, run, i, r)
  PROVE  Reached(c, run, e, r)
<1>1. PICK f : f = c[e].frag
  OBVIOUS
<1>2. PICK p : p = e - Size(f)
  OBVIOUS
<1>3. Reachable(c, p, f) /\ f.rec = r /\ o <= p /\ p + Size(f) = e
  BY <1>1, <1>2, SafePlace
<1>4. p \in Nat /\ f \in Frags /\ f.rec # 0 /\ p + 1 \in DOMAIN c /\ c[p + 1] = Part(f, 1)
  BY <1>3 DEF Reachable
<1>5. ASSUME NEW m \in Turned, ~run[m].done, Full(run[m]).at = p,
             Begins(f) \/ (run[m].partial /\ run[m].scratch[1].rec = r)
      PROVE  Reached(c, run, e, r)
  <2>1. m + 1 \in Turned /\ Got(c, run[m + 1], e, r)
    BY <1>1, <1>2, <1>5, ReadsFragment
  <2>2. QED BY <2>1 DEF Reached
<1>6. CASE Begins(f)
  <2>1. run[0].at <= p
    BY <1>3, StartsBefore DEF IsRun
  <2>2. \E m \in Turned : ~run[m].done /\ Full(run[m]).at = p
    BY <1>3, <2>1, Visits
  <2>3. QED BY <1>5, <1>6, <2>2
<1>7. CASE ~Begins(f)
  <2>1. PICK j \in DOMAIN c : j = p + 1 /\ c[j] = Part(f, 1)
    BY <1>4
  <2>2. Real(c[j]) /\ c[j].frag = f /\ c[j].at = 1
    BY <1>4, <2>1, PartFacts
  <2>3. PICK i \in DOMAIN c : Continued(c, i, j)
    BY <1>7, <2>2 DEF Log, Clean, Chained
  <2>4. i < j /\ Closes(c[i]) /\ ~Ends(c[i].frag) /\ c[i].frag.rec = r
    BY <1>3, <2>2, <2>3 DEF Continued
  <2>5. i < e
    <3>1. DOMAIN c = 1 .. Len(file) /\ Len(file) \in Nat /\ HeaderSize \in Nat /\ HeaderSize > 1
      BY LogFacts, LogAssumption
    <3>2. PICK sz \in Nat : sz = Size(f) /\ sz >= HeaderSize
      BY <1>4, <3>1 DEF Size, Frags
    <3>3. QED BY <1>3, <1>4, <2>1, <2>4, <3>1, <3>2
  <2>6. PICK m \in Turned : Got(c, run[m], i, r)
    BY <2>4, <2>5 DEF Reached
  <2>7. ~run[m].done /\ run[m].at = i /\ run[m].partial
    BY <2>4, <2>6 DEF Got
  <2>8. PICK rs : rs = run[m]
    OBVIOUS
  <2>9. ReaderInv(c, rs, o)
    BY <2>8, ReaderInvHolds
  <2>10. rs \in RS /\ (\E b : Buffer(rs, b)) /\ InProgress(c, rs, o)
    BY <2>7, <2>8, <2>9 DEF ReaderInv
  <2>11. PICK b : Buffer(rs, b)
    BY <2>10
  <2>12. Full(rs).at = p
    <3>1. rs.at = i /\ j = p + 1
      BY <2>1, <2>7, <2>8
    <3>2. QED BY ONLY Log(c), <1>3, <2>3, <2>10, <2>11, <3>1, i \in DOMAIN c, j \in DOMAIN c, LooksAt
  <2>13. rs.scratch[1].rec = r
    <3>1. PICK sc : sc = rs.scratch
      OBVIOUS
    <3>2. Chain(c, sc, o) /\ c[i] = Part(Last(sc), Size(Last(sc)))
      BY <2>7, <2>8, <2>10, <3>1 DEF InProgress
    <3>3. Last(sc).rec = sc[1].rec
      BY <3>2, ChainLast
    <3>4. c[i].frag = Last(sc)
      BY <3>2 DEF Part
    <3>5. QED BY <2>4, <3>1, <3>3, <3>4
  <2>14. QED BY <1>5, <2>7, <2>8, <2>12, <2>13
<1>8. QED BY <1>6, <1>7

\* Every fragment of such a record is reached, and so the record is delivered.
LEMMA SafeIsRead ==
  ASSUME NEW c, Log(c), NEW o \in Nat, NEW r, Safe(c, r, o),
         NEW e \in DOMAIN c, Closes(c[e]), c[e].frag.rec = r, Ends(c[e].frag)
  PROVE  Has(ReadLog(o), r)
<1>1. PICK run : IsRun(run, o)
  BY RunExists1, LogFacts
<1>2. PICK N \in Nat : N = Len(file) /\ DOMAIN c = 1 .. N
  BY LogFacts
<1> DEFINE Q == {k \in Nat : \A i \in DOMAIN c : i <= k /\ Closes(c[i]) /\ c[i].frag.rec = r => Reached(c, run, i, r)}
<1>3. 0 \in Q
  BY <1>2
<1>4. ASSUME NEW k \in 1 .. N, k - 1 \in Q PROVE k \in Q
  <2>1. ASSUME NEW i \in DOMAIN c, i <= k, Closes(c[i]), c[i].frag.rec = r PROVE Reached(c, run, i, r)
    <3>1. \A h \in DOMAIN c : h < i /\ Closes(c[h]) /\ c[h].frag.rec = r => Reached(c, run, h, r)
      <4>1. \A h \in DOMAIN c : h < i => h <= k - 1
        BY <1>2, <2>1
      <4>2. QED BY <1>4, <4>1
    <3>2. QED BY ONLY Log(c), o \in Nat, <1>1, Safe(c, r, o), i \in DOMAIN c, <2>1, <3>1, ReachStep
  <2>2. QED BY <2>1
<1>5. N \in Q
  <2> HIDE DEF Q
  <2>1. \A k \in 0 .. N : k \in Q
    BY <1>3, <1>4, UpTo
  <2>2. QED BY <2>1
<1>6. Reached(c, run, e, r)
  BY <1>2, <1>5
<1>7. PICK n \in Turned : Got(c, run[n], e, r)
  BY <1>6 DEF Reached
<1>8. Has(run[n], r)
  BY <1>7 DEF Got
<1>9. QED BY <1>1, <1>8, RunGrows

-----------------------------------------------------------------------------
(* What is delivered of a damaged file, and from an offset on.               *)

\* The records a reader delivers, by number.
LEMMA RangeHas ==
  ASSUME NEW o, NEW r
  PROVE  r \in Range(RecordsRead(o)) <=> Has(ReadLog(o), r)
<1>1. PICK rs : rs = ReadLog(o)
  OBVIOUS
<1>2. RecordsRead(o) = [i \in DOMAIN rs.out |-> rs.out[i][1].rec]
  BY <1>1 DEF RecordsRead
<1>3. PICK g : g = RecordsRead(o)
  OBVIOUS
<1>4. DOMAIN g = DOMAIN rs.out /\ \A i \in DOMAIN g : g[i] = rs.out[i][1].rec
  BY <1>2, <1>3
<1>5. Range(g) = {g[i] : i \in DOMAIN g}
  BY DEF Range
<1>6. r \in Range(g) <=> Has(rs, r)
  BY <1>4, <1>5 DEF Has
<1>7. QED BY <1>1, <1>3, <1>6

\* The record whose end shows in the file has its last byte there.
LEMMA WholeEnds ==
  ASSUME NEW c, Log(c), NEW r \in DOMAIN added, Whole(r)
  PROVE  \E e \in DOMAIN c : file[e] = c[e] /\ Closes(c[e]) /\ c[e].frag.rec = r /\ Ends(c[e].frag)
<1>1. DOMAIN c = 1 .. Len(file) /\ DOMAIN file = 1 .. Len(file) /\ Len(file) \in Nat /\ r # 0
  BY LogFacts
<1> DEFINE mine == {i \in DOMAIN file : file[i].frag.rec = r}
<1>2. /\ mine # {} /\ file[Max(mine)].frag.type \in {"full", "last"}
      /\ file[Max(mine)].at = HeaderSize + file[Max(mine)].frag.len
  BY DEF Whole
<1>3. Max(mine) \in mine
  <2>1. mine \subseteq Nat /\ \A x \in mine : x <= Len(file)
    BY <1>1
  <2> HIDE DEF mine
  <2>2. QED BY <1>1, <1>2, <2>1, MaxOfNats
<1>4. PICK e \in DOMAIN file : e = Max(mine) /\ file[e].frag.rec = r
  BY <1>3
<1> HIDE DEF mine
<1>5. Ends(file[e].frag) /\ file[e].at = Size(file[e].frag)
  BY <1>2, <1>4 DEF Ends, Size
<1>6. Real(file[e])
  BY <1>1, <1>4 DEF Real
<1>7. file[e] = c[e]
  BY <1>1, <1>6, LogFacts
<1>8. QED BY <1>1, <1>4, <1>5, <1>6, <1>7 DEF Closes

\* A placed record none of whose blocks has a bad byte is not damaged.
LEMMA UnhitIsSafe ==
  ASSUME NEW c, Log(c), NEW r \in DOMAIN added, added[r].placed, ~Hit(r), NEW o, o = 0
  PROVE  Safe(c, r, o)
<1>1. HeaderSize \in Nat /\ HeaderSize > 1 /\ BlockSize \in Nat /\ BlockSize > 0
  BY LogAssumption
<1>2. /\ Aligned(c, added) /\ DOMAIN c = 1 .. Len(file) /\ DOMAIN file = 1 .. Len(file) /\ Len(file) \in Nat
      /\ Damaged(file, c, phase) /\ Len(c) = Len(file)
  BY LogFacts DEF Log, Clean
<1>3. FromOn(c, r, o)
  BY <1>2 DEF FromOn
<1>4. ASSUME NEW e \in DOMAIN c, Closes(c[e]), c[e].frag.rec = r,
             NEW x \in DOMAIN c, Base(e - Size(c[e].frag)) < x, x <= e, file[x] # c[x]
      PROVE  FALSE
  <2>1. PICK f : f = c[e].frag
    OBVIOUS
  <2>2. /\ f \in Frags /\ f.rec # 0 /\ \E sz \in Nat : sz = Size(f) /\ sz >= HeaderSize /\ sz <= e
        /\ \A k \in 1 .. Size(f) : e - Size(f) + k \in DOMAIN c /\ c[e - Size(f) + k] = Part(f, k)
    BY <1>4, <2>1, FragPlace
  <2>3. PICK sz \in Nat : sz = Size(f) /\ sz >= HeaderSize /\ sz <= e
    BY <2>2
  <2>4. e \in Nat /\ x \in Nat /\ x >= 1
    BY <1>2
  <2>5. PICK p \in Nat : p = e - sz
    BY <2>3, <2>4
  <2>6. \A k \in 1 .. sz : p + k \in DOMAIN c /\ c[p + k] = Part(f, k)
    BY <2>2, <2>3, <2>5
  <2>7. PICK j \in DOMAIN c : j = p + 1 /\ c[j] = Part(f, 1)
    <3>1. 1 \in 1 .. sz
      BY <1>1, <2>3
    <3>2. QED BY <2>6, <3>1
  <2>8. Real(c[j]) /\ c[j].frag = f /\ c[j].at = 1 /\ j - 1 = p
    BY <2>2, <2>7, PartFacts
  <2>9. (p % BlockSize) + sz <= BlockSize
    BY <1>2, <1>4, <2>1, <2>3, <2>8 DEF Aligned, InBlock
  <2>10. PICK s \in Nat : s = Base(p) /\ s <= p /\ s % BlockSize = 0
    BY BaseFacts
  <2>11. p % BlockSize = p - s
    <3>1. p % BlockSize \in Nat
      BY BaseFacts
    <3>2. QED BY <2>10, <3>1 DEF Base
  <2>12. s < x /\ e <= s + BlockSize
    BY <1>1, <1>4, <2>1, <2>3, <2>4, <2>5, <2>9, <2>10, <2>11
  <2>13. ASSUME NEW y \in DOMAIN c, s < y, y <= e PROVE BlockOf(y) = s \div BlockSize
    <3>1. PICK t \in Nat : t = y - 1 /\ s <= t /\ t < s + BlockSize
      BY <1>1, <1>2, <2>4, <2>12, <2>13
    <3>2. t \div BlockSize = s \div BlockSize
      BY ONLY <2>10, <3>1, s \in Nat, t \in Nat, SameBlock
    <3>3. QED BY <3>1, <3>2 DEF BlockOf
  <2>14. file[x] = BadByte
    BY <1>2, <1>4, LogFacts
  <2>15. PICK k \in 1 .. sz : p + k # x
    <3>1. 1 \in 1 .. sz /\ 2 \in 1 .. sz
      BY <1>1, <2>3
    <3>2. p + 1 # p + 2
      OBVIOUS
    <3>3. QED BY <3>1, <3>2
  <2>16. PICK y \in DOMAIN c : y = p + k /\ y # x /\ c[y] = Part(f, k)
    BY <2>6, <2>15
  <2>17. s < y /\ y <= e
    BY <2>4, <2>5, <2>10, <2>16
  <2>18. file[y] = c[y]
    <3>1. file[y] # BadByte
      BY <1>2, <2>14, <2>16 DEF Damaged
    <3>2. QED BY <1>2, <3>1, LogFacts
  <2>19. file[y].frag.rec = r
    BY <1>4, <2>1, <2>2, <2>16, <2>18, PartFacts
  <2>20. BlockOf(x) = BlockOf(y)
    BY <1>4, <2>12, <2>13, <2>17
  <2>21. QED BY <1>2, <2>14, <2>19, <2>20 DEF Hit
<1>5. \A e \in DOMAIN c : Closes(c[e]) /\ c[e].frag.rec = r =>
       \A x \in DOMAIN c : Base(e - Size(c[e].frag)) < x /\ x <= e => file[x] = c[x]
  BY <1>4
<1>6. QED BY <1>3, <1>5 DEF Safe

\* DamageIsContained, for every size of block and header: a record that was
\* added while the writer knew its place, and of whose end and blocks nothing is
\* lost or bad, is delivered, whatever happened to the records around it.
THEOREM ReaderContainsDamage == Spec => []DamageIsContained
<1>1. FileInv => DamageIsContained
  <2>1. SUFFICES ASSUME FileInv PROVE DamageIsContained
    OBVIOUS
  <2>2. PICK c : Log(c)
    BY <2>1, FileIsLog
  <2>3. SUFFICES ASSUME NEW r \in DOMAIN added, added[r].placed, Whole(r), ~Hit(r)
                 PROVE  r \in Range(RecordsRead(0))
    BY DEF DamageIsContained
  <2>4. PICK o \in Nat : o = 0
    OBVIOUS
  <2>5. Safe(c, r, o)
    BY <2>2, <2>3, <2>4, UnhitIsSafe
  <2>6. PICK e \in DOMAIN c : Closes(c[e]) /\ c[e].frag.rec = r /\ Ends(c[e].frag)
    BY <2>2, <2>3, WholeEnds
  <2>7. Has(ReadLog(o), r)
    BY <2>2, <2>5, <2>6, SafeIsRead
  <2>8. r \in Range(RecordsRead(o))
    BY <2>7, RangeHas
  <2>9. QED BY <2>4, <2>8
<1>2. QED BY <1>1, FileLaid, PTL

\* The first byte of a record.
LEMMA StartOf ==
  ASSUME NEW c, Log(c), file = c, NEW o \in Nat, NEW r, \E i \in DOMAIN c : c[i].frag.rec = r
  PROVE  Start(r) >= o <=> FromOn(c, r, o)
<1>1. DOMAIN c = 1 .. Len(file) /\ Len(file) \in Nat
  BY LogFacts
<1> DEFINE mine == {i \in DOMAIN file : file[i].frag.rec = r}
<1>2. Start(r) = Min(mine) - 1
  BY DEF Start
<1>3. Min(mine) \in mine /\ \A x \in mine : Min(mine) <= x
  <2>1. mine \subseteq Nat /\ mine # {}
    BY <1>1
  <2> HIDE DEF mine
  <2>2. QED BY <2>1, MinOfNats
<1>4. PICK n \in Nat : n = Min(mine) /\ n \in DOMAIN c /\ c[n].frag.rec = r /\ \A i \in DOMAIN c : c[i].frag.rec = r => n <= i
  <2>1. Min(mine) \in DOMAIN c /\ c[Min(mine)].frag.rec = r
    BY <1>3
  <2>2. \A i \in DOMAIN c : c[i].frag.rec = r => Min(mine) <= i
    BY <1>3
  <2>3. Min(mine) \in Nat
    BY <1>1, <2>1
  <2> HIDE DEF mine
  <2>4. QED BY <2>1, <2>2, <2>3
<1> HIDE DEF mine
<1>5. Start(r) >= o <=> n > o
  BY <1>2, <1>4
<1>6. FromOn(c, r, o) => n > o
  BY <1>4 DEF FromOn
<1>7. n > o => FromOn(c, r, o)
  BY <1>1, <1>4 DEF FromOn
<1>8. QED BY <1>5, <1>6, <1>7

\* The record whose last byte is in the file shows its end.
LEMMA ClosedIsWhole ==
  ASSUME NEW c, Log(c), file = c, NEW r, NEW j \in DOMAIN c, c[j].frag.rec = r, Closes(c[j]), Ends(c[j].frag)
  PROVE  Whole(r)
<1>1. Ordered(c) /\ DOMAIN c = 1 .. Len(file) /\ Len(file) \in Nat
  BY LogFacts DEF Log, Clean
<1>2. Real(c[j]) /\ c[j].at = Size(c[j].frag) /\ c[j].frag.rec \in Nat
  <2>1. Real(c[j]) /\ c[j].at = Size(c[j].frag)
    BY DEF Closes
  <2>2. QED BY <1>1, <2>1, LogFacts DEF Frags
<1> DEFINE mine == {i \in DOMAIN file : file[i].frag.rec = r}
<1>3. j \in mine
  OBVIOUS
<1>4. Max(mine) \in mine /\ \A x \in mine : x <= Max(mine)
  <2>1. mine \subseteq Nat /\ mine # {} /\ \A x \in mine : x <= Len(file)
    BY <1>1, <1>3
  <2> HIDE DEF mine
  <2>2. QED BY <1>1, <2>1, MaxOfNats
<1>5. PICK m \in DOMAIN c : m = Max(mine) /\ c[m].frag.rec = r
  BY <1>4
<1>6. j <= m
  BY <1>3, <1>4, <1>5
<1>7. ~(j < m)
  <2>1. Real(c[m])
    BY <1>2, <1>5 DEF Real
  <2>2. QED BY <1>1, <1>2, <1>5, <2>1 DEF Ordered
<1>8. m = j
  BY <1>1, <1>6, <1>7
<1> HIDE DEF mine
<1>9. file[Max(mine)] = c[j]
  BY <1>5, <1>8
<1>10. c[j].frag.type \in {"full", "last"} /\ c[j].at = HeaderSize + c[j].frag.len
  BY <1>2 DEF Ends, Size
<1>11. QED BY <1>3, <1>9, <1>10 DEF Whole, mine

\* StartsAtOffset, for every size of block and header and every offset: in a
\* file without bad bytes, written by a writer that knew its place, a reader
\* that starts at offset o delivers exactly the records that begin there or
\* later and whose end is in the file.
THEOREM ReaderStartsAtOffset == Spec => []StartsAtOffset
<1>1. FileInv => StartsAtOffset
  <2>1. SUFFICES ASSUME FileInv, placed, \A i \in DOMAIN file : file[i] # BadByte, NEW o \in 0 .. Len(file)
                 PROVE  Range(RecordsRead(o)) = {r \in DOMAIN added : Whole(r) /\ Start(r) >= o}
    BY DEF StartsAtOffset
  <2>2. PICK c : Log(c)
    BY <2>1, FileIsLog
  <2>3. file = c
    BY <2>1, <2>2, NotDamaged DEF Log
  <2>4. o \in Nat
    BY <2>2, LogFacts
  <2>5. ASSUME NEW r, r \in Range(RecordsRead(o)) PROVE r \in DOMAIN added /\ Whole(r) /\ Start(r) >= o
    <3>1. PICK out : out = ReadLog(o).out
      OBVIOUS
    <3>2. PICK at \in Nat : Delivers(c, out, at, o)
      BY <2>2, <2>4, <3>1, ReadsDeliver
    <3>3. PICK i \in DOMAIN out : out[i][1].rec = r
      BY <2>5, <3>1, RangeHas DEF Has
    <3>4. Chain(c, out[i], o) /\ ClosedBy(c, r, at)
      BY <3>2, <3>3 DEF Delivers, IsRead
    <3>5. r \in DOMAIN added /\ FromOn(c, r, o)
      BY <3>3, <3>4 DEF Chain
    <3>6. PICK j \in DOMAIN c : c[j].frag.rec = r /\ Closes(c[j]) /\ Ends(c[j].frag)
      BY <3>4 DEF ClosedBy
    <3>7. Whole(r)
      BY ONLY <2>2, <2>3, <3>6, j \in DOMAIN c, ClosedIsWhole
    <3>8. Start(r) >= o
      <4>1. \E i1 \in DOMAIN c : c[i1].frag.rec = r
        BY <3>6
      <4>2. QED BY ONLY <2>2, <2>3, <2>4, <3>5, <4>1, StartOf
    <3>9. QED BY <3>5, <3>7, <3>8
  <2>6. ASSUME NEW r \in DOMAIN added, Whole(r), Start(r) >= o PROVE r \in Range(RecordsRead(o))
    <3>1. PICK e \in DOMAIN c : Closes(c[e]) /\ c[e].frag.rec = r /\ Ends(c[e].frag)
      BY <2>2, <2>6, WholeEnds
    <3>2. FromOn(c, r, o)
      <4>1. \E i \in DOMAIN c : c[i].frag.rec = r
        BY <3>1
      <4>2. QED BY ONLY <2>2, <2>3, <2>4, <2>6, <4>1, StartOf
    <3>3. added[r].placed
      BY <2>1, <2>2 DEF Log, PlacedFirst
    <3>4. Safe(c, r, o)
      BY <2>3, <3>2, <3>3 DEF Safe
    <3>5. Has(ReadLog(o), r)
      BY ONLY <2>2, <2>4, <3>1, <3>4, e \in DOMAIN c, SafeIsRead
    <3>6. QED BY <3>5, RangeHas
  <2>7. QED BY <2>5, <2>6
<1>2. QED BY <1>1, FileLaid, PTL

-----------------------------------------------------------------------------
(* A file that a crash has cut.                                              *)

\* No byte is bad, the writer knew its place, and only the last record may be
\* torn.
Cut(c) ==
  /\ Log(c) /\ file = c /\ Trailers(c) /\ \A r \in DOMAIN added : added[r].placed
  /\ \A i \in DOMAIN file : file[i].frag.rec \in {0, Last(file).frag.rec} \/ Whole(file[i].frag.rec)

\* The reader of such a file stands behind a fragment, and has a record in
\* progress exactly when that fragment does not end one.
Quiet(c, rs) ==
  /\ rs.reports = 0
  /\ ~rs.done =>
       /\ ~rs.resyncing
       /\ \/ rs.at = 0 /\ ~rs.partial
          \/ rs.at \in DOMAIN c /\ Closes(c[rs.at]) /\ (rs.partial <=> ~Ends(c[rs.at].frag))

\* It looks at the first byte of a fragment.
LEMMA HeadIsFirst ==
  ASSUME NEW c, Cut(c), NEW rs \in RS, NEW b, Buffer(rs, b), ~rs.done, Quiet(c, rs), NEW fs, fs = Full(rs),
         NEW d, FullBuffer(fs, d), fs.upTo - fs.at >= HeaderSize
  PROVE  fs.at + 1 \in DOMAIN c /\ Real(c[fs.at + 1]) /\ c[fs.at + 1].at = 1
<1>1. HeaderSize \in Nat /\ HeaderSize > 1 /\ BlockSize \in Nat /\ BlockSize > 0 /\ file \in Seq(Byte) /\ Log(c)
  BY LogAssumption, LogFacts DEF Cut
<1>2. Whole1(c) /\ DOMAIN c = 1 .. Len(file) /\ Len(file) \in Nat
  BY <1>1, LogFacts DEF Log, Clean
<1>3. /\ fs \in RS
      /\ \/ fs = rs
         \/ fs.at = rs.upTo /\ rs.upTo % BlockSize = 0
  BY <1>1, FullFacts
<1>4. PICK q \in Nat : q = fs.at
  BY <1>3 DEF RS
<1>5. PICK u \in Nat : u = fs.upTo /\ u - q >= HeaderSize
  BY <1>3, <1>4 DEF RS
<1>6. PICK s \in Nat : s = d /\ s % BlockSize = 0 /\ s <= q /\ q <= u /\ u <= s + BlockSize
  BY <1>4, <1>5 DEF FullBuffer
<1>7. u <= Len(file)
  BY <1>1, <1>4, <1>5 DEF FullBuffer
<1>8. PICK j \in DOMAIN c : j = q + 1
  BY <1>1, <1>2, <1>5, <1>7
<1>9. q % BlockSize = q - s
  <2>1. q < s + BlockSize
    BY <1>1, <1>5, <1>6
  <2>2. QED BY ONLY <1>6, <2>1, s \in Nat, q \in Nat, SameBlock
<1>10. c[j] # ZeroByte
  <2>1. SUFFICES ASSUME c[j] = ZeroByte PROVE FALSE
    OBVIOUS
  <2>2. BlockSize - InBlock(j) < HeaderSize
    BY <2>1 DEF Cut, Trailers
  <2>3. InBlock(j) = q - s
    <3>1. j - 1 = q
      BY <1>8
    <3>2. QED BY <1>9, <3>1 DEF InBlock
  <2>4. QED BY <1>1, <1>5, <1>6, <2>2, <2>3
<1>11. Real(c[j])
  BY <1>1, <1>2, <1>10, LogFacts
<1>12. PICK g \in Frags : g = c[j].frag /\ g.rec # 0 /\ g.rec \in DOMAIN added
  BY <1>1, <1>2, <1>11, LogFacts DEF Real
<1>13. PICK n \in Nat : n = c[j].at /\ 1 <= n /\ n <= Size(g) /\ c[j] = Part(g, n)
  BY <1>1, <1>2, <1>11, <1>12, LogFacts
<1>14. PICK sz \in Nat : sz = Size(g)
  BY <1>1, <1>12 DEF Size, Frags
<1>15. n = 1
  <2>1. CASE fs = rs
    <3>1. SUFFICES ASSUME n > 1 PROVE FALSE
      BY <1>13
    <3>2. j > 1 /\ c[j - 1] = Part(g, n - 1)
      BY <1>2, <1>11, <1>12, <1>13, <3>1 DEF Whole1
    <3>3. rs.at # 0
      BY <1>4, <1>8, <2>1, <3>2
    <3>4. j - 1 = q /\ q = rs.at
      BY <1>4, <1>8, <2>1
    <3>5. Closes(c[q])
      BY <3>3, <3>4 DEF Quiet
    <3>6. c[q] = Part(g, n - 1)
      BY <3>2, <3>4
    <3>7. n - 1 = Size(g)
      BY ONLY <1>12, <3>5, <3>6, g \in Frags, PartFacts
    <3>8. QED BY <1>13, <1>14, <3>7
  <2>2. CASE fs.at = rs.upTo /\ rs.upTo % BlockSize = 0
    <3>1. q % BlockSize = 0 /\ q + 1 \in DOMAIN c /\ Real(c[q + 1]) /\ added[c[q + 1].frag.rec].placed
      BY <1>4, <1>8, <1>11, <1>12, <2>2 DEF Cut
    <3>2. c[q + 1].at = 1
      BY <1>1, <3>1, BlockHead
    <3>3. QED BY <1>8, <1>13, <3>2
  <2>3. QED BY <1>3, <2>1, <2>2
<1>16. QED BY <1>4, <1>8, <1>11, <1>13, <1>15

\* It takes every fragment but one the file ends in.
LEMMA TakesOrEnds ==
  ASSUME NEW c, Cut(c), NEW fs \in RS, NEW d, FullBuffer(fs, d), fs.upTo - fs.at >= HeaderSize,
         fs.at + 1 \in DOMAIN c, Real(c[fs.at + 1]), c[fs.at + 1].at = 1
  PROVE  Took(fs) \/ AtEnd(fs)
<1>1. HeaderSize \in Nat /\ HeaderSize > 1 /\ BlockSize \in Nat /\ BlockSize > 0 /\ file = c /\ Log(c)
  BY LogAssumption DEF Cut
<1>2. Aligned(c, added) /\ DOMAIN c = 1 .. Len(file) /\ Len(file) \in Nat
  BY <1>1, LogFacts DEF Log, Clean
<1>3. PICK q \in Nat : q = fs.at
  BY DEF RS
<1>4. PICK u \in Nat : u = fs.upTo /\ u - q >= HeaderSize
  BY <1>3 DEF RS
<1>5. u <= Len(file)
  BY <1>1, <1>3, <1>4 DEF FullBuffer
<1>6. PICK j \in DOMAIN c : j = q + 1 /\ Real(c[j]) /\ c[j].at = 1
  BY <1>3
<1>7. PICK f \in Frags : f = c[j].frag /\ f.rec # 0 /\ f.rec \in DOMAIN added
  BY <1>1, <1>2, <1>6, LogFacts DEF Real
<1>8. c[j] = Part(f, 1)
  BY <1>1, <1>2, <1>6, <1>7, LogFacts
<1>9. PICK sz \in Nat : sz = Size(f) /\ sz >= HeaderSize
  BY <1>1, <1>7 DEF Size, Frags
<1>10. PICK L \in 0 .. Len(file) : L = Len(file)
  BY <1>2
<1>11. \A x \in DOMAIN c : q < x /\ x <= L =>
         (c[x] # ZeroByte \/ Trailers(c)) /\ (Real(c[x]) => added[c[x].frag.rec].placed)
  <2>1. ASSUME NEW x \in DOMAIN c, Real(c[x]) PROVE added[c[x].frag.rec].placed
    <3>1. c[x].frag.rec \in DOMAIN added
      BY <1>1, <1>2, <2>1, LogFacts
    <3>2. QED BY <3>1 DEF Cut
  <2>2. Trailers(c)
    BY DEF Cut
  <2>3. QED BY <2>1, <2>2
<1>12. ASSUME NEW k \in Nat, k >= 1, k <= sz, q + k <= Len(file) PROVE c[q + k] = Part(f, k) /\ file[q + k] = Part(f, k)
  <2>1. q + 1 \in DOMAIN c /\ c[q + 1] = Part(f, 1) /\ q + k <= L /\ k <= Size(f)
    BY <1>6, <1>8, <1>9, <1>10, <1>12
  <2>2. c[q + k] = Part(f, k)
    <3>1. Log(c) /\ f.rec # 0 /\ k >= 1
      BY <1>1, <1>7, <1>12
    <3>2. QED BY ONLY <1>11, <2>1, <3>1, q \in Nat, f \in Frags, L \in 0 .. Len(file), k \in Nat, Forward
  <2>3. QED BY ONLY <1>1, <2>2
<1>13. Head1(fs) = f
  BY <1>1, <1>3, <1>6, <1>7 DEF Head1
<1>14. CASE q + sz <= Len(file)
  <2>1. \A i \in 1 .. Size(f) : c[fs.at + i] = Part(f, i) /\ file[fs.at + i] = Part(f, i)
    <3>1. ASSUME NEW i \in 1 .. sz PROVE c[q + i] = Part(f, i) /\ file[q + i] = Part(f, i)
      <4>1. i \in Nat /\ i >= 1 /\ i <= sz /\ q + i <= Len(file)
        BY <1>2, <1>14
      <4>2. QED BY <1>12, <4>1
    <3>2. QED BY ONLY <1>3, <1>9, <3>1
  <2>2. fs.at + Size(f) <= Len(file) /\ added[f.rec].placed
    BY <1>3, <1>7, <1>9, <1>14 DEF Cut
  <2>3. QED BY ONLY <1>1, <1>7, <2>1, <2>2, fs \in RS, FullBuffer(fs, d), f \in Frags, TakesIntact
<1>15. CASE q + sz > Len(file)
  <2>1. Reads(fs.at, Head1(fs), HeaderSize)
    <3>1. ASSUME NEW i \in 1 .. HeaderSize PROVE file[q + i] = Part(f, i)
      BY <1>1, <1>2, <1>4, <1>5, <1>9, <1>12
    <3>2. QED BY <1>3, <1>13, <3>1 DEF Reads, Part
  <2>2. Size(Head1(fs)) > fs.upTo - fs.at
    <3>1. sz > u - q
      BY <1>2, <1>4, <1>5, <1>15
    <3>2. QED BY <1>3, <1>4, <1>9, <1>13, <3>1
  <2>3. fs.eof
    <3>1. SUFFICES ASSUME ~fs.eof PROVE FALSE
      OBVIOUS
    <3>2. PICK s \in Nat : s = d /\ s % BlockSize = 0 /\ s <= q /\ u = s + BlockSize
      BY <1>3, <1>4, <3>1 DEF FullBuffer
    <3>3. q % BlockSize = q - s
      <4>1. q < s + BlockSize
        BY <1>1, <1>4, <3>2
      <4>2. QED BY ONLY <3>2, <4>1, s \in Nat, q \in Nat, SameBlock
    <3>4. InBlock(j) + Size(f) <= BlockSize
      <4>1. added[f.rec].placed
        BY <1>7 DEF Cut
      <4>2. QED BY <1>2, <1>6, <1>7, <4>1 DEF Aligned
    <3>5. j - 1 = q
      BY <1>6
    <3>6. (q - s) + sz <= BlockSize
      BY <1>9, <3>3, <3>4, <3>5 DEF InBlock
    <3>7. QED BY <1>1, <1>2, <1>5, <1>15, <3>2, <3>6
  <2>4. QED BY <1>7, <1>13, <2>1, <2>2, <2>3 DEF AtEnd
<1>16. QED BY <1>2, <1>9, <1>14, <1>15

\* No record is in progress where another one begins.
LEMMA NotInProgress ==
  ASSUME NEW c, Cut(c), NEW a \in DOMAIN c, Closes(c[a]), ~Ends(c[a].frag), NEW q \in Nat, a <= q, q - a < HeaderSize,
         NEW j \in DOMAIN c, j = q + 1, NEW f \in Frags, f.rec # 0, c[j] = Part(f, 1), Begins(f)
  PROVE  FALSE
<1>1. HeaderSize \in Nat /\ HeaderSize > 1 /\ file = c /\ Log(c)
  BY LogAssumption DEF Cut
<1>2. Ordered(c) /\ c \in Seq(Byte) /\ DOMAIN c = 1 .. Len(c) /\ Len(c) \in Nat
  BY <1>1, LogFacts DEF Log, Clean
<1>3. Real(c[j]) /\ c[j].frag = f /\ c[j].at = 1
  BY PartFacts
<1>4. PICK r : r = c[a].frag.rec
  OBVIOUS
<1>5. Real(c[a]) /\ r # 0 /\ r \in DOMAIN added /\ r \in Nat /\ f.rec \in Nat
  <2>1. Real(c[a])
    BY DEF Closes
  <2>2. a \in 1 .. Len(file)
    BY <1>1, <1>2
  <2>3. r \in DOMAIN added /\ c[a].frag \in Frags
    BY <1>1, <1>4, <2>1, <2>2, LogFacts
  <2>4. QED BY <1>4, <2>1, <2>3 DEF Real, Frags
<1>6. a \in Nat /\ a < j
  BY <1>2
<1>7. r < f.rec
  BY <1>2, <1>3, <1>4, <1>5, <1>6 DEF Ordered
<1>8. ASSUME NEW x \in DOMAIN c, c[x].frag.rec = r PROVE x < j
  <2>1. Real(c[x])
    BY <1>5, <1>8 DEF Real
  <2>2. x # j
    BY <1>3, <1>5, <1>7, <1>8
  <2>3. ~(j < x)
    <3>1. SUFFICES ASSUME j < x PROVE FALSE
      OBVIOUS
    <3>2. f.rec <= r
      BY <1>2, <1>3, <1>8, <2>1, <3>1 DEF Ordered
    <3>3. QED BY <1>5, <1>7, <3>2
  <2>4. QED BY <1>2, <2>2, <2>3
<1>9. Last(file).frag.rec # r
  <2>1. Len(c) \in DOMAIN c /\ ~(Len(c) < j)
    BY <1>2
  <2>2. Last(file) = c[Len(c)]
    BY <1>1 DEF Last
  <2>3. QED BY <1>8, <2>1, <2>2
<1>10. Whole(r)
  <2>1. r \in {0, Last(file).frag.rec} \/ Whole(r)
    BY <1>1, <1>4 DEF Cut
  <2>2. QED BY <1>5, <1>9, <2>1
<1>11. PICK e \in DOMAIN c : Closes(c[e]) /\ c[e].frag.rec = r /\ Ends(c[e].frag)
  BY ONLY <1>1, <1>5, <1>10, WholeEnds
<1>12. e < j /\ e \in Nat
  BY <1>2, <1>8, <1>11
<1>13. e # a
  BY <1>11
<1>14. ~(e < a)
  <2>1. SUFFICES ASSUME e < a PROVE FALSE
    OBVIOUS
  <2>2. Real(c[e])
    BY <1>11 DEF Closes
  <2>3. c[e].frag.rec < c[a].frag.rec
    BY <1>2, <1>5, <1>11, <2>1, <2>2 DEF Ordered
  <2>4. QED BY <1>4, <1>5, <1>11, <2>3
<1>15. e - a >= HeaderSize
  <2>1. a < e
    BY <1>6, <1>12, <1>13, <1>14
  <2>2. QED BY ONLY <1>1, <1>11, <2>1, a \in DOMAIN c, e \in DOMAIN c, Closes(c[a]), ClosesApart
<1>16. QED BY <1>1, <1>6, <1>12, <1>15

\* The reader that does not begin a record has one in progress.
LEMMA HasInProgress ==
  ASSUME NEW c, Cut(c), NEW rs \in RS, NEW b, Buffer(rs, b), ~rs.done, Quiet(c, rs), NEW fs, fs = Full(rs), Took(fs),
         NEW f, f = Head1(fs), ~Begins(f)
  PROVE  rs.partial
<1>1. HeaderSize \in Nat /\ Log(c)
  BY LogAssumption DEF Cut
<1>2. Chained(c) /\ DOMAIN c = 1 .. Len(file) /\ Len(file) \in Nat
  BY <1>1, LogFacts DEF Log, Clean
<1>3. fs \in RS /\ rs.at \in Nat /\ fs.at \in Nat /\ rs.at <= fs.at /\ fs.at - rs.at < HeaderSize
  BY <1>1, LooksAhead
<1>4. CASE rs.at = 0
  <2>1. PICK d : FullBuffer(fs, d)
    BY <1>1, FullFacts, LogFacts
  <2>2. f \in Frags /\ f.rec # 0 /\ fs.at + 1 \in DOMAIN c /\ c[fs.at + 1] = Part(f, 1)
    BY <1>1, <1>3, <2>1, TookEnds
  <2>3. PICK j \in DOMAIN c : j = fs.at + 1 /\ c[j] = Part(f, 1)
    BY <2>2
  <2>4. Real(c[j]) /\ c[j].frag = f /\ c[j].at = 1
    BY <2>2, <2>3, PartFacts
  <2>5. PICK i \in DOMAIN c : Continued(c, i, j)
    BY <1>2, <2>4 DEF Chained
  <2>6. i < j /\ Closes(c[i])
    BY <2>5 DEF Continued
  <2>7. PICK sz \in Nat : sz >= HeaderSize /\ sz <= i
    BY <1>1, <2>6, FragPlace
  <2>8. QED BY <1>1, <1>2, <1>3, <1>4, <2>3, <2>6, <2>7
<1>5. CASE rs.at # 0
  <2>1. rs.at \in DOMAIN c /\ Closes(c[rs.at]) /\ (rs.partial <=> ~Ends(c[rs.at].frag))
    BY <1>5 DEF Quiet
  <2>2. ~Ends(c[rs.at].frag)
    BY <1>1, <2>1, TookContinues
  <2>3. QED BY <2>1, <2>2
<1>6. QED BY <1>4, <1>5

\* Every turn of such a reader is without a report.
LEMMA QuietStep ==
  ASSUME NEW c, Cut(c), NEW o \in Nat, o = 0, NEW rs \in RS, NEW b, Buffer(rs, b), ~rs.done, Quiet(c, rs),
         NEW next, Stepped(rs, Full(rs), next, o)
  PROVE  Quiet(c, next)
<1>1. HeaderSize \in Nat /\ HeaderSize > 1 /\ Log(c) /\ file \in Seq(Byte)
  BY LogAssumption, LogFacts DEF Cut
<1>2. PICK fs : fs = Full(rs)
  OBVIOUS
<1>3. fs \in RS /\ rs.at \in Nat /\ fs.at \in Nat /\ rs.at <= fs.at /\ fs.at - rs.at < HeaderSize
  BY <1>1, <1>2, LooksAhead
<1>4. PICK d : FullBuffer(fs, d)
  BY <1>1, <1>2, FullFacts
<1>5. rs.reports = 0 /\ ~rs.resyncing
  BY DEF Quiet
<1>6. CASE AtEnd(fs)
  <2>1. next.done /\ next.reports = 0
    BY <1>2, <1>5, <1>6 DEF Stepped, Kept
  <2>2. QED BY <2>1 DEF Quiet
<1>7. CASE ~AtEnd(fs)
  <2>1. fs.upTo - fs.at >= HeaderSize
    BY <1>2, <1>7 DEF Stepped
  <2>2. fs.at + 1 \in DOMAIN c /\ Real(c[fs.at + 1]) /\ c[fs.at + 1].at = 1
    BY <1>2, <1>4, <2>1, HeadIsFirst
  <2>3. Took(fs)
    BY <1>3, <1>4, <1>7, <2>1, <2>2, TakesOrEnds
  <2>4. PICK f : f = Head1(fs)
    OBVIOUS
  <2>5. /\ f \in Frags /\ f.rec # 0
        /\ fs.at + 1 \in DOMAIN c /\ c[fs.at + 1] = Part(f, 1)
        /\ fs.at + Size(f) \in DOMAIN c /\ c[fs.at + Size(f)] = Part(f, Size(f))
    BY <1>1, <1>3, <1>4, <2>3, <2>4, TookEnds
  <2>6. ~next.done /\ next.at = fs.at + Size(f) /\ Handled(rs, next, f)
    BY <1>2, <1>3, <1>7, <2>3, <2>4 DEF Stepped
  <2>7. next.at \in DOMAIN c /\ Closes(c[next.at]) /\ c[next.at].frag = f
    BY <2>5, <2>6, PartFacts
  <2>8. f.type \in {"full", "first", "middle", "last"} /\ rs.partial \in BOOLEAN /\ rs.resyncing \in BOOLEAN
    BY <2>5 DEF Frags, RS
  <2>9. ~next.resyncing
    BY <1>5, <2>6 DEF Handled
  <2>10. next.reports = 0 /\ (next.partial <=> ~Ends(f))
    <3>1. CASE Begins(f)
      <4>1. ~rs.partial
        <5>1. SUFFICES ASSUME rs.partial PROVE FALSE
          OBVIOUS
        <5>2. PICK a \in DOMAIN c : a = rs.at /\ Closes(c[a]) /\ ~Ends(c[a].frag)
          BY <5>1 DEF Quiet
        <5>3. PICK q \in Nat : q = fs.at
          BY <1>3
        <5>4. PICK j \in DOMAIN c : j = q + 1 /\ c[j] = Part(f, 1)
          BY <2>5, <5>3
        <5>5. a <= q /\ q - a < HeaderSize
          BY <1>3, <5>2, <5>3
        <5>6. QED BY ONLY Cut(c), a \in DOMAIN c, q \in Nat, j \in DOMAIN c, <2>5, <3>1, <5>2, <5>4, <5>5, NotInProgress
      <4>2. next.reports = 0
        BY <1>5, <2>6, <3>1, <4>1 DEF Handled
      <4>3. CASE f.type = "full"
        BY <2>6, <4>2, <4>3 DEF Handled, Ends
      <4>4. CASE f.type = "first"
        BY <2>6, <4>2, <4>4 DEF Handled, Ends
      <4>5. QED BY <3>1, <4>3, <4>4 DEF Begins
    <3>2. CASE ~Begins(f)
      <4>1. rs.partial
        BY <1>2, <2>3, <2>4, <3>2, HasInProgress
      <4>2. CASE f.type = "middle"
        BY <1>5, <2>6, <4>1, <4>2 DEF Handled, Ends
      <4>3. CASE f.type = "last"
        BY <1>5, <2>6, <4>1, <4>3 DEF Handled, Ends
      <4>4. QED BY <2>8, <3>2, <4>2, <4>3 DEF Begins
    <3>3. QED BY <3>1, <3>2
  <2>11. QED BY <2>7, <2>9, <2>10 DEF Quiet
<1>8. QED BY <1>6, <1>7

\* CrashIsNoCorruption, for every size of block and header: when no byte is bad,
\* the writer knew its place and at most the last record is torn, the reader
\* reports nothing.
THEOREM CrashReportsNothing == Spec => []CrashIsNoCorruption
<1>1. FileInv => CrashIsNoCorruption
  <2>1. SUFFICES ASSUME FileInv, placed, \A i \in DOMAIN file : file[i] # BadByte,
                        \A i \in DOMAIN file : file[i].frag.rec \in {0, Last(file).frag.rec} \/ Whole(file[i].frag.rec)
                 PROVE  ReadLog(0).reports = 0
    BY DEF CrashIsNoCorruption
  <2>2. PICK c : Log(c)
    BY <2>1, FileIsLog
  <2>3. file = c
    BY <2>1, <2>2, NotDamaged DEF Log
  <2>4. Cut(c)
    <3>1. Trailers(c) /\ \A r \in DOMAIN added : added[r].placed
      BY <2>1, <2>2 DEF Log, PlacedFirst
    <3>2. QED BY <2>1, <2>2, <2>3, <3>1 DEF Cut
  <2>5. PICK o \in Nat : o = 0
    OBVIOUS
  <2>6. PICK run : IsRun(run, o)
    BY <2>2, RunExists1, LogFacts
  <2> DEFINE I == {rs \in RS : Quiet(c, rs)}
  <2>7. run[0] \in I
    <3>1. PICK rs : rs = run[0] /\ rs = ReaderStart(o)
      BY <2>6 DEF IsRun
    <3>2. /\ rs \in RS /\ ~rs.partial /\ rs.reports = 0 /\ ~rs.resyncing
          /\ \/ rs.at = Base(o)
             \/ rs.at = Base(o) + BlockSize /\ o % BlockSize > BlockSize - (HeaderSize - 1)
      BY <2>5, <3>1, StartFacts
    <3>3. Base(o) = 0 /\ o % BlockSize = 0
      <4>1. Base(o) \in Nat /\ Base(o) <= o
        BY BaseFacts
      <4>2. Base(o) = 0
        BY <2>5, <4>1
      <4>3. o % BlockSize \in Nat
        BY BaseFacts
      <4>4. QED BY <2>5, <4>2, <4>3 DEF Base
    <3>4. rs.at = 0
      <4>1. HeaderSize \in Nat /\ BlockSize \in Nat /\ BlockSize > HeaderSize
        BY LogAssumption
      <4>2. QED BY <3>2, <3>3, <4>1
    <3>5. Quiet(c, rs)
      BY <3>2, <3>4 DEF Quiet
    <3>6. QED BY <3>1, <3>2, <3>5
  <2>8. ASSUME NEW n \in Turned, run[n] \in I, ~run[n].done PROVE run[n + 1] \in I
    <3>1. /\ run[n] \in RS /\ (\E b : Buffer(run[n], b)) /\ Stepped(run[n], Full(run[n]), run[n + 1], o)
      BY <2>2, <2>6, <2>8, RunTurn
    <3>2. PICK rs, next : rs = run[n] /\ next = run[n + 1]
      OBVIOUS
    <3>3. PICK b : Buffer(rs, b)
      BY <3>1, <3>2
    <3>4. rs \in RS /\ ~rs.done /\ Quiet(c, rs) /\ Stepped(rs, Full(rs), next, o)
      BY <2>8, <3>1, <3>2
    <3>5. Quiet(c, next)
      BY ONLY <2>4, <2>5, o \in Nat, <3>3, <3>4, QuietStep
    <3>6. next \in RS
      BY <3>4 DEF Stepped
    <3>7. QED BY <3>2, <3>5, <3>6
  <2> HIDE DEF I
  <2>9. \A n \in Turned : run[n] \in I
    BY <2>2, <2>6, <2>7, <2>8, RunInduct
  <2>10. PICK n \in Turned : n = Len(file) + 2
    BY <2>2, LogFacts DEF Turned
  <2>11. ReadLog(o) = run[n]
    BY <2>6, <2>10 DEF IsRun
  <2>12. ReadLog(o).reports = 0
    BY <2>9, <2>11 DEF I, Quiet
  <2>13. QED BY <2>5, <2>12
<1>2. QED BY <1>1, FileLaid, PTL

=============================================================================
