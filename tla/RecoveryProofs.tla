--------------------------- MODULE RecoveryProofs ---------------------------
(***************************************************************************)
(* After any crash, I/O error or deletion of obsolete files the manifest   *)
(* CURRENT names is complete and the tables it lists are there; and as     *)
(* long as there was no I/O error, Recover can read all of it.             *)
(***************************************************************************)
EXTENDS LevelDBProofs

-----------------------------------------------------------------------------
(* The inductive invariant.                                                  *)

\* The files of a version, and the files an edit adds, are among the tables.
FilesIn(v, tables) == \A l \in Levels : \A f \in v[l] : f.num \in tables

AddsIn(add, tables) == \A a \in add : a[2].num \in tables

\* The version a manifest describes.
Listed(recs) == [l \in Levels |-> ManifestFiles(recs, l)]

\* A version has no file the other does not have.
Within(v, w) == \A l \in Levels : v[l] \subseteq w[l]

\* A manifest recovery can start from: its fields are set, its tables are on
\* the disk, and the number the next manifest gets is a new one.
Complete(recs, cur, tables) ==
  /\ ManifestField(recs, "log") # None /\ ManifestField(recs, "next") # None /\ ManifestField(recs, "last") # None
  /\ cur < ManifestField(recs, "next")
  /\ FilesIn(Listed(recs), tables)

\* However much of the manifest a crash may leave, if any, is complete.
Durable(f, cur, tables) ==
  f.sync <= Len(f.recs) /\ \A n \in f.sync .. Len(f.recs) : n > 0 => Complete(SubSeq(f.recs, 1, n), cur, tables)

ManifestSafe ==
  /\ disk.cur # 0 => disk.cur \in DOMAIN disk.man /\ Durable(disk.man[disk.cur], disk.cur, DOMAIN disk.tab)
  /\ db.phase # "closed" => disk.cur # 0

\* Before a first Open has succeeded nothing was written.
Founded ==
  \/ disk.cur # 0 /\ disk.man[disk.cur].sync > 0
  \/ db.phase # "open" /\ hist = {} /\ \A n \in DOMAIN disk.log : disk.log[n].recs = <<>>

\* While opening: the new manifest has a number of its own, and the tables of
\* the version to be are there.
OpeningSafe ==
  db.phase \in {"recovering", "manifest"} =>
    /\ disk.cur < vs.man /\ vs.man < vs.next
    /\ FilesIn(vs.ver, DOMAIN disk.tab) /\ AddsIn(db.add, DOMAIN disk.tab)

\* No append to the file failed.
Legible(f) == ~f.torn /\ f.bad = {}

NewManifest ==
  db.phase = "manifest" =>
    /\ vs.man \in DOMAIN disk.man /\ Legible(disk.man[vs.man])
    /\ disk.man[vs.man].recs = <<SnapshotEdit(vs.ver, vs.ptr), bg.edit>>
    /\ bg.edit.next = vs.next /\ bg.edit.add = db.add /\ bg.edit.del = {}

\* While open: the tables of the version and of the edit under way are there.
OpenSafe ==
  db.phase = "open" =>
    /\ disk.cur = vs.man /\ vs.man < vs.next
    /\ FilesIn(vs.ver, DOMAIN disk.tab)
    /\ bg.pc = "install" => /\ AddsIn(bg.edit.add, DOMAIN disk.tab)
                            /\ disk.man[vs.man].sync < Len(disk.man[vs.man].recs)

\* The version in memory, or the one about to be installed.
Coming == IF bg.pc = "install" THEN ApplyEdit(vs.ver, bg.edit) ELSE vs.ver

\* As long as there was no error the manifest lists no table that version does
\* not have, and no append to it failed.
InStep ==
  db.phase = "open" /\ ~db.err =>
    Within(Listed(disk.man[vs.man].recs), Coming) /\ Legible(disk.man[vs.man])

\* The outputs of the compaction under way are on the disk and protected.
OutputsSafe ==
  \A w \in bg.comp : \A f \in w.outs :
    /\ f.num \in DOMAIN disk.tab /\ f.num \in db.pending /\ f.num < vs.next
    /\ bg.pc = "build" => f.num # bg.num

Safe == ManifestSafe /\ Founded /\ OpeningSafe /\ NewManifest /\ OpenSafe /\ InStep /\ OutputsSafe

-----------------------------------------------------------------------------
(* Prefixes of sequences, and what an edit does to a manifest.               *)

\* A prefix of a sequence.
LEMMA PrefixFacts ==
  ASSUME NEW S, NEW s \in Seq(S), NEW n \in 0 .. Len(s)
  PROVE  /\ SubSeq(s, 1, n) \in Seq(S) /\ Len(SubSeq(s, 1, n)) = n
         /\ \A i \in 1 .. n : SubSeq(s, 1, n)[i] = s[i]
<1>1. Len(s) \in Nat /\ n \in Int /\ 1 \in Int /\ \A i \in 1 .. n : s[i] \in S
  BY LenProperties, ElementOfSeq
<1>2. /\ SubSeq(s, 1, n) \in Seq(S) /\ Len(SubSeq(s, 1, n)) = IF 1 <= n THEN n - 1 + 1 ELSE 0
      /\ \A i \in 1 .. n - 1 + 1 : SubSeq(s, 1, n)[i] = s[1 + i - 1]
  BY <1>1, SubSeqProperties
<1>3. \A i \in 1 .. n : i \in 1 .. n - 1 + 1 /\ 1 + i - 1 = i
  BY <1>1
<1>4. QED BY <1>1, <1>2, <1>3

\* Prefixes of a sequence with one more element.
LEMMA PrefixOfAppend ==
  ASSUME NEW S, NEW s \in Seq(S), NEW e \in S
  PROVE  /\ \A n \in 0 .. Len(s) : SubSeq(Append(s, e), 1, n) = SubSeq(s, 1, n)
         /\ SubSeq(Append(s, e), 1, Len(s) + 1) = Append(s, e)
<1>1. /\ Append(s, e) \in Seq(S) /\ Len(Append(s, e)) = Len(s) + 1 /\ Len(s) \in Nat
      /\ \A i \in 1 .. Len(s) : Append(s, e)[i] = s[i]
  BY AppendProperties, LenProperties
<1> DEFINE t == Append(s, e)
<1> HIDE DEF t
<1>2. ASSUME NEW n \in 0 .. Len(s) PROVE SubSeq(t, 1, n) = SubSeq(s, 1, n)
  <2>1. n \in 0 .. Len(t)
    BY <1>1 DEF t
  <2>2. /\ SubSeq(t, 1, n) \in Seq(S) /\ Len(SubSeq(t, 1, n)) = n
        /\ \A i \in 1 .. n : SubSeq(t, 1, n)[i] = t[i]
    BY <1>1, <2>1, PrefixFacts DEF t
  <2>3. /\ SubSeq(s, 1, n) \in Seq(S) /\ Len(SubSeq(s, 1, n)) = n
        /\ \A i \in 1 .. n : SubSeq(s, 1, n)[i] = s[i]
    BY PrefixFacts
  <2>4. \A i \in 1 .. n : t[i] = s[i]
    BY <1>1 DEF t
  <2>5. QED BY <2>2, <2>3, <2>4, SeqEqual
<1>3. SubSeq(t, 1, Len(t)) = t
  BY <1>1, SubSeqFull DEF t
<1>4. QED BY <1>1, <1>2, <1>3 DEF t

\* A prefix of a prefix.
LEMMA PrefixOfPrefix ==
  ASSUME NEW S, NEW s \in Seq(S), NEW n \in 0 .. Len(s), NEW m \in 0 .. n
  PROVE  SubSeq(SubSeq(s, 1, n), 1, m) = SubSeq(s, 1, m)
<1> DEFINE t == SubSeq(s, 1, n)
<1>1. Len(s) \in Nat
  BY LenProperties
<1>2. t \in Seq(S) /\ Len(t) = n /\ \A i \in 1 .. n : t[i] = s[i]
  BY PrefixFacts
<1> HIDE DEF t
<1>3. m \in 0 .. Len(s) /\ m \in 0 .. Len(t)
  BY <1>1, <1>2
<1>4. SubSeq(t, 1, m) \in Seq(S) /\ Len(SubSeq(t, 1, m)) = m /\ \A i \in 1 .. m : SubSeq(t, 1, m)[i] = t[i]
  BY <1>2, <1>3, PrefixFacts
<1>5. SubSeq(s, 1, m) \in Seq(S) /\ Len(SubSeq(s, 1, m)) = m /\ \A i \in 1 .. m : SubSeq(s, 1, m)[i] = s[i]
  BY <1>3, PrefixFacts
<1>6. \A i \in 1 .. m : t[i] = s[i]
  BY <1>2
<1>7. SubSeq(t, 1, m) = SubSeq(s, 1, m)
  BY <1>4, <1>5, <1>6, SeqEqual
<1>8. QED BY <1>7 DEF t

\* One more edit: the files are the old ones it does not delete and the ones
\* it adds.
LEMMA ManifestFilesAppend ==
  ASSUME NEW recs \in Seq(EditType), NEW e \in EditType, NEW l
  PROVE  ManifestFiles(Append(recs, e), l) \subseteq
           {f \in ManifestFiles(recs, l) : <<l, f.num>> \notin e.del}
             \cup {a[2] : a \in {x \in e.add : x[1] = l}}
<1> DEFINE t == Append(recs, e)
           N == Len(recs)
<1>1. /\ t \in Seq(EditType) /\ Len(t) = N + 1 /\ N \in Nat
      /\ \A i \in 1 .. N : t[i] = recs[i]
      /\ t[N + 1] = e /\ DOMAIN t = 1 .. N + 1 /\ DOMAIN recs = 1 .. N
  BY AppendProperties, LenProperties
<1> HIDE DEF t, N
<1> DEFINE R == {f \in ManifestFiles(recs, l) : <<l, f.num>> \notin e.del}
                  \cup {a[2] : a \in {x \in e.add : x[1] = l}}
<1>2. SUFFICES ASSUME NEW i \in DOMAIN t, NEW a \in StillAdded(t, l, i)
               PROVE  a[2] \in R
  <2>1. ManifestFiles(t, l) = {a[2] : a \in UNION {StillAdded(t, l, i) : i \in DOMAIN t}}
    BY DEF ManifestFiles
  <2> HIDE DEF R
  <2>2. ASSUME \A i \in DOMAIN t : \A a \in StillAdded(t, l, i) : a[2] \in R
        PROVE  ManifestFiles(t, l) \subseteq R
    BY <2>1, <2>2
  <2>3. QED BY <2>2 DEF t, R
<1>3. a \in t[i].add /\ a[1] = l /\ \A j \in i + 1 .. N + 1 : <<l, a[2].num>> \notin t[j].del
  BY <1>1 DEF StillAdded
<1>4. CASE i = N + 1
  BY <1>1, <1>3, <1>4
<1>5. CASE i # N + 1
  <2>1. i \in 1 .. N /\ N + 1 \in i + 1 .. N + 1
    BY <1>1, <1>5
  <2>2. <<l, a[2].num>> \notin e.del
    BY <1>1, <1>3, <2>1
  <2>3. \A j \in i + 1 .. N : j \in 1 .. N /\ j \in i + 1 .. N + 1
    BY <1>1, <2>1
  <2>4. a \in StillAdded(recs, l, i)
    BY <1>1, <1>3, <2>1, <2>3 DEF StillAdded, N
  <2>5. a[2] \in ManifestFiles(recs, l)
    BY <1>1, <2>1, <2>4 DEF ManifestFiles
  <2>6. QED BY <2>2, <2>5
<1>6. QED BY <1>4, <1>5

\* A field is what the last edit says if it says anything.
LEMMA ManifestFieldAppend ==
  ASSUME NEW recs \in Seq(EditType), NEW e \in EditType, NEW field, e[field] # None
  PROVE  ManifestField(Append(recs, e), field) = e[field]
<1> DEFINE t == Append(recs, e)
           N == Len(recs)
           set == {i \in DOMAIN t : t[i][field] # None}
<1>1. N \in Nat /\ t[N + 1] = e /\ DOMAIN t = 1 .. N + 1
  BY AppendProperties, LenProperties
<1> HIDE DEF t, N
<1>2. ManifestField(t, field) = IF set = {} THEN None ELSE t[Max(set)][field]
  BY DEF ManifestField
<1>3. N + 1 \in set /\ set \in SUBSET (1 .. N + 1) /\ N + 1 \in Nat
  BY <1>1
<1> HIDE DEF set
<1> DEFINE m == Max(set)
<1>4. m \in set /\ N + 1 <= m
  BY <1>3, LastPosition
<1> HIDE DEF m
<1>5. m = N + 1
  <2>1. m \in 1 .. N + 1
    BY <1>3, <1>4
  <2>2. QED BY <1>1, <1>4, <2>1
<1>6. ManifestField(t, field) = t[N + 1][field]
  BY <1>2, <1>3, <1>5 DEF m
<1>7. QED BY <1>1, <1>6 DEF t

\* A version described by one more edit.
LEMMA ListedAppend ==
  ASSUME NEW recs \in Seq(EditType), NEW e \in EditType, NEW v, Within(Listed(recs), v)
  PROVE  Within(Listed(Append(recs, e)), ApplyEdit(v, e))
<1>1. SUFFICES ASSUME NEW l \in Levels
               PROVE  ManifestFiles(Append(recs, e), l) \subseteq ApplyEdit(v, e)[l]
  BY DEF Within, Listed
<1>2. ManifestFiles(recs, l) \subseteq v[l]
  BY DEF Within, Listed
<1>3. ApplyEdit(v, e)[l] = {f \in v[l] : <<l, f.num>> \notin e.del}
                             \cup {a[2] : a \in {x \in e.add : x[1] = l}}
  BY DEF ApplyEdit
<1>4. QED BY <1>2, <1>3, ManifestFilesAppend

\* A manifest without edits lists nothing.
LEMMA ListedEmpty ==
  ASSUME NEW v
  PROVE  Within(Listed(<<>>), v)
<1>1. DOMAIN <<>> = {}
  OBVIOUS
<1>2. \A l \in Levels : ManifestFiles(<<>>, l) = {}
  BY <1>1 DEF ManifestFiles
<1>3. QED BY <1>2 DEF Within, Listed

\* Where files and added files are, the applied edit's files are.
LEMMA ApplyIn ==
  ASSUME NEW v, NEW e, NEW T, FilesIn(v, T), AddsIn(e.add, T)
  PROVE  FilesIn(ApplyEdit(v, e), T)
<1>1. SUFFICES ASSUME NEW l \in Levels, NEW f \in ApplyEdit(v, e)[l] PROVE f.num \in T
  BY DEF FilesIn
<1>2. \/ f \in v[l]
      \/ \E a \in e.add : f = a[2]
  BY DEF ApplyEdit
<1>3. QED BY <1>2 DEF FilesIn, AddsIn

\* The numbers of a smaller version are among those of a larger one.
LEMMA WithinIn ==
  ASSUME NEW v, NEW w, NEW T, Within(v, w), FilesIn(w, T)
  PROVE  FilesIn(v, T)
BY DEF Within, FilesIn

\* More tables do no harm.
LEMMA MoreTables ==
  ASSUME NEW T, NEW U, T \subseteq U
  PROVE  /\ \A v : FilesIn(v, T) => FilesIn(v, U)
         /\ \A a : AddsIn(a, T) => AddsIn(a, U)
         /\ \A recs, cur : Complete(recs, cur, T) => Complete(recs, cur, U)
         /\ \A f, cur : Durable(f, cur, T) => Durable(f, cur, U)
<1>1. ASSUME NEW v, FilesIn(v, T) PROVE FilesIn(v, U)
  BY <1>1 DEF FilesIn
<1>2. ASSUME NEW a, AddsIn(a, T) PROVE AddsIn(a, U)
  BY <1>2 DEF AddsIn
<1>3. ASSUME NEW recs, NEW cur, Complete(recs, cur, T) PROVE Complete(recs, cur, U)
  BY <1>1, <1>3 DEF Complete
<1>4. ASSUME NEW f, NEW cur, Durable(f, cur, T) PROVE Durable(f, cur, U)
  BY <1>3, <1>4 DEF Durable
<1>5. QED BY <1>1, <1>2, <1>3, <1>4

\* An edit with all fields set, whose files are there, completes a manifest.
LEMMA CompleteAppend ==
  ASSUME NEW recs \in Seq(EditType), NEW e \in FilledEdit, NEW cur, cur < e.next, NEW T,
         FilesIn(Listed(recs), T), AddsIn(e.add, T)
  PROVE  Complete(Append(recs, e), cur, T)
<1>1. e \in EditType /\ e["log"] = e.log /\ e["next"] = e.next /\ e["last"] = e.last
  BY FilledIsEdit
<1>2. e.log \in Nat /\ e.next \in Nat /\ e.last \in Nat
  BY DEF FilledEdit
<1>3. e["log"] # None /\ e["next"] # None /\ e["last"] # None
  BY <1>1, <1>2 DEF None
<1>4. ManifestField(Append(recs, e), "log") = e["log"]
  BY <1>1, <1>3, ManifestFieldAppend
<1>5. ManifestField(Append(recs, e), "next") = e["next"]
  BY <1>1, <1>3, ManifestFieldAppend
<1>6. ManifestField(Append(recs, e), "last") = e["last"]
  BY <1>1, <1>3, ManifestFieldAppend
<1>7. Within(Listed(recs), Listed(recs))
  BY DEF Within
<1>8. Within(Listed(Append(recs, e)), ApplyEdit(Listed(recs), e))
  BY <1>1, <1>7, ListedAppend
<1>9. FilesIn(ApplyEdit(Listed(recs), e), T)
  BY ApplyIn
<1>10. FilesIn(Listed(Append(recs, e)), T)
  BY <1>8, <1>9, WithinIn
<1>11. QED BY <1>1, <1>3, <1>4, <1>5, <1>6, <1>10 DEF Complete

\* Appending a filled edit to a manifest that is in use keeps it durable.
LEMMA DurableAppend ==
  ASSUME NEW f \in FileOf(EditType), NEW cur, NEW T, Durable(f, cur, T), f.sync > 0,
         NEW e \in FilledEdit, cur < e.next, AddsIn(e.add, T), NEW g, Grows(f, e, g)
  PROVE  Durable(g, cur, T) /\ g.sync < Len(g.recs)
<1>1. f.recs \in Seq(EditType) /\ f.sync \in Nat /\ Len(f.recs) \in Nat /\ e \in EditType
  BY FilledIsEdit, FileParts
<1>2. g.sync = f.sync /\ g.recs = Append(f.recs, e)
  BY DEF Grows
<1>3. Len(Append(f.recs, e)) = Len(f.recs) + 1
  BY <1>1, AppendProperties
<1>4. f.sync <= Len(f.recs) /\ \A n \in f.sync .. Len(f.recs) : n > 0 => Complete(SubSeq(f.recs, 1, n), cur, T)
  BY DEF Durable
<1>5. ASSUME NEW n \in f.sync .. Len(f.recs) PROVE Complete(SubSeq(Append(f.recs, e), 1, n), cur, T)
  <2>1. n > 0 /\ n \in 0 .. Len(f.recs)
    BY <1>1, <1>5
  <2>2. SubSeq(Append(f.recs, e), 1, n) = SubSeq(f.recs, 1, n)
    BY <1>1, <2>1, PrefixOfAppend
  <2>3. QED BY <1>4, <2>1, <2>2
<1>6. Complete(SubSeq(Append(f.recs, e), 1, Len(f.recs) + 1), cur, T)
  <2>1. Len(f.recs) \in f.sync .. Len(f.recs) /\ Len(f.recs) > 0
    BY <1>1, <1>4
  <2>2. SubSeq(f.recs, 1, Len(f.recs)) = f.recs
    BY <1>1, SubSeqFull
  <2>3. FilesIn(Listed(f.recs), T)
    BY <1>4, <2>1, <2>2 DEF Complete
  <2>4. Complete(Append(f.recs, e), cur, T)
    BY <1>1, <2>3, CompleteAppend
  <2>5. SubSeq(Append(f.recs, e), 1, Len(f.recs) + 1) = Append(f.recs, e)
    BY <1>1, PrefixOfAppend
  <2>6. QED BY <2>4, <2>5
<1>7. \A n \in f.sync .. Len(f.recs) + 1 : n \in f.sync .. Len(f.recs) \/ n = Len(f.recs) + 1
  BY <1>1
<1>8. \A n \in f.sync .. Len(f.recs) + 1 : Complete(SubSeq(Append(f.recs, e), 1, n), cur, T)
  BY <1>5, <1>6, <1>7
<1>9. Durable(g, cur, T)
  BY <1>1, <1>2, <1>3, <1>4, <1>8 DEF Durable
<1>10. QED BY <1>1, <1>2, <1>3, <1>4, <1>9

\* A prefix of a manifest that still holds its durable part.
LEMMA DurablePrefix ==
  ASSUME NEW f \in FileOf(EditType), NEW g \in FileOf(EditType), NEW cur, NEW T, Durable(f, cur, T),
         NEW n \in f.sync .. Len(f.recs), g.recs = SubSeq(f.recs, 1, n), f.sync <= g.sync, g.sync <= n
  PROVE  Durable(g, cur, T)
<1>1. f.recs \in Seq(EditType) /\ f.sync \in Nat /\ Len(f.recs) \in Nat /\ g.sync \in Nat
  BY FileParts
<1>2. n \in 0 .. Len(f.recs)
  BY <1>1
<1>3. Len(g.recs) = n
  BY <1>1, <1>2, PrefixFacts
<1>4. ASSUME NEW m \in g.sync .. n, m > 0 PROVE Complete(SubSeq(g.recs, 1, m), cur, T)
  <2>1. m \in 0 .. n /\ m \in f.sync .. Len(f.recs)
    BY <1>1, <1>2
  <2>2. SubSeq(g.recs, 1, m) = SubSeq(f.recs, 1, m)
    BY <1>1, <1>2, <2>1, PrefixOfPrefix
  <2>3. QED BY <1>4, <2>1, <2>2 DEF Durable
<1>5. QED BY <1>3, <1>4 DEF Durable

\* A manifest after its Sync, after a crash, and without the record whose
\* writing failed.
LEMMA DurableStays ==
  ASSUME NEW f \in FileOf(EditType), NEW cur, NEW T, Durable(f, cur, T)
  PROVE  /\ Durable(Synced(f), cur, T)
         /\ \A n \in CutPoints(f) : Durable(CutAt(f, n), cur, T)
         /\ f.sync < Len(f.recs) => Durable(Torn(f), cur, T)
<1>1. f.recs \in Seq(EditType) /\ f.sync \in Nat /\ Len(f.recs) \in Nat /\ f.sync <= Len(f.recs)
  BY FileParts DEF Durable
<1>2. Durable(Synced(f), cur, T)
  <2>1. Synced(f) \in FileOf(EditType)
    BY FileFacts
  <2>2. Synced(f).sync \in {f.sync, Len(f.recs)} /\ Synced(f).recs = f.recs
    BY FileParts
  <2>3. SubSeq(f.recs, 1, Len(f.recs)) = f.recs /\ Len(f.recs) \in f.sync .. Len(f.recs)
    BY <1>1, SubSeqFull
  <2>4. QED BY <1>1, <2>1, <2>2, <2>3, DurablePrefix
<1>3. ASSUME NEW n \in CutPoints(f) PROVE Durable(CutAt(f, n), cur, T)
  <2>1. /\ CutAt(f, n) \in FileOf(EditType) /\ CutAt(f, n).sync = n /\ f.sync <= n
        /\ CutAt(f, n).recs = SubSeq(f.recs, 1, n)
    BY CutFacts
  <2>2. n \in f.sync .. Len(f.recs) /\ n <= n
    BY <1>1 DEF CutPoints
  <2>3. QED BY <2>1, <2>2, DurablePrefix
<1>4. ASSUME f.sync < Len(f.recs) PROVE Durable(Torn(f), cur, T)
  <2> DEFINE n == Len(f.recs) - 1
  <2>1. Front(f.recs) = SubSeq(f.recs, 1, n)
    BY DEF Front
  <2>2. n \in f.sync .. Len(f.recs) /\ n \in 0 .. Len(f.recs) /\ f.sync <= n
    BY <1>1, <1>4
  <2> HIDE DEF n
  <2>3. Front(f.recs) \in Seq(EditType)
    BY <1>1, <2>1, <2>2, PrefixFacts
  <2>4. Torn(f) \in FileOf(EditType) /\ Torn(f).recs = SubSeq(f.recs, 1, n) /\ Torn(f).sync = f.sync
    BY <2>1, <2>3, TornFacts
  <2>5. QED BY <1>1, <2>2, <2>4, DurablePrefix
<1>5. QED BY <1>2, <1>3, <1>4

\* The whole of a durable manifest is complete.
LEMMA DurableWhole ==
  ASSUME NEW f \in FileOf(EditType), NEW cur, NEW T, Durable(f, cur, T), Len(f.recs) > 0
  PROVE  Complete(f.recs, cur, T)
<1>1. f.recs \in Seq(EditType) /\ f.sync \in Nat /\ Len(f.recs) \in Nat /\ f.sync <= Len(f.recs)
  BY LenProperties DEF FileOf, Durable
<1>2. SubSeq(f.recs, 1, Len(f.recs)) = f.recs /\ Len(f.recs) \in f.sync .. Len(f.recs)
  BY <1>1, SubSeqFull
<1>3. QED BY <1>2 DEF Durable

\* A synced manifest stays durable with fewer tables if its own are kept.
LEMMA DurableFewer ==
  ASSUME NEW f \in FileOf(EditType), f.sync = Len(f.recs), NEW cur, NEW T, NEW U,
         Complete(f.recs, cur, T), FilesIn(Listed(f.recs), U)
  PROVE  Durable(f, cur, U)
<1>1. f.recs \in Seq(EditType) /\ f.sync \in Nat /\ Len(f.recs) \in Nat
  BY LenProperties DEF FileOf
<1>2. Complete(f.recs, cur, U)
  BY DEF Complete
<1>3. SubSeq(f.recs, 1, Len(f.recs)) = f.recs
  BY <1>1, SubSeqFull
<1>4. \A n \in f.sync .. Len(f.recs) : n = Len(f.recs)
  BY <1>1
<1>5. \A n \in f.sync .. Len(f.recs) : Complete(SubSeq(f.recs, 1, n), cur, U)
  BY <1>2, <1>3, <1>4
<1>6. f.sync <= Len(f.recs)
  BY <1>1
<1>7. QED BY <1>5, <1>6 DEF Durable

\* Recovery succeeds from a complete manifest.
LEMMA CompleteRecovers ==
  ASSUME NEW d, d.cur \in DOMAIN d.man, Complete(d.man[d.cur].recs, d.cur, DOMAIN d.tab)
  PROVE  ManifestOK(d)
<1> DEFINE recs == d.man[d.cur].recs
           st == ManifestState(recs)
<1>1. st.ver = Listed(recs) /\ st.log = ManifestField(recs, "log") /\ st.next = ManifestField(recs, "next")
        /\ st.last = ManifestField(recs, "last")
  BY DEF ManifestState, Listed
<1>2. CurrentState(d) = st
  BY DEF CurrentState
<1>3. Complete(recs, d.cur, DOMAIN d.tab)
  OBVIOUS
<1> HIDE DEF st, recs
<1>4. {f.num : f \in VersionFiles(st.ver)} \subseteq DOMAIN d.tab
  BY <1>1, <1>3 DEF Complete, FilesIn, VersionFiles
<1>5. QED BY <1>1, <1>2, <1>3, <1>4 DEF ManifestOK, Complete

-----------------------------------------------------------------------------
(* Steps that leave the manifest, the tables and the background job alone.   *)

\* The invariant says a later Open succeeds.
LEMMA SafeReopens == Inv /\ Safe => Reopenable
<1>1. SUFFICES ASSUME Inv, Safe, db.phase = "open" \/ hist # {}
               PROVE  ManifestOK(disk) /\ (db.phase = "open" /\ ~db.err => RecoverOK(disk))
  BY DEF Reopenable
<1>2. disk.cur # 0 /\ disk.man[disk.cur].sync > 0
  BY <1>1 DEF Safe, Founded
<1>3. disk.cur \in DOMAIN disk.man /\ Durable(disk.man[disk.cur], disk.cur, DOMAIN disk.tab)
  BY <1>1, <1>2 DEF Safe, ManifestSafe
<1>4. disk.man[disk.cur] \in FileOf(EditType)
  BY <1>1, <1>3 DEF Inv, Typed, IsDisk, IsDir
<1>5. Len(disk.man[disk.cur].recs) > 0
  <2>1. disk.man[disk.cur].sync <= Len(disk.man[disk.cur].recs)
    BY <1>3 DEF Durable
  <2>2. disk.man[disk.cur].sync \in Nat /\ Len(disk.man[disk.cur].recs) \in Nat
    BY <1>4, LenProperties DEF FileOf
  <2>3. QED BY <1>2, <2>1, <2>2
<1>6. Complete(disk.man[disk.cur].recs, disk.cur, DOMAIN disk.tab)
  BY <1>3, <1>4, <1>5, DurableWhole
<1>7. ManifestOK(disk)
  BY <1>3, <1>6, CompleteRecovers
<1>8. ASSUME db.phase = "open", ~db.err PROVE disk.man[disk.cur].bad = {}
  BY <1>1, <1>8 DEF Safe, OpenSafe, InStep, Legible
<1>9. QED BY <1>7, <1>8 DEF RecoverOK

\* An open database has a durable manifest.
LEMMA OpenManifest ==
  ASSUME Inv, Safe, db.phase = "open"
  PROVE  /\ disk.cur = vs.man /\ vs.man \in DOMAIN disk.man /\ disk.cur # 0
         /\ disk.man[vs.man] \in FileOf(EditType) /\ disk.man[vs.man].sync > 0
         /\ Durable(disk.man[vs.man], disk.cur, DOMAIN disk.tab)
         /\ vs.man \in Nat /\ vs.next \in Nat /\ vs.man < vs.next
<1>1. disk.cur = vs.man /\ disk.cur # 0 /\ disk.man[disk.cur].sync > 0 /\ vs.man < vs.next
  BY DEF Safe, OpenSafe, Founded
<1>2. disk.cur \in DOMAIN disk.man /\ Durable(disk.man[disk.cur], disk.cur, DOMAIN disk.tab)
  BY <1>1 DEF Safe, ManifestSafe
<1>3. disk.man[disk.cur] \in FileOf(EditType)
  BY <1>2 DEF Inv, Typed, IsDisk, IsDir
<1>4. vs.man \in Nat /\ vs.next \in Nat
  BY DEF Inv, Typed, VSType
<1>5. QED BY <1>1, <1>2, <1>3, <1>4

\* Steps of the clients, and of the background thread when it has no job.
LEMMA ClientStep ==
  ASSUME Inv, Safe, db.phase = "open", db'.phase = "open",
         disk'.man = disk.man, disk'.cur = disk.cur, disk'.tab = disk.tab,
         vs'.man = vs.man, vs'.ver = vs.ver, vs'.next \in Nat, vs.next <= vs'.next,
         db'.pending = db.pending, db'.err = TRUE \/ db'.err = db.err, bg' = bg
  PROVE  Safe'
<1>1. /\ disk.cur = vs.man /\ vs.man \in DOMAIN disk.man /\ disk.cur # 0
      /\ disk.man[vs.man].sync > 0 /\ vs.next \in Nat /\ vs.man \in Nat /\ vs.man < vs.next
  BY OpenManifest
<1>2. ManifestSafe'
  BY <1>1 DEF Safe, ManifestSafe
<1>3. Founded'
  BY <1>1 DEF Founded
<1>4. OpeningSafe' /\ NewManifest'
  BY DEF OpeningSafe, NewManifest
<1>5. OpenSafe'
  <2>1. vs'.man < vs'.next
    BY <1>1
  <2>2. QED BY <1>1, <2>1 DEF Safe, OpenSafe
<1>6. InStep'
  <2>1. Coming' = Coming
    BY DEF Coming
  <2>2. ASSUME ~db'.err PROVE Within(Listed(disk.man[vs.man].recs), Coming) /\ Legible(disk.man[vs.man])
    <3>1. ~db.err
      BY <2>2
    <3>2. QED BY <3>1 DEF Safe, InStep
  <2>3. QED BY <2>1, <2>2 DEF InStep
<1>7. OutputsSafe'
  <2>1. ASSUME NEW w \in bg.comp, NEW f \in w.outs
        PROVE  /\ f.num \in DOMAIN disk.tab /\ f.num \in db.pending /\ f.num < vs'.next
               /\ bg.pc = "build" => f.num # bg.num
    <3>1. /\ f.num \in DOMAIN disk.tab /\ f.num \in db.pending /\ f.num < vs.next
          /\ bg.pc = "build" => f.num # bg.num
      BY <2>1 DEF Safe, OutputsSafe
    <3>2. f.num \in Nat
      BY <3>1 DEF Inv, Typed, DBType
    <3>3. QED BY <1>1, <3>1, <3>2
  <2>2. QED BY <2>1 DEF OutputsSafe
<1>8. QED BY <1>2, <1>3, <1>4, <1>5, <1>6, <1>7 DEF Safe

\* Calls of Write and what a write goes through before it has room.
LEMMA WaitingSafe ==
  ASSUME Inv, Safe, NEW t,
         \/ \E call \in Calls : Write(t, call)
         \/ WriteFails(t) \/ WriteDelayed(t) \/ WriteWaits(t)
  PROVE  Safe'
<1>1. /\ db.phase = "open" /\ disk' = disk /\ vs' = vs /\ bg' = bg
      /\ \/ db' = db \/ (\E q : db' = [db EXCEPT !.queue = q]) \/ (\E s : db' = [db EXCEPT !.waiting = s])
  BY DEF Write, IsOpen, Enqueue, WriteFails, AtHead, Leave, WriteDelayed, WriteWaits
<1>2. db \in DBType /\ vs.next \in Nat
  BY DEF Inv, Typed, VSType
<1>3. db'.phase = "open" /\ db'.pending = db.pending /\ db'.err = db.err
  BY <1>1, <1>2 DEF DBType
<1>4. vs'.next \in Nat /\ vs.next <= vs'.next
  BY <1>1, <1>2
<1>5. QED BY <1>1, <1>3, <1>4, ClientStep

\* The memtable switch creates a log only.
LEMMA SwitchMemTableSafe ==
  ASSUME Inv, Safe, NEW t, SwitchMemTable(t)
  PROVE  Safe'
<1> DEFINE n == vs.next
           d == [db EXCEPT !.imm = db.mem, !.mem = n]
           v == [vs EXCEPT !.next = n + 1]
           lg == With(disk.log, n, NewFile(<<>>))
<1>1. db.phase = "open" /\ bg' = bg
  BY DEF SwitchMemTable, AtHead
<1>2. db \in DBType /\ vs \in VSType /\ n \in Nat /\ n + 1 \in Nat /\ IsDisk(disk) /\ db.mem \in Nat
  BY DEF Inv, Typed, VSType, DBType
<1>3. \/ /\ vs' = v /\ disk' = [disk EXCEPT !.log = lg]
         /\ \/ db' = MaybeSchedule(d, v)
            \/ \E q : db' = [MaybeSchedule(d, v) EXCEPT !.queue = q]
      \/ vs' = vs /\ disk' = disk /\ \E q : db' = [db EXCEPT !.queue = q]
  BY DEF SwitchMemTable, Leave
<1>4. CASE vs' = vs /\ disk' = disk /\ \E q : db' = [db EXCEPT !.queue = q]
  <2>1. db'.phase = "open" /\ db'.pending = db.pending /\ db'.err = db.err
    BY <1>1, <1>2, <1>4 DEF DBType
  <2>2. vs'.next \in Nat /\ vs.next <= vs'.next
    BY <1>2, <1>4
  <2>3. QED BY <1>1, <1>4, <2>1, <2>2, ClientStep
<1>5. CASE /\ vs' = v /\ disk' = [disk EXCEPT !.log = lg]
           /\ \/ db' = MaybeSchedule(d, v)
              \/ \E q : db' = [MaybeSchedule(d, v) EXCEPT !.queue = q]
  <2>1. d \in DBType /\ d.phase = "open" /\ d.pending = db.pending /\ d.err = db.err
    BY <1>1, <1>2 DEF DBType
  <2>2. v.next = n + 1 /\ v.man = vs.man /\ v.ver = vs.ver
    BY <1>2, VSChange
  <2>3. disk'.man = disk.man /\ disk'.tab = disk.tab /\ disk'.cur = disk.cur
    <3> HIDE DEF lg
    <3> QED BY <1>2, <1>5, DiskChange
  <2> DEFINE m == MaybeSchedule(d, v)
  <2> HIDE DEF d, v
  <2>4. m \in DBType /\ m.phase = d.phase /\ m.pending = d.pending /\ m.err = d.err
    BY <2>1, ScheduleFacts
  <2>5. db' = m \/ \E q : db' = [m EXCEPT !.queue = q]
    BY <1>5
  <2> HIDE DEF m
  <2>6. db'.phase = m.phase /\ db'.pending = m.pending /\ db'.err = m.err
    BY <2>4, <2>5 DEF DBType
  <2>7. vs'.next \in Nat /\ vs.next <= vs'.next /\ vs'.man = vs.man /\ vs'.ver = vs.ver
    BY <1>2, <1>5, <2>2
  <2>8. db'.phase = "open" /\ db'.pending = db.pending /\ db'.err = db.err
    BY <2>1, <2>4, <2>6
  <2>9. QED BY <1>1, <2>3, <2>7, <2>8, ClientStep
<1>6. QED BY <1>3, <1>4, <1>5

\* A group goes to the log and the memtable, or fails there.
LEMMA WriteGroupSafe ==
  ASSUME Inv, Safe, NEW t \in Threads, WriteLog(t) \/ WriteMem(t) \/ WriteDone(t)
  PROVE  Safe'
<1>1. db.phase = "open" /\ bg' = bg
  BY DEF WriteLog, WriteMem, WriteDone, AtHead, Inv, Quiet, IdleWriter
<1>2. db \in DBType /\ vs \in VSType /\ vs.next \in Nat /\ IsDisk(disk)
  BY DEF Inv, Typed, VSType
<1>3. disk' = disk \/ \E x : disk' = [disk EXCEPT !.log = x]
  BY DEF WriteLog, WriteMem, WriteDone
<1>4. vs' = vs \/ \E s : vs' = [vs EXCEPT !.last = s]
  BY DEF WriteLog, WriteMem, WriteDone
<1>5. \/ db' = db
      \/ \E q : db' = [db EXCEPT !.queue = q]
      \/ \E q : db' = [RecordBackgroundError(db) EXCEPT !.queue = q]
  BY DEF WriteLog, WriteMem, WriteDone, Leave
<1>6. disk'.man = disk.man /\ disk'.tab = disk.tab /\ disk'.cur = disk.cur
  BY <1>2, <1>3 DEF IsDisk
<1>7. vs'.next = vs.next /\ vs'.man = vs.man /\ vs'.ver = vs.ver
  BY <1>2, <1>4 DEF VSType
<1>8. db'.phase = db.phase /\ db'.pending = db.pending /\ (db'.err = db.err \/ db'.err = TRUE)
  <2> DEFINE x == RecordBackgroundError(db)
  <2>1. x \in DBType /\ x.err /\ x.phase = db.phase /\ x.pending = db.pending
    BY <1>2, ErrorFacts
  <2>2. x.err = TRUE
    BY <2>1 DEF DBType
  <2> HIDE DEF x
  <2>3. CASE db' = db \/ \E q : db' = [db EXCEPT !.queue = q]
    BY <1>2, <2>3 DEF DBType
  <2>4. CASE \E q : db' = [x EXCEPT !.queue = q]
    BY <2>1, <2>2, <2>4 DEF DBType
  <2>5. QED BY <1>5, <2>3, <2>4 DEF x
<1>9. vs'.next \in Nat /\ vs.next <= vs'.next /\ db'.phase = "open"
  BY <1>1, <1>2, <1>7, <1>8
<1>10. QED BY <1>1, <1>6, <1>7, <1>8, <1>9, ClientStep

\* Reads and snapshots.
LEMMA ReadingSafe ==
  ASSUME Inv, Safe, (\E r \in Readers : BeginRead(r) \/ EndRead(r)) \/ GetSnapshot \/ ReleaseSnapshot
  PROVE  Safe'
<1>1. db.phase = "open" /\ bg' = bg /\ disk' = disk
  BY DEF BeginRead, EndRead, GetSnapshot, ReleaseSnapshot, IsOpen, Inv, Quiet
<1>2. db \in DBType /\ vs \in VSType /\ vs.next \in Nat
  BY DEF Inv, Typed, VSType
<1>3. \/ vs' = vs /\ db' = db
      \/ \E c : vs' = [vs EXCEPT !.seek = c] /\ db' = MaybeSchedule(db, [vs EXCEPT !.seek = c])
  BY DEF BeginRead, EndRead, GetSnapshot, ReleaseSnapshot
<1>4. vs'.next = vs.next /\ vs'.man = vs.man /\ vs'.ver = vs.ver
  BY <1>2, <1>3 DEF VSType
<1>5. db' = db \/ \E v : db' = MaybeSchedule(db, v)
  BY <1>3
<1>6. db'.phase = db.phase /\ db'.pending = db.pending /\ db'.err = db.err
  BY <1>2, <1>5, ScheduleFacts
<1>7. vs'.next \in Nat /\ vs.next <= vs'.next /\ db'.phase = "open"
  BY <1>1, <1>2, <1>4, <1>6
<1>8. QED BY <1>1, <1>4, <1>6, <1>7, ClientStep

\* A background call that has nothing to do.
LEMMA NothingToDoSafe ==
  ASSUME Inv, Safe, CallRefused \/ NothingToCompact
  PROVE  Safe'
<1> DEFINE d == [db EXCEPT !.manual = FALSE]
<1>1. db.phase = "open" /\ bg' = bg /\ disk' = disk /\ vs' = vs /\ (db' = EndCall(db, vs) \/ db' = EndCall(d, vs))
  BY DEF CallRefused, NothingToCompact, CallBegins
<1>2. db \in DBType /\ vs.next \in Nat
  BY DEF Inv, Typed, VSType
<1>3. d \in DBType /\ d.phase = db.phase /\ d.pending = db.pending /\ d.err = db.err
  BY <1>2 DEF DBType
<1> HIDE DEF d
<1>4. db'.phase = db.phase /\ db'.pending = db.pending /\ db'.err = db.err
  BY <1>1, <1>2, <1>3, EndCallFacts
<1>5. vs'.next \in Nat /\ vs.next <= vs'.next /\ db'.phase = "open"
  BY <1>1, <1>2, <1>4
<1>6. QED BY <1>1, <1>4, <1>5, ClientStep

\* The thread in CompactRange, and the one closing the database until the
\* background call is over.
LEMMA CallersSafe ==
  ASSUME Inv, Safe, BeginCompactRange \/ MemTableCompacted \/ CompactLevel \/ BeginClose \/ WaitToClose
  PROVE  Safe'
<1> DEFINE d == [db EXCEPT !.manual = TRUE]
<1>1. db.phase = "open" /\ bg' = bg /\ disk' = disk /\ vs' = vs
  BY DEF BeginCompactRange, MemTableCompacted, CompactLevel, BeginClose, WaitToClose, IsOpen, Awake, Inv, Quiet
<1>2. \/ db' = db \/ db' = [db EXCEPT !.manual = FALSE] \/ db' = MaybeSchedule(d, vs) \/ db' = [db EXCEPT !.shut = TRUE]
      \/ \E q : db' = [db EXCEPT !.queue = q]
      \/ \E s : db' = [db EXCEPT !.waiting = s]
  BY DEF BeginCompactRange, MemTableCompacted, CompactLevel, BeginClose, WaitToClose, Enqueue
<1>3. db \in DBType /\ vs.next \in Nat
  BY DEF Inv, Typed, VSType
<1>4. d \in DBType /\ d.phase = db.phase /\ d.pending = db.pending /\ d.err = db.err
  BY <1>3 DEF DBType
<1> HIDE DEF d
<1>5. db'.phase = db.phase /\ db'.pending = db.pending /\ db'.err = db.err
  <2>1. CASE db' = MaybeSchedule(d, vs)
    BY <1>4, <2>1, ScheduleFacts
  <2>2. CASE db' # MaybeSchedule(d, vs)
    BY <1>2, <1>3, <2>2 DEF DBType
  <2>3. QED BY <2>1, <2>2
<1>6. vs'.next \in Nat /\ vs.next <= vs'.next /\ db'.phase = "open"
  BY <1>1, <1>3, <1>5
<1>7. QED BY <1>1, <1>5, <1>6, ClientStep

-----------------------------------------------------------------------------
(* Opening, closing and crashing.                                            *)

\* NewDB's manifest can be opened, as far as it is there.
LEMMA FirstManifest ==
  ASSUME NEW T
  PROVE  Durable(NewFile(<<NewDBEdit>>), 1, T)
<1>1. NewDBEdit \in FilledEdit /\ NewDBEdit.next = 2 /\ NewDBEdit.add = {} /\ 1 < NewDBEdit.next
  BY NewDBEditType DEF NewDBEdit, Edit
<1>2. <<>> \in Seq(EditType)
  OBVIOUS
<1>3. Append(<<>>, NewDBEdit) = <<NewDBEdit>>
  OBVIOUS
<1>4. Within(Listed(<<>>), EmptyVersion) /\ FilesIn(EmptyVersion, T)
  BY ListedEmpty DEF FilesIn, EmptyVersion
<1>5. FilesIn(Listed(<<>>), T) /\ AddsIn(NewDBEdit.add, T)
  BY <1>1, <1>4, WithinIn DEF AddsIn
<1>6. Complete(<<NewDBEdit>>, 1, T)
  BY <1>1, <1>2, <1>3, <1>5, CompleteAppend
<1>7. <<NewDBEdit>> \in Seq(EditType) /\ Len(<<NewDBEdit>>) = 1
  BY <1>1, FilledIsEdit
<1>8. SubSeq(<<NewDBEdit>>, 1, 1) = <<NewDBEdit>>
  BY <1>7, SubSeqFull
<1>9. \A n \in 0 .. 1 : n > 0 => n = 1
  OBVIOUS
<1>10. NewFile(<<NewDBEdit>>).recs = <<NewDBEdit>> /\ NewFile(<<NewDBEdit>>).sync = 0
  BY DEF NewFile
<1>11. \A n \in 0 .. 1 : n > 0 => Complete(SubSeq(<<NewDBEdit>>, 1, n), 1, T)
  BY <1>6, <1>8, <1>9
<1> DEFINE f == NewFile(<<NewDBEdit>>)
<1>12. f.sync = 0 /\ Len(f.recs) = 1 /\ \A n \in 0 .. 1 : n > 0 => Complete(SubSeq(f.recs, 1, n), 1, T)
  BY <1>7, <1>10, <1>11
<1> HIDE DEF f
<1>13. Durable(f, 1, T)
  BY <1>12 DEF Durable
<1>14. QED BY <1>13 DEF f

\* A database that is not open: the parts of the invariant about an open one
\* say nothing.
LEMMA NotOpenSafe ==
  ASSUME ManifestSafe', Founded', OpeningSafe', NewManifest', db'.phase # "open", bg'.comp = {}
  PROVE  Safe'
BY DEF Safe, OpenSafe, InStep, OutputsSafe

\* The initial state.
LEMMA InitSafe == Init => Safe
<1>1. SUFFICES ASSUME Init PROVE Safe
  OBVIOUS
<1>2. /\ disk = [log |-> <<>>, tab |-> <<>>, man |-> <<>>, cur |-> 0] /\ hist = {}
      /\ db.phase = "closed" /\ bg.comp = {}
  BY <1>1 DEF Init, ClosedDB, IdleBG
<1>3. DOMAIN disk.log = {} /\ disk.cur = 0
  BY <1>2
<1>4. ManifestSafe /\ Founded
  BY <1>2, <1>3 DEF ManifestSafe, Founded
<1>5. QED BY <1>2, <1>4 DEF Safe, OpeningSafe, NewManifest, OpenSafe, InStep, OutputsSafe

\* NewDB.
LEMMA NewDBSafe ==
  ASSUME Inv, Safe, NewDB
  PROVE  Safe'
<1> DEFINE mn == With(disk.man, 1, NewFile(<<NewDBEdit>>))
<1>1. db.phase = "closed" /\ disk.cur = 0 /\ disk' = [disk EXCEPT !.man = mn, !.cur = 1]
      /\ db' = db /\ vs' = vs /\ bg' = bg /\ hist' = hist
  BY DEF NewDB
<1>2. 1 \in DOMAIN mn /\ mn[1] = NewFile(<<NewDBEdit>>)
  BY DEF With
<1> HIDE DEF mn
<1>3. disk'.man = mn /\ disk'.cur = 1 /\ disk'.tab = disk.tab /\ disk'.log = disk.log
  BY <1>1 DEF Inv, Typed, IsDisk
<1>4. Durable(disk'.man[disk'.cur], disk'.cur, DOMAIN disk'.tab)
  BY <1>2, <1>3, FirstManifest
<1>5. ManifestSafe'
  BY <1>2, <1>3, <1>4 DEF ManifestSafe
<1>6. Founded'
  BY <1>1, <1>3 DEF Safe, Founded
<1>7. OpeningSafe' /\ NewManifest'
  BY <1>1 DEF OpeningSafe, NewManifest
<1>8. bg'.comp = {} /\ db'.phase # "open"
  BY <1>1 DEF Inv, Quiet
<1>9. QED BY <1>5, <1>6, <1>7, <1>8, NotOpenSafe

\* Recover: the manifest read is complete.
LEMMA RecoverSafe ==
  ASSUME Inv, Safe, Recover
  PROVE  Safe'
<1> DEFINE st == CurrentState(disk)
           f == disk.man[disk.cur]
           last == Max({st.last, MaxReplayed(disk, st)})
<1>1. disk.cur # 0 /\ db.phase = "closed" /\ RecoverOK(disk) /\ IsDisk(disk)
  BY DEF Recover, Inv, Typed
<1>2. disk.cur \in DOMAIN disk.man /\ Durable(f, disk.cur, DOMAIN disk.tab)
  BY <1>1 DEF Safe, ManifestSafe
<1>3. f \in FileOf(EditType)
  BY <1>1, <1>2 DEF IsDisk, IsDir
<1>4. /\ st.ver = Listed(f.recs) /\ st.next = ManifestField(f.recs, "next")
  BY DEF CurrentState, ManifestState, Listed
<1>5. st.next \in Nat /\ st.next # None
  BY <1>1, CurrentStateType DEF RecoverOK, ManifestOK
<1>6. Len(f.recs) > 0
  <2>1. f.recs \in Seq(EditType) /\ Len(f.recs) \in Nat /\ DOMAIN f.recs = 1 .. Len(f.recs)
    BY <1>3, LenProperties DEF FileOf
  <2>2. ASSUME Len(f.recs) = 0 PROVE FALSE
    <3>1. DOMAIN f.recs = {}
      BY <2>1, <2>2
    <3>2. ManifestField(f.recs, "next") = None
      BY <3>1 DEF ManifestField
    <3>3. QED BY <1>4, <1>5, <3>2
  <2>3. QED BY <2>1, <2>2
<1>7. Complete(f.recs, disk.cur, DOMAIN disk.tab)
  BY <1>2, <1>3, <1>6, DurableWhole
<1>8. disk.cur < st.next /\ FilesIn(st.ver, DOMAIN disk.tab)
  BY <1>4, <1>7 DEF Complete
<1>9. /\ \E x : vs' = [ClosedVS EXCEPT !.man = st.next, !.next = st.next + 1, !.log = st.log,
                                 !.last = x, !.ver = st.ver, !.ptr = st.ptr]
      /\ \E x : db' = [ClosedDB EXCEPT !.phase = "recovering", !.todo = x]
      /\ disk' = disk /\ bg' = bg /\ hist' = hist
  BY DEF Recover
<1> HIDE DEF st, f
<1>10. /\ vs'.man = st.next /\ vs'.next = st.next + 1 /\ vs'.ver = st.ver
       /\ db'.phase = "recovering" /\ db'.add = {}
  BY <1>9 DEF ClosedVS, ClosedDB
<1>11. ManifestSafe'
  BY <1>1, <1>9 DEF Safe, ManifestSafe
<1>12. Founded'
  BY <1>9, <1>10 DEF Safe, Founded
<1>13. OpeningSafe'
  <2>1. AddsIn(db'.add, DOMAIN disk'.tab)
    BY <1>10 DEF AddsIn
  <2>2. vs'.man < vs'.next
    BY <1>5, <1>10
  <2>3. QED BY <1>8, <1>9, <1>10, <2>1, <2>2 DEF OpeningSafe
<1>14. NewManifest' /\ bg'.comp = {} /\ db'.phase # "open"
  BY <1>1, <1>9, <1>10 DEF NewManifest, Inv, Quiet
<1>15. QED BY <1>11, <1>12, <1>13, <1>14, NotOpenSafe

\* A table from a log.
LEMMA ReplayTableSafe ==
  ASSUME Inv, Safe, ReplayTable
  PROVE  Safe'
<1> DEFINE item == Head(db.todo)
           n == vs.next
           td == Tail(db.todo)
           f == FileMeta(n, item.es)
           tb == With(disk.tab, n, Synced(NewFile(<<item.es>>)))
<1>1. vs \in VSType /\ db \in DBType /\ IsDisk(disk) /\ n \in Nat /\ vs.man \in Nat
  BY DEF Inv, Typed, VSType
<1>2. db.phase = "recovering" /\ db.todo # <<>> /\ bg' = bg /\ hist' = hist
  BY DEF ReplayTable
<1>3. item.mark \in Nat
  <2>1. db.todo \in Seq(ItemType)
    BY <1>1 DEF DBType, ItemType
  <2>2. item \in ItemType
    BY <1>2, <2>1, HeadTailProperties
  <2>3. QED BY <2>2 DEF ItemType
<1>4. \/ /\ vs' = [vs EXCEPT !.next = MarkFileNumberUsed(n, item.mark)]
         /\ db' = [db EXCEPT !.todo = td]
         /\ disk' = disk
      \/ /\ vs' = [vs EXCEPT !.next = MarkFileNumberUsed(n + 1, item.mark)]
         /\ db' = [db EXCEPT !.todo = td, !.add = db.add \cup {<<0, f>>}]
         /\ disk' = [disk EXCEPT !.tab = tb]
  BY DEF ReplayTable
<1>5. f.num = n
  BY DEF FileMeta
<1>6. DOMAIN tb = DOMAIN disk.tab \cup {n}
  BY DEF With
<1>7. /\ MarkFileNumberUsed(n, item.mark) \in Nat /\ n <= MarkFileNumberUsed(n, item.mark)
      /\ MarkFileNumberUsed(n + 1, item.mark) \in Nat /\ n <= MarkFileNumberUsed(n + 1, item.mark)
  BY <1>1, <1>3 DEF MarkFileNumberUsed
<1> HIDE DEF item, f, tb, td
<1>8. /\ vs'.man = vs.man /\ vs'.ver = vs.ver /\ vs'.next \in Nat /\ n <= vs'.next
      /\ disk'.cur = disk.cur /\ disk'.man = disk.man /\ disk'.log = disk.log
      /\ db'.phase = "recovering"
      /\ \/ db'.add = db.add /\ DOMAIN disk'.tab = DOMAIN disk.tab
         \/ db'.add = db.add \cup {<<0, f>>} /\ DOMAIN disk'.tab = DOMAIN disk.tab \cup {n}
  <2>1. CASE /\ vs' = [vs EXCEPT !.next = MarkFileNumberUsed(n, item.mark)]
             /\ db' = [db EXCEPT !.todo = td]
             /\ disk' = disk
    <3>1. db'.phase = "recovering" /\ db'.add = db.add
      BY <1>1, <1>2, <2>1 DEF DBType
    <3>2. QED BY <1>1, <1>7, <2>1, <3>1, VSChange
  <2>2. CASE /\ vs' = [vs EXCEPT !.next = MarkFileNumberUsed(n + 1, item.mark)]
             /\ db' = [db EXCEPT !.todo = td, !.add = db.add \cup {<<0, f>>}]
             /\ disk' = [disk EXCEPT !.tab = tb]
    <3>1. db'.phase = "recovering" /\ db'.add = db.add \cup {<<0, f>>}
      BY <1>1, <1>2, <2>2 DEF DBType
    <3>2. vs'.man = vs.man /\ vs'.ver = vs.ver /\ vs'.next \in Nat /\ n <= vs'.next
      BY <1>1, <1>7, <2>2, VSChange
    <3>3. disk'.cur = disk.cur /\ disk'.man = disk.man /\ disk'.log = disk.log /\ disk'.tab = tb
      BY <1>1, <2>2, DiskChange
    <3>4. QED BY <1>6, <3>1, <3>2, <3>3
  <2>3. QED BY <1>4, <2>1, <2>2
<1>9. disk.cur # 0 /\ disk.cur < vs.man /\ vs.man < vs.next /\ FilesIn(vs.ver, DOMAIN disk.tab) /\ AddsIn(db.add, DOMAIN disk.tab)
  BY <1>2 DEF Safe, ManifestSafe, OpeningSafe
<1> DEFINE T == DOMAIN disk.tab
           U == DOMAIN disk'.tab
<1>10. T \subseteq U
  BY <1>8
<1>11. disk.cur \in DOMAIN disk.man /\ Durable(disk.man[disk.cur], disk.cur, T)
  BY <1>9 DEF Safe, ManifestSafe
<1>12. AddsIn(db'.add, U)
  <2>1. \A a \in db.add : a[2].num \in U
    BY <1>9, <1>10 DEF AddsIn
  <2>2. <<0, f>>[2].num = n
    BY <1>5
  <2>3. QED BY <1>8, <2>1, <2>2 DEF AddsIn
<1>13. FilesIn(vs.ver, T)
  BY <1>9
<1> HIDE DEF T, U
<1>14. FilesIn(vs.ver, U) /\ Durable(disk.man[disk.cur], disk.cur, U)
  BY <1>10, <1>11, <1>13, MoreTables
<1>15. ManifestSafe'
  BY <1>8, <1>9, <1>11, <1>14 DEF ManifestSafe, U
<1>16. Founded'
  BY <1>2, <1>8 DEF Safe, Founded
<1>17. OpeningSafe'
  <2>1. vs'.man < vs'.next
    BY <1>1, <1>8, <1>9
  <2>2. QED BY <1>8, <1>9, <1>12, <1>14, <2>1 DEF OpeningSafe, U
<1>18. NewManifest' /\ bg'.comp = {} /\ db'.phase # "open"
  BY <1>2, <1>8 DEF NewManifest, Inv, Quiet
<1>19. QED BY <1>15, <1>16, <1>17, <1>18, NotOpenSafe

\* The new manifest, beside the one CURRENT names.
LEMMA StartManifestSafe ==
  ASSUME Inv, Safe, StartManifest
  PROVE  Safe'
<1> DEFINE n == vs.next
           v == [vs EXCEPT !.next = n + 1]
           e == Filled(v, n, {}, {}, db.add)
           lg == With(disk.log, n, NewFile(<<>>))
           recs == <<SnapshotEdit(vs.ver, vs.ptr), e>>
           mn == With(disk.man, vs.man, NewFile(recs))
<1>1. /\ vs \in VSType /\ db \in DBType /\ IsDisk(disk) /\ n \in Nat /\ n + 1 \in Nat /\ vs.man \in Nat /\ bg \in BGType
      /\ db.add \in Adds /\ disk.cur \in Nat
  BY DEF Inv, Typed, VSType, DBType, IsDisk
<1>2. v \in VSType /\ v.next = n + 1 /\ v.man = vs.man /\ v.ver = vs.ver /\ v.ptr = vs.ptr
  BY <1>1, VSChange
<1>3. e.next = n + 1 /\ e.add = db.add /\ e.del = {}
  <2> HIDE DEF v
  <2> QED BY <1>1, <1>2, FilledType
<1>4. /\ vs' = v /\ disk' = [disk EXCEPT !.log = lg, !.man = mn]
      /\ db' = [db EXCEPT !.phase = "manifest", !.mem = n]
      /\ bg' = [bg EXCEPT !.edit = e] /\ hist' = hist /\ db.phase = "recovering"
  BY DEF StartManifest
<1>5. /\ \A m \in DOMAIN lg : lg[m] = NewFile(<<>>) \/ (m \in DOMAIN disk.log /\ lg[m] = disk.log[m])
  BY DEF With
<1>6. /\ DOMAIN mn = DOMAIN disk.man \cup {vs.man} /\ mn[vs.man] = NewFile(recs)
      /\ \A m \in DOMAIN disk.man : m # vs.man => mn[m] = disk.man[m]
  BY DEF With
<1> HIDE DEF v, e, lg, mn, recs
<1>7. disk'.log = lg /\ disk'.man = mn /\ disk'.tab = disk.tab /\ disk'.cur = disk.cur
  BY <1>1, <1>4 DEF IsDisk
<1>8. db'.phase = "manifest" /\ db'.add = db.add
  BY <1>1, <1>4 DEF DBType
<1>9. bg'.edit = e /\ bg'.comp = bg.comp
  BY <1>1, <1>4 DEF BGType
<1>10. /\ disk.cur # 0 /\ disk.cur < vs.man /\ vs.man < vs.next
       /\ FilesIn(vs.ver, DOMAIN disk.tab) /\ AddsIn(db.add, DOMAIN disk.tab)
  BY <1>4 DEF Safe, ManifestSafe, OpeningSafe
<1>11. disk.cur \in DOMAIN disk.man /\ Durable(disk.man[disk.cur], disk.cur, DOMAIN disk.tab)
  BY <1>10 DEF Safe, ManifestSafe
<1>12. mn[disk.cur] = disk.man[disk.cur] /\ disk.cur \in DOMAIN mn
  BY <1>1, <1>6, <1>10, <1>11
<1>13. ManifestSafe'
  BY <1>7, <1>10, <1>11, <1>12 DEF ManifestSafe
<1>14. Founded'
  <2>1. CASE disk.cur # 0 /\ disk.man[disk.cur].sync > 0
    BY <1>7, <1>12, <2>1 DEF Founded
  <2>2. CASE hist = {} /\ \A m \in DOMAIN disk.log : disk.log[m].recs = <<>>
    <3>1. NewFile(<<>>).recs = <<>>
      BY DEF NewFile
    <3>2. \A m \in DOMAIN lg : lg[m].recs = <<>>
      BY <1>5, <2>2, <3>1
    <3>3. QED BY <1>4, <1>7, <1>8, <2>2, <3>2 DEF Founded
  <2>3. QED BY <2>1, <2>2 DEF Safe, Founded
<1>15. OpeningSafe'
  <2>1. vs'.man < vs'.next
    BY <1>1, <1>2, <1>4, <1>10
  <2>2. QED BY <1>2, <1>4, <1>7, <1>8, <1>10, <2>1 DEF OpeningSafe
<1>16. NewManifest'
  <2>1. NewFile(recs).recs = recs
    BY DEF NewFile
  <2>2. recs = <<SnapshotEdit(vs'.ver, vs'.ptr), bg'.edit>>
    BY <1>2, <1>4, <1>9 DEF recs
  <2>3. SnapshotEdit(vs.ver, vs.ptr)' = SnapshotEdit(vs'.ver, vs'.ptr)
    BY DEF SnapshotEdit
  <2>4. Legible(NewFile(recs))
    BY DEF Legible, NewFile
  <2>5. QED BY <1>2, <1>3, <1>4, <1>6, <1>7, <1>8, <1>9, <2>1, <2>2, <2>3, <2>4 DEF NewManifest
<1>17. bg'.comp = {} /\ db'.phase # "open"
  BY <1>4, <1>8, <1>9 DEF Inv, Quiet
<1>18. QED BY <1>13, <1>14, <1>15, <1>16, <1>17, NotOpenSafe

\* A snapshot lists the version it was taken of.
LEMMA SnapshotListed ==
  ASSUME NEW v \in VersionType, NEW ptr \in [Levels -> IKeyType]
  PROVE  Within(Listed(<<SnapshotEdit(v, ptr)>>), v)
<1> DEFINE e == SnapshotEdit(v, ptr)
<1>1. e \in EditType
  BY SnapshotType
<1>2. e.add = UNION {{<<l, f>> : f \in v[l]} : l \in Levels}
  BY DEF SnapshotEdit, Edit
<1> HIDE DEF e
<1>3. <<>> \in Seq(EditType) /\ Append(<<>>, e) = <<e>>
  OBVIOUS
<1>4. Within(Listed(<<>>), EmptyVersion)
  BY ListedEmpty
<1>5. Within(Listed(<<e>>), ApplyEdit(EmptyVersion, e))
  BY <1>1, <1>3, <1>4, ListedAppend
<1>6. ASSUME NEW l \in Levels, NEW f \in ApplyEdit(EmptyVersion, e)[l] PROVE f \in v[l]
  <2>1. EmptyVersion[l] = {}
    BY DEF EmptyVersion
  <2>2. PICK a \in e.add : a[1] = l /\ f = a[2]
    BY <2>1 DEF ApplyEdit
  <2>3. PICK m \in Levels : \E g \in v[m] : a = <<m, g>>
    BY <1>2
  <2>4. QED BY <2>2, <2>3
<1>7. Within(Listed(<<e>>), v)
  BY <1>5, <1>6 DEF Within
<1>8. QED BY <1>7 DEF e

\* An error while opening leaves the manifest CURRENT names alone.
LEMMA OpenErrorSafe ==
  ASSUME Inv, Safe, OpenError
  PROVE  Safe'
<1> DEFINE mn == Restrict(disk.man, DOMAIN disk.man \ {vs.man})
<1>1. IsDisk(disk) /\ disk.cur \in Nat /\ vs.man \in Nat
  BY DEF Inv, Typed, IsDisk, VSType
<1>2. /\ disk' = [disk EXCEPT !.man = mn] /\ db' = ClosedDB /\ bg' = IdleBG /\ hist' = hist
      /\ db.phase \in {"recovering", "manifest"}
  BY DEF OpenError
<1>3. disk.cur # 0 /\ disk.cur < vs.man
  BY <1>2 DEF Safe, ManifestSafe, OpeningSafe
<1>4. disk.cur \in DOMAIN disk.man /\ Durable(disk.man[disk.cur], disk.cur, DOMAIN disk.tab)
  BY <1>3 DEF Safe, ManifestSafe
<1>5. disk.cur \in DOMAIN disk.man \ {vs.man}
  BY <1>1, <1>3, <1>4
<1>6. disk.cur \in DOMAIN mn /\ mn[disk.cur] = disk.man[disk.cur]
  <2>1. DOMAIN disk.man \ {vs.man} \in SUBSET DOMAIN disk.man
    OBVIOUS
  <2>2. QED BY <1>5, <2>1, RestrictTo
<1> HIDE DEF mn
<1>7. disk'.man = mn /\ disk'.cur = disk.cur /\ disk'.tab = disk.tab /\ disk'.log = disk.log
  BY <1>1, <1>2, DiskChange
<1>8. db'.phase = "closed" /\ bg'.comp = {}
  BY <1>2 DEF ClosedDB, IdleBG
<1>9. ManifestSafe'
  BY <1>4, <1>6, <1>7, <1>8 DEF ManifestSafe
<1>10. Founded'
  BY <1>2, <1>6, <1>7, <1>8 DEF Safe, Founded
<1>11. OpeningSafe' /\ NewManifest'
  BY <1>8 DEF OpeningSafe, NewManifest
<1>12. QED BY <1>8, <1>9, <1>10, <1>11, NotOpenSafe

\* Files in use are not deleted.
LEMMA LiveKept ==
  ASSUME NEW v, NEW tables, FilesIn(v, tables), NEW pending, NEW versions, v \in versions
  PROVE  FilesIn(v, tables \cap LiveFiles(pending, versions))
<1>1. SUFFICES ASSUME NEW l \in Levels, NEW f \in v[l] PROVE f.num \in tables \cap LiveFiles(pending, versions)
  BY DEF FilesIn
<1>2. f \in VersionFiles(v)
  BY DEF VersionFiles
<1>3. f \in UNION {VersionFiles(w) : w \in versions}
  BY <1>2
<1>4. QED BY <1>3 DEF LiveFiles, FilesIn

\* What makes a sequence another one with an element appended.
LEMMA AppendTo ==
  ASSUME NEW S, NEW s \in Seq(S), NEW e \in S, NEW k \in Nat, Len(s) = k,
         NEW t \in Seq(S), Len(t) = k + 1, t[k + 1] = e, \A i \in 1 .. k : t[i] = s[i]
  PROVE  Append(s, e) = t
<1>1. /\ Append(s, e) \in Seq(S) /\ Len(Append(s, e)) = Len(s) + 1
      /\ \A i \in 1 .. Len(s) : Append(s, e)[i] = s[i]
      /\ Append(s, e)[Len(s) + 1] = e
  BY AppendProperties
<1>2. /\ Len(Append(s, e)) = k + 1 /\ Append(s, e)[k + 1] = e
      /\ \A i \in 1 .. k : Append(s, e)[i] = s[i]
  BY <1>1
<1>3. \A i \in 1 .. k + 1 : Append(s, e)[i] = t[i]
  BY <1>2
<1>4. QED BY <1>1, <1>2, <1>3, SeqEqual

\* A sequence of two.
LEMMA TwoElements ==
  ASSUME NEW S, NEW a \in S, NEW b \in S
  PROVE  <<a>> \in Seq(S) /\ Append(<<a>>, b) = <<a, b>> /\ Len(<<a, b>>) = 2
<1>1. <<a>> \in Seq(S)
  OBVIOUS
<1>2. <<a, b>> \in Seq(S)
  OBVIOUS
<1>3. Len(<<a>>) = 1 /\ Len(<<a, b>>) = 1 + 1 /\ <<a, b>>[1 + 1] = b /\ \A i \in 1 .. 1 : <<a, b>>[i] = <<a>>[i]
  OBVIOUS
<1>4. Append(<<a>>, b) = <<a, b>>
  BY <1>1, <1>2, <1>3, AppendTo
<1>5. QED BY <1>1, <1>3, <1>4

\* The new manifest is synced and CURRENT names it; old files go.
LEMMA FinishOpenSafe ==
  ASSUME Inv, Safe, FinishOpen
  PROVE  Safe'
<1> DEFINE e == bg.edit
           v == Installed(vs, e)
           snap == SnapshotEdit(vs.ver, vs.ptr)
           f == disk.man[vs.man]
           mn == [disk.man EXCEPT ![vs.man] = Synced(f)]
           d == [disk EXCEPT !.man = mn, !.cur = vs.man]
           o == [db EXCEPT !.phase = "open", !.add = {}]
           live == LiveFiles({}, {v.ver})
           T == DOMAIN disk.tab
           U == T \cap live
<1>1. /\ vs \in VSType /\ db \in DBType /\ IsDisk(disk) /\ vs.man \in Nat /\ e \in FilledEdit /\ disk.cur \in Nat
      /\ vs.ver \in VersionType /\ vs.ptr \in [Levels -> IKeyType] /\ db.add \in Adds /\ vs.next \in Nat
  BY DEF Inv, Typed, VSType, BGType, IsDisk, DBType
<1>2. /\ db.phase = "manifest" /\ vs' = v /\ disk' = DeleteObsolete(d, v, FALSE, live)
      /\ db' = MaybeSchedule(o, v) /\ bg' = IdleBG
  BY DEF FinishOpen
<1>3. v.next = vs.next /\ v.man = vs.man /\ v.ver = ApplyEdit(vs.ver, e)
  BY <1>1, InstalledType
<1>4. /\ disk.cur < vs.man /\ vs.man < vs.next /\ FilesIn(vs.ver, T) /\ AddsIn(db.add, T)
      /\ vs.man \in DOMAIN disk.man /\ f.recs = <<snap, e>> /\ Legible(f)
      /\ e.next = vs.next /\ e.add = db.add /\ e.del = {}
  BY <1>2 DEF Safe, OpeningSafe, NewManifest
<1>5. f \in FileOf(EditType) /\ f.recs \in Seq(EditType) /\ f.sync \in Nat /\ Len(f.recs) \in Nat
  BY <1>1, <1>4, LenProperties DEF IsDisk, IsDir, FileOf
<1>6. snap \in EditType /\ e \in EditType
  BY <1>1, SnapshotType, FilledIsEdit
<1>7. Within(Listed(<<snap>>), vs.ver)
  BY <1>1, SnapshotListed
<1> HIDE DEF v, snap, e, f, T
<1>8. <<snap>> \in Seq(EditType) /\ Append(<<snap>>, e) = <<snap, e>> /\ Len(<<snap, e>>) = 2
  BY <1>6, TwoElements
<1>9. Within(Listed(f.recs), v.ver)
  BY <1>3, <1>4, <1>6, <1>7, <1>8, ListedAppend
<1>10. FilesIn(v.ver, U)
  <2>1. FilesIn(v.ver, T)
    BY <1>3, <1>4, ApplyIn
  <2>2. QED BY <2>1, LiveKept
<1> HIDE DEF live
<1>11. Within(vs.ver, v.ver)
  BY <1>3, <1>4 DEF Within, ApplyEdit
<1>12. AddsIn(e.add, U)
  <2>1. SUFFICES ASSUME NEW a \in e.add PROVE a[2].num \in U
    BY DEF AddsIn
  <2>2. a \in Levels \X FileType
    BY <1>1, <1>4 DEF Adds
  <2>3. a[1] \in Levels
    BY <2>2
  <2>4. a[2] \in v.ver[a[1]]
    BY <1>3, <2>3 DEF ApplyEdit
  <2>5. QED BY <1>10, <2>3, <2>4 DEF FilesIn
<1> HIDE DEF U
<1>13. Complete(f.recs, vs.man, U)
  <2>1. FilesIn(vs.ver, U)
    BY <1>10, <1>11, WithinIn
  <2>2. FilesIn(Listed(<<snap>>), U)
    BY <1>7, <2>1, WithinIn
  <2>3. vs.man < e.next
    BY <1>4
  <2>4. QED BY <1>1, <1>4, <1>8, <1>12, <2>2, <2>3, CompleteAppend DEF e
<1>14. /\ Synced(f) \in FileOf(EditType) /\ Synced(f).recs = f.recs /\ Synced(f).sync = Len(f.recs)
       /\ Len(f.recs) = 2 /\ Legible(Synced(f))
  <2>1. /\ Synced(f).recs = f.recs /\ Synced(f).torn = f.torn /\ Synced(f).bad = f.bad
        /\ Synced(f).sync = IF f.bad = {} THEN Len(f.recs) ELSE f.sync
    BY <1>5, FileParts
  <2>2. f.bad = {} /\ ~f.torn
    BY <1>4 DEF Legible
  <2>3. Legible(Synced(f))
    BY <2>1, <2>2 DEF Legible
  <2>4. QED BY <1>4, <1>5, <1>8, <2>1, <2>2, <2>3, FileFacts
<1>15. FilesIn(Listed(f.recs), U)
  BY <1>9, <1>10, WithinIn
<1>16. Durable(Synced(f), vs.man, U)
  BY <1>13, <1>14, <1>15, DurableFewer
<1>17. vs.man \in DOMAIN mn /\ mn[vs.man] = Synced(f) /\ IsDir(mn, EditType)
  <2>1. IsDir(disk.man, EditType)
    BY <1>1 DEF IsDisk
  <2>2. QED BY <1>4, <1>14, <2>1, DirUpdate
<1> HIDE DEF mn
<1>18. IsDisk(d) /\ d.man = mn /\ d.tab = disk.tab /\ d.log = disk.log /\ d.cur = vs.man
  <2>1. disk \in [log : {disk.log}, tab : {disk.tab}, man : {disk.man}, cur : Nat]
    BY <1>1 DEF IsDisk
  <2>2. /\ d \in [log : {disk.log}, tab : {disk.tab}, man : {mn}, cur : Nat]
        /\ d.log = disk.log /\ d.tab = disk.tab /\ d.man = mn /\ d.cur = vs.man
    BY <1>1, <2>1
  <2>3. QED BY <1>1, <1>17, <2>2 DEF IsDisk
<1> HIDE DEF d
<1>19. /\ disk'.cur = vs.man /\ disk'.man = Restrict(mn, {n \in DOMAIN mn : n >= v.man})
       /\ disk'.tab = Restrict(disk.tab, DOMAIN disk.tab \cap live)
  <2>1. disk' = [d EXCEPT !.log = Restrict(d.log, {n \in DOMAIN d.log : n >= v.log}),
                         !.man = Restrict(d.man, {n \in DOMAIN d.man : n >= v.man}),
                         !.tab = Restrict(d.tab, DOMAIN d.tab \cap live)]
    BY <1>2 DEF DeleteObsolete
  <2>2. QED BY <1>18, <2>1 DEF IsDisk
<1>20. DOMAIN disk'.tab = U
  <2>1. DOMAIN disk.tab \cap live \in SUBSET DOMAIN disk.tab
    OBVIOUS
  <2>2. QED BY <1>19, <2>1, RestrictTo DEF U, T
<1>21. vs.man \in DOMAIN disk'.man /\ disk'.man[vs.man] = Synced(f)
  <2> DEFINE S == {n \in DOMAIN mn : n >= v.man}
  <2>1. vs.man \in S /\ S \in SUBSET DOMAIN mn
    BY <1>1, <1>3, <1>17
  <2> HIDE DEF S
  <2>2. disk'.man = Restrict(mn, S)
    BY <1>19 DEF S
  <2>3. QED BY <1>17, <2>1, <2>2, RestrictTo
<1>22. o \in DBType /\ o.phase = "open"
  BY <1>1, FS_EmptySet DEF DBType, Adds
<1> HIDE DEF o
<1>23. db'.phase = "open"
  BY <1>2, <1>22, ScheduleFacts
<1>24. bg'.pc = "idle" /\ bg'.comp = {}
  BY <1>2 DEF IdleBG
<1>25. vs'.man = vs.man /\ vs'.ver = v.ver /\ vs'.next = vs.next
  BY <1>2, <1>3
<1>26. ManifestSafe'
  <2>1. disk'.cur # 0
    BY <1>1, <1>4, <1>19
  <2>2. disk'.cur \in DOMAIN disk'.man /\ Durable(disk'.man[disk'.cur], disk'.cur, DOMAIN disk'.tab)
    BY <1>16, <1>19, <1>20, <1>21
  <2>3. QED BY <2>1, <2>2 DEF ManifestSafe
<1>27. Founded'
  <2>1. disk'.cur # 0
    BY <1>1, <1>4, <1>19
  <2>2. disk'.man[disk'.cur].sync > 0
    BY <1>14, <1>19, <1>21
  <2>3. QED BY <2>1, <2>2 DEF Founded
<1>28. OpeningSafe' /\ NewManifest' /\ OutputsSafe'
  BY <1>23, <1>24 DEF OpeningSafe, NewManifest, OutputsSafe
<1>29. OpenSafe'
  BY <1>4, <1>10, <1>19, <1>20, <1>24, <1>25 DEF OpenSafe
<1>30. InStep'
  <2>1. Coming' = v.ver
    BY <1>24, <1>25 DEF Coming
  <2>2. disk'.man[vs'.man].recs = f.recs /\ Legible(disk'.man[vs'.man])
    BY <1>14, <1>21, <1>25
  <2>3. QED BY <1>9, <2>1, <2>2 DEF InStep
<1>31. QED BY <1>26, <1>27, <1>28, <1>29, <1>30 DEF Safe

\* The process is gone: what is on the disk can be opened.
LEMMA StoppedSafe ==
  ASSUME Inv, Safe, NEW d, IsDisk(d), d.cur = disk.cur, DOMAIN d.tab = DOMAIN disk.tab,
         d.cur \in DOMAIN disk.man =>
           /\ d.cur \in DOMAIN d.man
           /\ Durable(disk.man[d.cur], d.cur, DOMAIN disk.tab) => Durable(d.man[d.cur], d.cur, DOMAIN disk.tab)
           /\ disk.man[d.cur].sync > 0 => d.man[d.cur].sync > 0,
         \A n \in DOMAIN d.log : n \in DOMAIN disk.log /\ (disk.log[n].recs = <<>> => d.log[n].recs = <<>>),
         Stopped(d)
  PROVE  Safe'
<1>1. /\ disk' = d /\ db' = ClosedDB /\ bg' = IdleBG
      /\ hist' = (hist \ Logged([d EXCEPT !.log = disk.log])) \cup Replayed(d)
  BY DEF Stopped
<1>2. db'.phase = "closed" /\ bg'.comp = {}
  BY <1>1 DEF ClosedDB, IdleBG
<1>3. ManifestSafe'
  BY <1>1, <1>2 DEF Safe, ManifestSafe
<1>4. OpeningSafe' /\ NewManifest'
  BY <1>2 DEF OpeningSafe, NewManifest
<1>5. Founded'
  <2>1. CASE disk.cur # 0 /\ disk.man[disk.cur].sync > 0
    <3>1. disk.cur \in DOMAIN disk.man
      BY <2>1 DEF Safe, ManifestSafe
    <3>2. d.man[d.cur].sync > 0
      BY <2>1, <3>1
    <3>3. QED BY <1>1, <2>1, <3>2 DEF Founded
  <2>2. CASE hist = {} /\ \A n \in DOMAIN disk.log : disk.log[n].recs = <<>>
    <3>1. \A n \in DOMAIN d.log : d.log[n].recs = <<>>
      BY <2>2
    <3>2. \A n \in DOMAIN d.log : Readable(d.log[n]) = {}
      BY <3>1 DEF Readable
    <3>3. LogsToReplay(d, CurrentState(d)) \subseteq DOMAIN d.log
      BY DEF LogsToReplay
    <3>4. Replayed(d) = {}
      BY <3>2, <3>3 DEF Replayed
    <3>5. hist' = {}
      BY <1>1, <2>2, <3>4
    <3>6. QED BY <1>1, <1>2, <3>1, <3>5 DEF Founded
  <2>3. QED BY <2>1, <2>2 DEF Safe, Founded
<1>6. QED BY <1>2, <1>3, <1>4, <1>5, NotOpenSafe

\* The end of the destructor, the crash of a cancelled manual compaction and a
\* crash of the process or the machine.
LEMMA FinishCloseSafe ==
  ASSUME Inv, Safe, FinishClose \/ CancelledManualCrashes \/ Crash
  PROVE  Safe'
<1>1. IsDisk(disk) /\ disk.cur \in Nat /\ IsDir(disk.log, Groups) /\ IsDir(disk.man, EditType) /\ IsDir(disk.tab, Groups)
  BY DEF Inv, Typed, IsDisk
<1>2. CASE FinishClose \/ CancelledManualCrashes
  <2>1. Stopped(disk)
    BY <1>2 DEF FinishClose, CancelledManualCrashes
  <2>2. PICK d : d = disk
    OBVIOUS
  <2>3. Stopped(d) /\ IsDisk(d)
    BY <1>1, <2>1, <2>2
  <2>4. QED BY <2>2, <2>3, StoppedSafe
<1>3. CASE Crash
  <2>1. PICK lg \in SurvivingFiles(disk.log), mn \in SurvivingFiles(disk.man), tb \in SurvivingFiles(disk.tab) :
          Stopped([log |-> lg, man |-> mn, tab |-> tb, cur |-> disk.cur])
    BY <1>3 DEF Crash
  <2> DEFINE d == [log |-> lg, man |-> mn, tab |-> tb, cur |-> disk.cur]
  <2>2. /\ IsDir(lg, Groups) /\ DOMAIN lg = DOMAIN disk.log
        /\ \A n \in DOMAIN disk.log : lg[n] = disk.log[n] \/ \E m \in CutPoints(disk.log[n]) : lg[n] = CutAt(disk.log[n], m)
    BY <1>1, SurvivingFacts
  <2>3. /\ IsDir(mn, EditType) /\ DOMAIN mn = DOMAIN disk.man
        /\ \A n \in DOMAIN disk.man : mn[n] = disk.man[n] \/ \E m \in CutPoints(disk.man[n]) : mn[n] = CutAt(disk.man[n], m)
    BY <1>1, SurvivingFacts
  <2>4. IsDir(tb, Groups) /\ DOMAIN tb = DOMAIN disk.tab
    BY <1>1, SurvivingFacts
  <2>5. IsDisk(d) /\ d.cur = disk.cur /\ d.log = lg /\ d.man = mn /\ d.tab = tb /\ Stopped(d)
    BY <1>1, <2>1, <2>2, <2>3, <2>4 DEF IsDisk
  <2> HIDE DEF d
  <2>6. ASSUME NEW c \in DOMAIN disk.man
        PROVE  /\ Durable(disk.man[c], c, DOMAIN disk.tab) => Durable(mn[c], c, DOMAIN disk.tab)
               /\ disk.man[c].sync > 0 => mn[c].sync > 0
    <3>1. disk.man[c] \in FileOf(EditType)
      BY <1>1 DEF IsDir
    <3>2. CASE mn[c] = disk.man[c]
      BY <3>2
    <3>3. ASSUME NEW m \in CutPoints(disk.man[c]), mn[c] = CutAt(disk.man[c], m)
          PROVE  /\ Durable(disk.man[c], c, DOMAIN disk.tab) => Durable(mn[c], c, DOMAIN disk.tab)
                 /\ disk.man[c].sync > 0 => mn[c].sync > 0
      <4>1. mn[c].sync = m /\ disk.man[c].sync <= m
        BY <3>1, <3>3, CutFacts
      <4>2. disk.man[c].sync \in Nat /\ m \in Nat
        BY <3>1, LenProperties DEF FileOf, CutPoints
      <4>3. disk.man[c].sync > 0 => mn[c].sync > 0
        BY <4>1, <4>2
      <4>4. Durable(disk.man[c], c, DOMAIN disk.tab) => Durable(mn[c], c, DOMAIN disk.tab)
        BY <3>1, <3>3, DurableStays
      <4>5. QED BY <4>3, <4>4
    <3>4. QED BY <2>3, <3>2, <3>3
  <2>7. ASSUME NEW n \in DOMAIN disk.log, disk.log[n].recs = <<>> PROVE lg[n].recs = <<>>
    <3>1. disk.log[n] \in FileOf(Groups)
      BY <1>1 DEF IsDir
    <3>2. ASSUME NEW m \in CutPoints(disk.log[n]), lg[n] = CutAt(disk.log[n], m) PROVE lg[n].recs = <<>>
      <4>1. lg[n] \in FileOf(Groups) /\ Len(lg[n].recs) = m /\ m <= Len(disk.log[n].recs)
        BY <3>1, <3>2, CutFacts
      <4>2. m \in Nat /\ Len(disk.log[n].recs) = 0
        BY <2>7, <3>1, LenProperties DEF FileOf, CutPoints
      <4>3. lg[n].recs \in Seq(Groups) /\ Len(lg[n].recs) = 0
        BY <4>1, <4>2 DEF FileOf
      <4>4. QED BY <4>3, EmptySeq
    <3>3. QED BY <2>2, <2>7, <3>2
  <2>8. QED BY <2>2, <2>3, <2>4, <2>5, <2>6, <2>7, StoppedSafe
<1>4. QED BY <1>2, <1>3

-----------------------------------------------------------------------------
(* The background thread.                                                    *)

\* What a step of the background thread has to keep.
LEMMA OpenStep ==
  ASSUME db.phase = "open", db'.phase = "open", disk.cur # 0,
         disk'.cur = disk.cur, disk.cur = vs.man, vs'.man = vs.man, vs'.man < vs'.next,
         vs.man \in DOMAIN disk'.man, disk'.man[vs.man].sync > 0,
         Durable(disk'.man[vs.man], vs.man, DOMAIN disk'.tab), FilesIn(vs'.ver, DOMAIN disk'.tab),
         bg'.pc = "install" => /\ AddsIn(bg'.edit.add, DOMAIN disk'.tab)
                               /\ disk'.man[vs.man].sync < Len(disk'.man[vs.man].recs),
         db'.err = TRUE \/ (Within(Listed(disk'.man[vs.man].recs), Coming') /\ Legible(disk'.man[vs.man])),
         OutputsSafe'
  PROVE  Safe'
<1>1. ManifestSafe' /\ Founded'
  BY DEF ManifestSafe, Founded
<1>2. OpeningSafe' /\ NewManifest'
  BY DEF OpeningSafe, NewManifest
<1>3. OpenSafe'
  BY DEF OpenSafe
<1>4. InStep'
  BY DEF InStep
<1>5. QED BY <1>1, <1>2, <1>3, <1>4 DEF Safe

\* LogAndApply writes an edit whose tables are there.
LEMMA EditWritten ==
  ASSUME Inv, Safe, db.phase = "open", bg.pc # "install", NEW e \in FilledEdit, e.next = vs.next,
         NEW g \in Appends(disk.man[vs.man], e), NEW mn, mn = [disk.man EXCEPT ![vs.man] = g],
         disk'.man = mn, disk'.cur = disk.cur,
         DOMAIN disk.tab \subseteq DOMAIN disk'.tab, AddsIn(e.add, DOMAIN disk'.tab),
         vs'.man = vs.man, vs'.ver = vs.ver, vs'.next = vs.next,
         db'.phase = "open", db'.err = db.err, bg'.pc = "install", bg'.edit = e, OutputsSafe'
  PROVE  Safe'
<1> DEFINE f == disk.man[vs.man]
           T == DOMAIN disk.tab
           U == DOMAIN disk'.tab
<1>1. /\ disk.cur = vs.man /\ vs.man \in DOMAIN disk.man /\ disk.cur # 0 /\ f \in FileOf(EditType) /\ f.sync > 0
      /\ Durable(f, vs.man, T) /\ vs.man < vs.next
  BY OpenManifest
<1>2. FilesIn(vs.ver, T) /\ T \subseteq U /\ AddsIn(e.add, U)
  BY DEF Safe, OpenSafe
<1>3. f.recs \in Seq(EditType) /\ e \in EditType
  BY <1>1, FilledIsEdit, FileParts
<1>4. mn[vs.man] = g /\ vs.man \in DOMAIN mn
  BY <1>1
<1> HIDE DEF f, T, U
<1>5. Durable(f, vs.man, U) /\ FilesIn(vs.ver, U)
  BY <1>1, <1>2, MoreTables
<1>6. /\ Durable(g, vs.man, U) /\ g.sync = f.sync /\ g.recs = Append(f.recs, e) /\ g.sync < Len(g.recs)
      /\ Legible(f) => Legible(g)
  <2>1. vs.man < e.next
    BY <1>1
  <2>2. Grows(f, e, g)
    BY <1>1, <1>3, AppendsFacts DEF f
  <2>3. g.sync = f.sync /\ g.recs = Append(f.recs, e) /\ (Legible(f) => Legible(g))
    BY <2>2 DEF Grows, Legible
  <2>4. QED BY <1>1, <1>2, <1>5, <2>1, <2>2, <2>3, DurableAppend
<1>7. Coming' = ApplyEdit(vs.ver, e)
  BY DEF Coming, ApplyEdit
<1>8. db'.err = TRUE \/ (Within(Listed(g.recs), Coming') /\ Legible(g))
  <2>1. CASE db.err
    BY <2>1 DEF Inv, Typed, DBType
  <2>2. CASE ~db.err
    <3>1. Within(Listed(f.recs), vs.ver) /\ Legible(f)
      BY <2>2 DEF Safe, InStep, Coming, f
    <3>2. QED BY <1>3, <1>6, <1>7, <3>1, ListedAppend
  <2>3. QED BY <2>1, <2>2
<1>9. g.sync > 0
  BY <1>1, <1>6
<1>10. disk'.man[vs.man] = g /\ vs.man \in DOMAIN disk'.man
  BY <1>4
<1>11. FilesIn(vs'.ver, U) /\ vs'.man < vs'.next
  BY <1>1, <1>5
<1>12. QED BY <1>1, <1>2, <1>6, <1>8, <1>9, <1>10, <1>11, OpenStep DEF U

\* A job ends with an error; the manifest keeps its durable part.
LEMMA JobFails ==
  ASSUME Inv, Safe, db.phase = "open", vs' = vs, disk'.cur = disk.cur,
         DOMAIN disk.tab \subseteq DOMAIN disk'.tab,
         vs.man \in DOMAIN disk'.man, disk'.man[vs.man].sync = disk.man[vs.man].sync,
         Durable(disk'.man[vs.man], vs.man, DOMAIN disk.tab),
         db'.phase = "open", db'.err = TRUE, bg'.pc # "install", OutputsSafe'
  PROVE  Safe'
<1>1. /\ disk.cur = vs.man /\ disk.cur # 0 /\ disk.man[vs.man].sync > 0 /\ vs.man < vs.next
  BY OpenManifest
<1>2. FilesIn(vs.ver, DOMAIN disk.tab)
  BY DEF Safe, OpenSafe
<1>3. FilesIn(vs.ver, DOMAIN disk'.tab) /\ Durable(disk'.man[vs.man], vs.man, DOMAIN disk'.tab)
  BY <1>2, MoreTables
<1>4. FilesIn(vs'.ver, DOMAIN disk'.tab) /\ vs'.man < vs'.next /\ vs'.man = vs.man /\ disk'.man[vs.man].sync > 0
  BY <1>1, <1>3
<1>5. QED BY <1>1, <1>3, <1>4, OpenStep

\* GiveUp: the error is recorded, and either the outputs are given up too or
\* nothing that protects them changes.
LEMMA GivenUpOutputs ==
  ASSUME Inv, Safe, NEW d \in DBType, d.phase = "open", vs' = vs, DOMAIN disk.tab \subseteq DOMAIN disk'.tab,
         \/ /\ db' = RecordBackgroundError(d) /\ bg' = [bg EXCEPT !.pc = "merge", !.job = "none"]
            /\ \A w \in bg.comp : \A f \in w.outs : f.num \in d.pending
         \/ db' = EndCall(RecordBackgroundError(d), vs) /\ bg' = IdleBG
  PROVE  db'.phase = "open" /\ db'.err = TRUE /\ bg'.pc # "install" /\ OutputsSafe'
<1> DEFINE x == RecordBackgroundError(d)
<1>1. x \in DBType /\ x.err /\ x.phase = "open" /\ x.pending = d.pending
  BY ErrorFacts
<1>2. x.err = TRUE
  BY <1>1 DEF DBType
<1> HIDE DEF x
<1>3. CASE /\ db' = x /\ bg' = [bg EXCEPT !.pc = "merge", !.job = "none"]
           /\ \A w \in bg.comp : \A f \in w.outs : f.num \in d.pending
  <2>1. bg'.pc = "merge" /\ bg'.comp = bg.comp
    BY <1>3, BGChange DEF Inv, Typed
  <2>2. ASSUME NEW w \in bg.comp, NEW f \in w.outs
        PROVE  f.num \in DOMAIN disk'.tab /\ f.num \in db'.pending /\ f.num < vs'.next
    BY <1>1, <1>3, <2>2 DEF Safe, OutputsSafe
  <2>3. OutputsSafe'
    BY <2>1, <2>2 DEF OutputsSafe
  <2>4. QED BY <1>1, <1>2, <1>3, <2>1, <2>3
<1>4. CASE db' = EndCall(x, vs) /\ bg' = IdleBG
  <2>1. db'.phase = "open" /\ db'.err = TRUE
    BY <1>1, <1>2, <1>4, EndCallFacts
  <2>2. bg'.pc = "idle" /\ bg'.comp = {}
    BY <1>4 DEF IdleBG
  <2>3. OutputsSafe'
    BY <2>2 DEF OutputsSafe
  <2>4. QED BY <2>1, <2>2, <2>3
<1>5. QED BY <1>3, <1>4 DEF x

\* A flush takes its file number: a new one.
LEMMA StartFlushSafe ==
  ASSUME Inv, Safe, StartFlush
  PROVE  Safe'
<1> DEFINE n == vs.next
           pend == db.pending \cup {n}
<1>1. /\ vs' = [vs EXCEPT !.next = n + 1] /\ db' = [db EXCEPT !.pending = pend]
      /\ bg' = [bg EXCEPT !.pc = "build", !.num = n] /\ disk' = disk /\ bg.pc # "install"
  BY DEF StartFlush, CallBegins
<1>2. /\ db.phase = "open" /\ db \in DBType /\ vs \in VSType /\ bg \in BGType /\ n \in Nat /\ n + 1 \in Nat /\ n < n + 1
      /\ pend \in SUBSET Nat
  BY DEF StartFlush, CallBegins, Inv, Quiet, Typed, VSType, DBType
<1> HIDE DEF n, pend
<1>3. vs'.man = vs.man /\ vs'.ver = vs.ver /\ vs'.next = n + 1
  BY <1>1, <1>2, VSChange
<1>4. db'.phase = "open" /\ db'.pending = pend /\ db'.err = db.err
  BY <1>1, <1>2 DEF DBType
<1>5. bg'.pc = "build" /\ bg'.num = n /\ bg'.comp = bg.comp
  BY <1>1, <1>2, BGChange
<1>6. OutputsSafe'
  <2>1. ASSUME NEW w \in bg.comp, NEW f \in w.outs
        PROVE  f.num \in DOMAIN disk.tab /\ f.num \in pend /\ f.num < n + 1 /\ f.num # n
    <3>1. f.num \in DOMAIN disk.tab /\ f.num \in db.pending /\ f.num < n
      BY <2>1 DEF Safe, OutputsSafe, n
    <3>2. f.num \in Nat
      BY <1>2, <3>1 DEF DBType
    <3>3. QED BY <1>2, <3>1, <3>2 DEF pend
  <2>2. QED BY <1>1, <1>3, <1>4, <1>5, <2>1 DEF OutputsSafe
<1>7. /\ disk.cur = vs.man /\ vs.man \in DOMAIN disk.man /\ disk.cur # 0 /\ disk.man[vs.man].sync > 0
      /\ Durable(disk.man[vs.man], vs.man, DOMAIN disk.tab) /\ vs.man \in Nat /\ vs.man < n
  BY <1>2, OpenManifest DEF n
<1>8. FilesIn(vs.ver, DOMAIN disk.tab)
  BY <1>2 DEF Safe, OpenSafe
<1>9. vs'.man < vs'.next
  BY <1>2, <1>3, <1>7
<1>10. db'.err = TRUE \/ (Within(Listed(disk.man[vs.man].recs), Coming') /\ Legible(disk.man[vs.man]))
  <2>1. Coming' = vs.ver /\ Coming = vs.ver
    BY <1>1, <1>3, <1>5 DEF Coming
  <2>2. CASE db.err
    BY <1>2, <1>4, <2>2 DEF DBType
  <2>3. CASE ~db.err
    BY <1>2, <2>1, <2>3 DEF Safe, InStep
  <2>4. QED BY <2>2, <2>3
<1>11. FilesIn(vs'.ver, DOMAIN disk'.tab) /\ disk'.man = disk.man /\ disk'.cur = disk.cur /\ disk'.tab = disk.tab
  BY <1>1, <1>3, <1>8
<1>12. bg'.pc # "install"
  BY <1>5
<1>13. QED BY <1>2, <1>3, <1>4, <1>6, <1>7, <1>9, <1>10, <1>11, <1>12, OpenStep

\* A memtable is built into a table, or the flush is given up.
LEMMA FlushBuiltSafe ==
  ASSUME Inv, Safe, FlushBuilt
  PROVE  Safe'
<1> DEFINE es == mems[db.imm]
           d == [db EXCEPT !.pending = db.pending \ {bg.num}]
           f == FileMeta(bg.num, es)
           l == PickLevelForMemTableOutput(vs.ver, f.small.u, f.large.u)
           add == IF es = {} THEN {} ELSE {<<l, f>>}
           edit == Filled(vs, db.mem, {}, {}, add)
           tab == IF es = {} THEN disk.tab ELSE With(disk.tab, bg.num, Synced(NewFile(<<es>>)))
<1>1. bg.pc = "build" /\ vs' = vs
  BY DEF FlushBuilt
<1>2. \/ /\ \E m \in Appends(disk.man[vs.man], edit) : disk' = [disk EXCEPT !.tab = tab, !.man[vs.man] = m]
         /\ bg' = [bg EXCEPT !.pc = "install", !.job = "flush", !.edit = edit]
         /\ db' = d
      \/ disk' = [disk EXCEPT !.tab = tab] /\ GiveUp(d, vs)
      \/ disk' = disk /\ GiveUp(d, vs)
  BY DEF FlushBuilt
<1>3. /\ vs \in VSType /\ db \in DBType /\ bg \in BGType /\ IsDisk(disk) /\ bg.num \in Nat /\ db.mem \in Nat
      /\ db.phase = "open" /\ db.pending \in SUBSET Nat
  BY <1>1 DEF Inv, Typed, DBType, BGType, Quiet
<1>4. es \in EntrySets
  BY <1>1 DEF Inv, Typed, MemRefs, IsMems
<1>5. es # {} => f \in FileType /\ f.num = bg.num
  <2> HIDE DEF es
  <2> QED BY <1>3, <1>4, TableFacts DEF Groups
<1>6. add \in Adds /\ AddsIn(add, DOMAIN tab) /\ DOMAIN disk.tab \subseteq DOMAIN tab
  <2>1. CASE es = {}
    <3>1. add = {} /\ tab = disk.tab
      BY <2>1
    <3> HIDE DEF add, tab
    <3>2. QED BY <3>1, FS_EmptySet DEF Adds, AddsIn
  <2>2. CASE es # {}
    <3>1. l \in Levels /\ {} \in Adds
      BY PickLevelType, FS_EmptySet DEF Adds
    <3>2. add = {} \cup {<<l, f>>} /\ add = {<<l, f>>}
      BY <2>2
    <3>3. DOMAIN tab = DOMAIN disk.tab \cup {bg.num}
      BY <2>2 DEF With
    <3> HIDE DEF l, f, add, tab
    <3>4. add \in Adds
      BY <1>5, <2>2, <3>1, <3>2, AddsAdd
    <3>5. AddsIn(add, DOMAIN tab)
      BY <1>5, <2>2, <3>2, <3>3 DEF AddsIn
    <3>6. QED BY <3>3, <3>4, <3>5
  <2>3. QED BY <2>1, <2>2
<1> HIDE DEF add, tab
<1>7. edit \in FilledEdit /\ edit.next = vs.next /\ edit.add = add
  BY <1>3, <1>6, FilledType
<1> HIDE DEF edit, es, f, l
<1>8. d \in DBType /\ d.phase = "open" /\ d.err = db.err /\ d.pending = db.pending \ {bg.num}
  BY <1>3 DEF DBType
<1> HIDE DEF d
<1>9. \A w \in bg.comp : \A x \in w.outs : x.num \in DOMAIN disk.tab /\ x.num \in d.pending /\ x.num < vs.next
  BY <1>1, <1>8 DEF Safe, OutputsSafe
<1>10. CASE /\ \E m \in Appends(disk.man[vs.man], edit) : disk' = [disk EXCEPT !.tab = tab, !.man[vs.man] = m]
            /\ bg' = [bg EXCEPT !.pc = "install", !.job = "flush", !.edit = edit]
            /\ db' = d
  <2>1. bg'.pc = "install" /\ bg'.edit = edit /\ bg'.comp = bg.comp
    BY <1>3, <1>7, <1>10, BGChange
  <2>2. PICK g \in Appends(disk.man[vs.man], edit) : disk' = [disk EXCEPT !.tab = tab, !.man[vs.man] = g]
    BY <1>10
  <2>3. PICK m : m = [disk.man EXCEPT ![vs.man] = g]
    OBVIOUS
  <2>4. disk'.tab = tab /\ disk'.man = m /\ disk'.cur = disk.cur
    BY <1>3, <2>3, <2>2 DEF IsDisk
  <2>5. OutputsSafe'
    BY <1>1, <1>6, <1>9, <1>10, <2>1, <2>4 DEF OutputsSafe
  <2>6. /\ DOMAIN disk.tab \subseteq DOMAIN disk'.tab /\ AddsIn(edit.add, DOMAIN disk'.tab)
        /\ db'.phase = "open" /\ db'.err = db.err /\ vs'.man = vs.man /\ vs'.ver = vs.ver /\ vs'.next = vs.next
        /\ bg.pc # "install"
    BY <1>1, <1>6, <1>7, <1>8, <1>10, <2>4
  <2>7. QED BY <1>3, <1>7, <2>1, <2>3, <2>4, <2>5, <2>6, EditWritten
<1>11. CASE (disk' = [disk EXCEPT !.tab = tab] \/ disk' = disk) /\ GiveUp(d, vs)
  <2>1. disk'.man = disk.man /\ disk'.cur = disk.cur /\ DOMAIN disk.tab \subseteq DOMAIN disk'.tab
    <3>1. CASE disk' = [disk EXCEPT !.tab = tab]
      BY <1>3, <1>6, <3>1, DiskChange
    <3>2. CASE disk' = disk
      BY <3>2
    <3>3. QED BY <1>11, <3>1, <3>2
  <2>2. PICK x : x = d
    OBVIOUS
  <2>3. \/ db' = RecordBackgroundError(x) /\ bg' = [bg EXCEPT !.pc = "merge", !.job = "none"]
        \/ db' = EndCall(RecordBackgroundError(x), vs) /\ bg' = IdleBG
    BY <1>11, <2>2 DEF GiveUp
  <2>4. x \in DBType /\ x.phase = "open" /\ \A w \in bg.comp : \A y \in w.outs : y.num \in x.pending
    BY <1>8, <1>9, <2>2
  <2>5. db'.phase = "open" /\ db'.err = TRUE /\ bg'.pc # "install" /\ OutputsSafe'
    BY <1>1, <2>1, <2>3, <2>4, GivenUpOutputs
  <2>6. vs.man \in DOMAIN disk'.man /\ disk'.man[vs.man] = disk.man[vs.man] /\ Durable(disk'.man[vs.man], vs.man, DOMAIN disk.tab)
    BY <1>3, <2>1, OpenManifest
  <2>7. QED BY <1>1, <1>3, <2>1, <2>5, <2>6, JobFails
<1>12. QED BY <1>2, <1>10, <1>11

\* A compaction starts, by an edit that moves a file or by a merge.
LEMMA StartCompactionSafe ==
  ASSUME Inv, Safe, StartCompaction
  PROVE  Safe'
<1> DEFINE f(c) == CHOOSE x \in c.in0 : TRUE
           move(c) == Filled(vs, vs.log, {<<c.level, c.large>>}, {<<c.level, f(c).num>>}, {<<c.level + 1, f(c)>>})
<1>1. PICK c \in Picked :
        /\ vs' = [vs EXCEPT !.ptr[c.level] = c.large]
        /\ \/ /\ bg' = [bg EXCEPT !.pc = "install", !.job = "move", !.edit = move(c)]
              /\ \E x \in Appends(disk.man[vs.man], move(c)) : disk' = [disk EXCEPT !.man = [disk.man EXCEPT ![vs.man] = x]]
           \/ /\ \E m, td : bg' = [bg EXCEPT !.pc = "merge", !.comp = {[c |-> c, manual |-> m, outs |-> {}, todo |-> td]}]
              /\ disk' = disk
  BY DEF StartCompaction
<1>2. db.phase = "open" /\ bg.pc = "idle" /\ db' = db
  BY DEF StartCompaction, CallBegins
<1>3. /\ vs \in VSType /\ db \in DBType /\ bg \in BGType /\ IsDisk(disk) /\ vs.log \in Nat /\ vs.next \in Nat
  BY DEF Inv, Typed, VSType, DBType
<1>4. /\ c.level \in 0 .. NumLevels - 2 /\ c.in0 \in FileSets /\ c.large \in IKeyType
      /\ c.in0 # {} /\ c.in0 \subseteq vs.ver[c.level]
  BY PickedType DEF CompactionOf, CompactionType
<1>5. c.level \in Levels /\ c.level + 1 \in Levels
  BY <1>4, ConfigAssumption DEF Levels
<1>6. vs'.man = vs.man /\ vs'.ver = vs.ver /\ vs'.next = vs.next
  BY <1>1, <1>3 DEF VSType
<1>7. FilesIn(vs.ver, DOMAIN disk.tab)
  BY <1>2 DEF Safe, OpenSafe
<1> DEFINE g == f(c)
           e == move(c)
<1>8. g \in c.in0
  BY <1>4
<1>9. e = Filled(vs, vs.log, {<<c.level, c.large>>}, {<<c.level, g.num>>}, {<<c.level + 1, g>>})
  OBVIOUS
<1> HIDE DEF g, e
<1>10. g \in FileType /\ g.num \in Nat
  BY <1>4, <1>8 DEF FileSets, FileType
<1>11. e \in FilledEdit /\ e.next = vs.next /\ e.add = {<<c.level + 1, g>>}
  <2>1. {} \cup {<<c.level + 1, g>>} \in Adds
    <3>1. {} \in Adds
      BY FS_EmptySet DEF Adds
    <3>2. QED BY <1>5, <1>10, <3>1, AddsAdd
  <2>2. {<<c.level + 1, g>>} \in Adds
    BY <2>1
  <2>3. {<<c.level, c.large>>} \in SUBSET (Levels \X IKeyType) /\ {<<c.level, g.num>>} \in SUBSET (Levels \X Nat)
    BY <1>4, <1>5, <1>10
  <2>4. PICK p, k, a : /\ p = {<<c.level, c.large>>} /\ k = {<<c.level, g.num>>} /\ a = {<<c.level + 1, g>>}
    OBVIOUS
  <2>5. /\ Filled(vs, vs.log, p, k, a) \in FilledEdit /\ Filled(vs, vs.log, p, k, a).next = vs.next
        /\ Filled(vs, vs.log, p, k, a).add = a
    <3>1. p \in SUBSET (Levels \X IKeyType) /\ k \in SUBSET (Levels \X Nat) /\ a \in Adds
      BY <2>2, <2>3, <2>4
    <3>2. QED BY <1>3, <3>1, FilledType
  <2>6. e = Filled(vs, vs.log, p, k, a)
    BY <1>9, <2>4
  <2>7. QED BY <2>4, <2>5, <2>6
<1>12. AddsIn(e.add, DOMAIN disk.tab)
  <2>1. g.num \in DOMAIN disk.tab
    BY <1>4, <1>5, <1>7, <1>8 DEF FilesIn
  <2>2. QED BY <1>11, <2>1 DEF AddsIn
<1>13. CASE /\ bg' = [bg EXCEPT !.pc = "install", !.job = "move", !.edit = e]
            /\ \E x \in Appends(disk.man[vs.man], e) : disk' = [disk EXCEPT !.man = [disk.man EXCEPT ![vs.man] = x]]
  <2>1. bg'.pc = "install" /\ bg'.edit = e /\ bg'.comp = bg.comp
    BY <1>3, <1>11, <1>13, BGChange
  <2>2. PICK x \in Appends(disk.man[vs.man], e) : disk' = [disk EXCEPT !.man = [disk.man EXCEPT ![vs.man] = x]]
    BY <1>13
  <2>3. PICK mn : mn = [disk.man EXCEPT ![vs.man] = x]
    OBVIOUS
  <2>4. disk'.man = mn /\ disk'.tab = disk.tab /\ disk'.cur = disk.cur
    BY <1>3, <2>3, <2>2, DiskChange
  <2>5. OutputsSafe'
    BY <1>2, <1>6, <2>1, <2>4 DEF Safe, OutputsSafe
  <2>6. /\ DOMAIN disk.tab \subseteq DOMAIN disk'.tab /\ AddsIn(e.add, DOMAIN disk'.tab)
        /\ db'.phase = "open" /\ db'.err = db.err /\ bg.pc # "install"
    BY <1>2, <1>12, <2>4
  <2>7. QED BY <1>2, <1>6, <1>11, <2>1, <2>3, <2>4, <2>5, <2>6, EditWritten
<1>14. CASE /\ \E m, td : bg' = [bg EXCEPT !.pc = "merge", !.comp = {[c |-> c, manual |-> m, outs |-> {}, todo |-> td]}]
            /\ disk' = disk
  <2>1. bg'.pc = "merge" /\ \A w \in bg'.comp : w.outs = {}
    BY <1>3, <1>14 DEF BGType
  <2>2. OutputsSafe'
    BY <2>1 DEF OutputsSafe
  <2>3. /\ disk.cur = vs.man /\ vs.man \in DOMAIN disk.man /\ disk.cur # 0 /\ disk.man[vs.man].sync > 0
        /\ Durable(disk.man[vs.man], vs.man, DOMAIN disk.tab) /\ vs.man < vs.next
    BY <1>2, OpenManifest
  <2>4. db'.err = TRUE \/ (Within(Listed(disk.man[vs.man].recs), Coming') /\ Legible(disk.man[vs.man]))
    <3>1. Coming' = vs.ver /\ Coming = vs.ver
      BY <1>2, <1>6, <2>1 DEF Coming
    <3>2. CASE db.err
      BY <1>2, <1>3, <3>2 DEF DBType
    <3>3. CASE ~db.err
      BY <1>2, <3>1, <3>3 DEF Safe, InStep
    <3>4. QED BY <3>2, <3>3
  <2>5. /\ FilesIn(vs'.ver, DOMAIN disk'.tab) /\ disk'.man = disk.man /\ disk'.cur = disk.cur /\ disk'.tab = disk.tab
        /\ bg'.pc # "install" /\ vs'.man < vs'.next /\ db'.phase = "open"
    BY <1>2, <1>6, <1>7, <1>14, <2>1, <2>3
  <2>6. QED BY <1>2, <1>6, <2>2, <2>3, <2>4, <2>5, OpenStep
<1>15. QED BY <1>1, <1>13, <1>14 DEF e

\* The next output of a compaction gets a new number and is protected.
LEMMA WriteOutputSafe ==
  ASSUME Inv, Safe, WriteOutput
  PROVE  Safe'
<1> DEFINE n == vs.next
           pend == db.pending \cup {n}
           new(w) == [w EXCEPT !.todo = Tail(w.todo), !.outs = w.outs \cup {FileMeta(n, Head(w.todo))}]
<1>1. PICK w \in bg.comp :
        /\ vs' = [vs EXCEPT !.next = n + 1]
        /\ db' = [db EXCEPT !.pending = pend]
        /\ disk' = [disk EXCEPT !.tab = With(disk.tab, n, Synced(NewFile(<<Head(w.todo)>>)))]
        /\ bg' = [bg EXCEPT !.comp = {new(w)}]
  BY DEF WriteOutput
<1>2. bg.pc = "merge"
  BY DEF WriteOutput
<1>3. /\ vs \in VSType /\ db \in DBType /\ bg \in BGType /\ IsDisk(disk) /\ n \in Nat /\ n + 1 \in Nat /\ n < n + 1
      /\ pend \in SUBSET Nat /\ db.phase = "open" /\ w \in WorkType
  BY <1>2 DEF Inv, Typed, VSType, DBType, Quiet, BGType
<1> DEFINE x == new(w)
           g == FileMeta(n, Head(w.todo))
           tb == With(disk.tab, n, Synced(NewFile(<<Head(w.todo)>>)))
<1>4. x.outs = w.outs \cup {g} /\ g.num = n
  <2>1. g.num = n
    BY DEF FileMeta
  <2> HIDE DEF g
  <2>2. QED BY <1>3, <2>1 DEF WorkType, g
<1>5. DOMAIN tb = DOMAIN disk.tab \cup {n}
  BY DEF With
<1>6. bg' = [bg EXCEPT !.comp = {x}] /\ disk' = [disk EXCEPT !.tab = tb]
  BY <1>1
<1> HIDE DEF x, g, tb, n, pend, new
<1>7. vs'.man = vs.man /\ vs'.ver = vs.ver /\ vs'.next = n + 1
  BY <1>1, <1>3, VSChange
<1>8. db'.phase = "open" /\ db'.pending = pend /\ db'.err = db.err
  BY <1>1, <1>3 DEF DBType
<1>9. bg'.pc = "merge" /\ bg'.comp = {x}
  BY <1>2, <1>3, <1>6 DEF BGType
<1>10. disk'.tab = tb /\ disk'.man = disk.man /\ disk'.cur = disk.cur
  BY <1>3, <1>6, DiskChange
<1>11. OutputsSafe'
  <2>1. ASSUME NEW f \in x.outs
        PROVE  f.num \in DOMAIN tb /\ f.num \in pend /\ f.num < n + 1
    <3>1. CASE f \in w.outs
      <4>1. f.num \in DOMAIN disk.tab /\ f.num \in db.pending /\ f.num < n
        BY <3>1 DEF Safe, OutputsSafe, n
      <4>2. f.num \in Nat
        BY <1>3, <4>1 DEF DBType
      <4>3. QED BY <1>3, <1>5, <4>1, <4>2 DEF pend
    <3>2. CASE f = g
      BY <1>3, <1>4, <1>5, <3>2 DEF pend
    <3>3. QED BY <1>4, <2>1, <3>1, <3>2
  <2>2. QED BY <1>7, <1>8, <1>9, <1>10, <2>1 DEF OutputsSafe
<1>12. /\ disk.cur = vs.man /\ vs.man \in DOMAIN disk.man /\ disk.cur # 0 /\ disk.man[vs.man].sync > 0
       /\ Durable(disk.man[vs.man], vs.man, DOMAIN disk.tab) /\ vs.man \in Nat /\ vs.man < n
  BY <1>3, OpenManifest DEF n
<1>13. FilesIn(vs.ver, DOMAIN disk.tab)
  BY <1>3 DEF Safe, OpenSafe
<1>14. Durable(disk.man[vs.man], vs.man, DOMAIN tb) /\ FilesIn(vs.ver, DOMAIN tb)
  <2>1. DOMAIN disk.tab \subseteq DOMAIN tb
    BY <1>5
  <2>2. QED BY <1>12, <1>13, <2>1, MoreTables
<1>15. vs'.man < vs'.next
  BY <1>3, <1>7, <1>12
<1>16. db'.err = TRUE \/ (Within(Listed(disk.man[vs.man].recs), Coming') /\ Legible(disk.man[vs.man]))
  <2>1. Coming' = vs.ver /\ Coming = vs.ver
    BY <1>2, <1>7, <1>9 DEF Coming
  <2>2. CASE db.err
    BY <1>3, <1>8, <2>2 DEF DBType
  <2>3. CASE ~db.err
    BY <1>3, <2>1, <2>3 DEF Safe, InStep
  <2>4. QED BY <2>2, <2>3
<1>17. FilesIn(vs'.ver, DOMAIN disk'.tab) /\ Durable(disk'.man[vs.man], vs.man, DOMAIN disk'.tab) /\ bg'.pc # "install"
  BY <1>7, <1>9, <1>10, <1>14
<1>18. QED BY <1>3, <1>7, <1>8, <1>10, <1>11, <1>12, <1>15, <1>16, <1>17, OpenStep

\* The results of a compaction go to the manifest: its outputs are there.
LEMMA ApplyCompactionSafe ==
  ASSUME Inv, Safe, ApplyCompaction
  PROVE  Safe'
<1> DEFINE del(w) == {<<w.c.level, f.num>> : f \in w.c.in0} \cup {<<w.c.level + 1, f.num>> : f \in w.c.in1}
           add(w) == {<<w.c.level + 1, f>> : f \in w.outs}
           edit(w) == Filled(vs, vs.log, {<<w.c.level, w.c.large>>}, del(w), add(w))
<1>1. PICK w \in bg.comp :
        /\ \E x \in Appends(disk.man[vs.man], edit(w)) : disk' = [disk EXCEPT !.man = [disk.man EXCEPT ![vs.man] = x]]
        /\ bg' = [bg EXCEPT !.pc = "install", !.job = "compact", !.edit = edit(w)]
  BY DEF ApplyCompaction
<1>2. bg.pc = "merge" /\ vs' = vs /\ db' = db
  BY DEF ApplyCompaction
<1>3. vs \in VSType /\ bg \in BGType /\ IsDisk(disk) /\ w \in WorkType /\ bg.comp # {} /\ db.phase = "open"
  BY <1>2 DEF Inv, Typed, BGType, Quiet
<1>4. edit(w) \in FilledEdit
  BY <1>3, CompactionEditType
<1>5. edit(w).next = vs.next /\ edit(w).add = add(w)
  BY DEF Filled, Edit
<1>6. AddsIn(add(w), DOMAIN disk.tab)
  BY DEF AddsIn, Safe, OutputsSafe
<1> DEFINE e == edit(w)
<1>7. /\ \E x \in Appends(disk.man[vs.man], e) : disk' = [disk EXCEPT !.man = [disk.man EXCEPT ![vs.man] = x]]
      /\ bg' = [bg EXCEPT !.pc = "install", !.job = "compact", !.edit = e] /\ e \in FilledEdit
      /\ e.next = vs.next /\ AddsIn(e.add, DOMAIN disk.tab)
  BY <1>1, <1>4, <1>5, <1>6
<1> HIDE DEF e, edit, add, del
<1>8. bg'.pc = "install" /\ bg'.edit = e /\ bg'.comp = bg.comp
  BY <1>3, <1>7, BGChange
<1>9. PICK x \in Appends(disk.man[vs.man], e) : disk' = [disk EXCEPT !.man = [disk.man EXCEPT ![vs.man] = x]]
  BY <1>7
<1>10. PICK mn : mn = [disk.man EXCEPT ![vs.man] = x]
  OBVIOUS
<1>11. disk'.man = mn /\ disk'.tab = disk.tab /\ disk'.cur = disk.cur
  BY <1>3, <1>10, <1>9, DiskChange
<1>12. OutputsSafe'
  BY <1>2, <1>8, <1>11 DEF Safe, OutputsSafe
<1>13. /\ DOMAIN disk.tab \subseteq DOMAIN disk'.tab /\ AddsIn(e.add, DOMAIN disk'.tab) /\ bg.pc # "install"
       /\ db'.phase = "open" /\ db'.err = db.err /\ vs'.man = vs.man /\ vs'.ver = vs.ver /\ vs'.next = vs.next
  BY <1>2, <1>3, <1>7, <1>11
<1>14. QED BY <1>3, <1>7, <1>8, <1>10, <1>11, <1>12, <1>13, EditWritten

\* A compaction is abandoned.
LEMMA AbortCompactionSafe ==
  ASSUME Inv, Safe, AbortCompaction
  PROVE  Safe'
<1>1. PICK w \in bg.comp : db' = EndCall(RecordBackgroundError(Cleaned(w)), vs) /\ bg' = IdleBG
  BY DEF AbortCompaction
<1>2. bg.pc = "merge" /\ disk' = disk /\ vs' = vs /\ db \in DBType /\ db.phase = "open"
  BY DEF AbortCompaction, Inv, Typed, Quiet
<1>3. PICK d : d = Cleaned(w)
  OBVIOUS
<1>4. d \in DBType /\ d.phase = "open"
  BY <1>2, <1>3, CleanedFacts
<1>5. db' = EndCall(RecordBackgroundError(d), vs)
  BY <1>1, <1>3
<1>6. db'.phase = "open" /\ db'.err = TRUE /\ bg'.pc # "install" /\ OutputsSafe'
  BY <1>1, <1>2, <1>4, <1>5, GivenUpOutputs
<1>7. vs.man \in DOMAIN disk'.man /\ disk'.man[vs.man] = disk.man[vs.man] /\ Durable(disk'.man[vs.man], vs.man, DOMAIN disk.tab)
  BY <1>2, OpenManifest
<1>8. QED BY <1>2, <1>6, <1>7, JobFails

\* The manifest record could not be written or synced.
LEMMA InstallFailsSafe ==
  ASSUME Inv, Safe, InstallFails
  PROVE  Safe'
<1> DEFINE f == disk.man[vs.man]
           g == Torn(f)
           mn == [disk.man EXCEPT ![vs.man] = g]
<1>1. /\ bg.pc = "install" /\ vs' = vs
      /\ disk' = disk \/ disk' = [disk EXCEPT !.man = mn]
      /\ \/ bg.job = "compact" /\ \E w \in bg.comp : GiveUp(Cleaned(w), vs)
         \/ GiveUp(db, vs)
  BY DEF InstallFails
<1>2. db \in DBType /\ IsDisk(disk) /\ db.phase = "open"
  BY <1>1 DEF Inv, Typed, Quiet
<1>3. /\ disk.cur = vs.man /\ vs.man \in DOMAIN disk.man /\ f \in FileOf(EditType)
      /\ Durable(f, vs.man, DOMAIN disk.tab)
  BY <1>2, OpenManifest
<1>4. f.sync < Len(f.recs)
  BY <1>1, <1>2 DEF Safe, OpenSafe
<1> HIDE DEF f
<1>5. Durable(g, vs.man, DOMAIN disk.tab) /\ g.sync = f.sync
  BY <1>3, <1>4, DurableStays, TornFacts
<1>6. mn[vs.man] = g /\ vs.man \in DOMAIN mn
  BY <1>3
<1> HIDE DEF g, mn
<1>7. /\ disk'.cur = disk.cur /\ disk'.tab = disk.tab /\ vs.man \in DOMAIN disk'.man
      /\ disk'.man[vs.man].sync = disk.man[vs.man].sync
      /\ Durable(disk'.man[vs.man], vs.man, DOMAIN disk.tab)
  <2>1. CASE disk' = disk
    BY <1>3, <2>1 DEF f
  <2>2. CASE disk' = [disk EXCEPT !.man = mn]
    <3>1. disk'.man = mn /\ disk'.tab = disk.tab /\ disk'.cur = disk.cur
      BY <1>2, <2>2, DiskChange
    <3>2. QED BY <1>5, <1>6, <3>1 DEF f
  <2>3. QED BY <1>1, <2>1, <2>2
<1>8. PICK d :
        /\ d \in DBType /\ d.phase = "open"
        /\ \/ /\ db' = RecordBackgroundError(d) /\ bg' = [bg EXCEPT !.pc = "merge", !.job = "none"]
              /\ d.pending = db.pending
           \/ db' = EndCall(RecordBackgroundError(d), vs) /\ bg' = IdleBG
  <2>1. CASE GiveUp(db, vs)
    <3>1. \/ db' = RecordBackgroundError(db) /\ bg' = [bg EXCEPT !.pc = "merge", !.job = "none"]
          \/ db' = EndCall(RecordBackgroundError(db), vs) /\ bg' = IdleBG
      BY <2>1 DEF GiveUp
    <3>2. QED BY <1>2, <3>1
  <2>2. CASE bg.job = "compact" /\ \E w \in bg.comp : GiveUp(Cleaned(w), vs)
    <3>1. PICK w \in bg.comp : GiveUp(Cleaned(w), vs)
      BY <2>2
    <3>2. db' = EndCall(RecordBackgroundError(Cleaned(w)), vs) /\ bg' = IdleBG
      BY <2>2, <3>1 DEF GiveUp
    <3>3. Cleaned(w) \in DBType /\ Cleaned(w).phase = "open"
      BY <1>2, CleanedFacts
    <3>4. QED BY <3>2, <3>3
  <2>3. QED BY <1>1, <2>1, <2>2
<1>9. \A w \in bg.comp : \A x \in w.outs : x.num \in db.pending
  BY DEF Safe, OutputsSafe
<1>10. DOMAIN disk.tab \subseteq DOMAIN disk'.tab
  BY <1>7
<1>11. \/ /\ db' = RecordBackgroundError(d) /\ bg' = [bg EXCEPT !.pc = "merge", !.job = "none"]
          /\ \A w \in bg.comp : \A x \in w.outs : x.num \in d.pending
       \/ db' = EndCall(RecordBackgroundError(d), vs) /\ bg' = IdleBG
  BY <1>8, <1>9
<1>12. db'.phase = "open" /\ db'.err = TRUE /\ bg'.pc # "install" /\ OutputsSafe'
  BY <1>1, <1>8, <1>10, <1>11, GivenUpOutputs
<1>13. QED BY <1>1, <1>2, <1>7, <1>10, <1>12, JobFails

\* A new version is installed and obsolete files go: none that the manifest
\* lists, and no output of a compaction around a flush.
LEMMA InstallSafe ==
  ASSUME Inv, Safe, Install
  PROVE  Safe'
<1> DEFINE e == bg.edit
           v == Installed(vs, e)
           f == disk.man[vs.man]
           mn == [disk.man EXCEPT ![vs.man] = Synced(f)]
           d == [disk EXCEPT !.man = mn]
           nested == bg.job = "flush" /\ bg.comp # {}
           inUse == {v.ver} \cup PinnedVersions \cup (IF nested THEN {w.c.ver : w \in bg.comp} ELSE {})
           flushed == [db EXCEPT !.imm = 0]
           pend == db.pending \ {x.num : x \in UNION {w.outs : w \in bg.comp}}
           cleaned == [db EXCEPT !.pending = pend, !.manual = FALSE]
           now == IF bg.job = "flush" THEN flushed ELSE IF bg.job = "compact" THEN cleaned ELSE db
           live == LiveFiles(now.pending, inUse)
           T == DOMAIN disk.tab
<1>1. /\ bg.pc = "install" /\ vs' = v
      /\ disk' = d \/ disk' = DeleteObsolete(d, v, db.err, live)
      /\ \/ nested /\ db' = SignalAll(now) /\ bg' = [bg EXCEPT !.pc = "merge", !.job = "none"]
         \/ db' = EndCall(now, v) /\ bg' = IdleBG
  BY DEF Install
<1>2. /\ vs \in VSType /\ db \in DBType /\ bg \in BGType /\ IsDisk(disk) /\ e \in FilledEdit
      /\ db.pending \in SUBSET Nat /\ db.phase = "open"
  BY <1>1 DEF Inv, Typed, BGType, DBType, Quiet
<1>3. v.next = vs.next /\ v.man = vs.man /\ v.ver = ApplyEdit(vs.ver, e)
  BY <1>2, InstalledType
<1>4. /\ disk.cur = vs.man /\ vs.man \in DOMAIN disk.man /\ disk.cur # 0 /\ f \in FileOf(EditType) /\ f.sync > 0
      /\ Durable(f, vs.man, T) /\ vs.man < vs.next
  BY <1>2, OpenManifest
<1>5. FilesIn(vs.ver, T) /\ AddsIn(e.add, T)
  BY <1>1, <1>2 DEF Safe, OpenSafe
<1>6. ~db.err => Within(Listed(f.recs), v.ver) /\ Legible(f)
  BY <1>1, <1>2, <1>3 DEF Safe, InStep, Coming
<1>7. \A w \in bg.comp : \A x \in w.outs : x.num \in T /\ x.num \in db.pending /\ x.num < vs.next
  BY DEF Safe, OutputsSafe
<1>8. v.ver \in inUse
  <2> HIDE DEF v, nested
  <2> QED OBVIOUS
<1>9. now \in DBType /\ now.phase = "open" /\ now.err = db.err /\ (nested => now.pending = db.pending)
  <2>1. pend \in SUBSET Nat
    BY <1>2
  <2> HIDE DEF pend
  <2>2. flushed \in DBType /\ flushed.phase = db.phase /\ flushed.err = db.err /\ flushed.pending = db.pending
    BY <1>2 DEF DBType
  <2>3. cleaned \in DBType /\ cleaned.phase = db.phase /\ cleaned.err = db.err
    BY <1>2, <2>1 DEF DBType
  <2>4. (now = flushed \/ now = cleaned \/ now = db) /\ (nested => now = flushed)
    OBVIOUS
  <2> HIDE DEF now, flushed, cleaned, nested
  <2>5. QED BY <1>2, <2>2, <2>3, <2>4
<1> HIDE DEF v, e, f, T, now, inUse, nested
<1>10. FilesIn(v.ver, T)
  BY <1>3, <1>5, ApplyIn
<1>11. FilesIn(v.ver, T \cap live)
  BY <1>8, <1>10, LiveKept
<1>12. nested => \A w \in bg.comp : \A x \in w.outs : x.num \in T \cap live
  BY <1>7, <1>9 DEF LiveFiles
<1> HIDE DEF live
<1>13. /\ Synced(f) \in FileOf(EditType) /\ Synced(f).recs = f.recs /\ Synced(f).sync > 0
       /\ Legible(f) => Synced(f).sync = Len(f.recs) /\ Legible(Synced(f))
       /\ Len(f.recs) > 0 /\ Durable(Synced(f), vs.man, T)
  <2>1. f.sync \in Nat /\ Len(f.recs) \in Nat /\ f.sync <= Len(f.recs)
    BY <1>4, FileParts DEF Durable
  <2>2. /\ Synced(f).recs = f.recs /\ Synced(f).torn = f.torn /\ Synced(f).bad = f.bad
        /\ Synced(f).sync = IF f.bad = {} THEN Len(f.recs) ELSE f.sync
    BY <1>4, FileParts
  <2>3. Len(f.recs) > 0
    BY <1>4, <2>1
  <2>4. Synced(f).sync > 0
    BY <1>4, <2>2, <2>3
  <2>5. Legible(f) => Synced(f).sync = Len(f.recs) /\ Legible(Synced(f))
    BY <2>2 DEF Legible
  <2>6. QED BY <1>4, <2>2, <2>3, <2>4, <2>5, FileFacts, DurableStays
<1>14. vs.man \in DOMAIN mn /\ mn[vs.man] = Synced(f) /\ IsDir(mn, EditType)
  <2>1. IsDir(disk.man, EditType)
    BY <1>2 DEF IsDisk
  <2>2. QED BY <1>4, <1>13, <2>1, DirUpdate
<1> HIDE DEF mn
<1>15. IsDisk(d) /\ d.man = mn /\ d.tab = disk.tab /\ d.cur = disk.cur
  <2>1. IsDisk(disk) /\ IsDir(mn, EditType)
    BY <1>2, <1>14
  <2>2. IsDisk([disk EXCEPT !.man = mn])
    BY <2>1, DiskChange
  <2>3. d.man = mn /\ d.tab = disk.tab /\ d.cur = disk.cur
    BY <2>1, DiskChange
  <2>4. QED BY <2>2, <2>3
<1> HIDE DEF d
<1>16. PICK U :
         /\ DOMAIN disk'.tab = U /\ disk'.cur = disk.cur /\ vs.man \in DOMAIN disk'.man /\ disk'.man[vs.man] = Synced(f)
         /\ U = T \/ (U = T \cap live /\ ~db.err)
  <2>1. CASE disk' = d
    BY <1>14, <1>15, <2>1 DEF T
  <2>2. CASE disk' # d
    <3>1. ~db.err /\ disk' = [d EXCEPT !.log = Restrict(d.log, {n \in DOMAIN d.log : n >= v.log}),
                         !.man = Restrict(d.man, {n \in DOMAIN d.man : n >= v.man}),
                         !.tab = Restrict(d.tab, DOMAIN d.tab \cap live)]
      BY <1>1, <2>2 DEF DeleteObsolete
    <3> DEFINE S == {n \in DOMAIN mn : n >= v.man}
               R == DOMAIN disk.tab \cap live
    <3>2. disk'.cur = disk.cur /\ disk'.man = Restrict(mn, S) /\ disk'.tab = Restrict(disk.tab, R)
      BY <1>15, <3>1 DEF IsDisk
    <3>3. vs.man \in S
      BY <1>2, <1>3, <1>14 DEF VSType
    <3> HIDE DEF S, R
    <3>4. vs.man \in DOMAIN disk'.man /\ disk'.man[vs.man] = Synced(f) /\ DOMAIN disk'.tab = R
      BY <1>14, <3>2, <3>3, RestrictTo
    <3>5. R = T \cap live
      BY DEF R, T
    <3>6. QED BY <3>1, <3>2, <3>4, <3>5
  <2>3. QED BY <2>1, <2>2
<1>17. FilesIn(v.ver, U) /\ Durable(Synced(f), vs.man, U)
  <2>1. CASE U = T
    BY <1>10, <1>13, <2>1
  <2>2. CASE U = T \cap live /\ ~db.err
    <3>1. FilesIn(v.ver, U)
      BY <1>11, <2>2
    <3>2. FilesIn(Listed(f.recs), U)
      BY <1>6, <2>2, <3>1, WithinIn
    <3>3. Complete(f.recs, vs.man, T)
      BY <1>4, <1>13, DurableWhole
    <3>4. Synced(f).sync = Len(f.recs)
      BY <1>6, <1>13, <2>2
    <3>5. QED BY <1>13, <3>1, <3>2, <3>3, <3>4, DurableFewer
  <2>3. QED BY <1>16, <2>1, <2>2
<1>18. /\ db'.phase = "open" /\ db'.err = db.err /\ bg'.pc # "install" /\ OutputsSafe'
  <2>1. CASE nested /\ db' = SignalAll(now) /\ bg' = [bg EXCEPT !.pc = "merge", !.job = "none"]
    <3>1. db'.phase = "open" /\ db'.err = db.err /\ db'.pending = db.pending
      BY <1>9, <2>1 DEF DBType, SignalAll
    <3>2. bg'.pc = "merge" /\ bg'.comp = bg.comp
      BY <1>2, <2>1, BGChange
    <3>3. vs'.next = vs.next
      BY <1>1, <1>3
    <3>4. \A w \in bg.comp : \A x \in w.outs : x.num \in U
      BY <1>7, <1>12, <1>16, <2>1
    <3>5. OutputsSafe'
      BY <1>7, <1>16, <3>1, <3>2, <3>3, <3>4 DEF OutputsSafe
    <3>6. QED BY <3>1, <3>2, <3>5
  <2>2. CASE db' = EndCall(now, v) /\ bg' = IdleBG
    <3>1. db'.phase = "open" /\ db'.err = db.err
      BY <1>9, <2>2, EndCallFacts
    <3>2. bg'.pc = "idle" /\ bg'.comp = {}
      BY <2>2 DEF IdleBG
    <3>3. OutputsSafe'
      BY <3>2 DEF OutputsSafe
    <3>4. QED BY <3>1, <3>2, <3>3
  <2>3. QED BY <1>1, <2>1, <2>2
<1>19. vs'.man = vs.man /\ vs'.next = vs.next /\ vs'.ver = v.ver
  BY <1>1, <1>3
<1>20. Coming' = v.ver
  BY <1>18, <1>19 DEF Coming
<1>21. db'.err = TRUE \/ (Within(Listed(f.recs), Coming') /\ Legible(Synced(f)))
  <2>1. CASE db.err
    BY <1>2, <1>18, <2>1 DEF DBType
  <2>2. CASE ~db.err
    BY <1>6, <1>13, <1>20, <2>2
  <2>3. QED BY <2>1, <2>2
<1>22. /\ disk'.man[vs.man].recs = f.recs /\ disk'.man[vs.man] = Synced(f) /\ disk'.man[vs.man].sync > 0 /\ vs'.man < vs'.next
       /\ FilesIn(vs'.ver, DOMAIN disk'.tab) /\ Durable(disk'.man[vs.man], vs.man, DOMAIN disk'.tab)
  BY <1>4, <1>13, <1>16, <1>17, <1>19
<1>23. QED BY <1>2, <1>4, <1>16, <1>18, <1>19, <1>21, <1>22, OpenStep

-----------------------------------------------------------------------------
(* The theorem.                                                              *)

\* Every step keeps the invariant.
LEMMA StepSafe ==
  ASSUME Inv, Safe, [Next]_vars
  PROVE  Safe'
<1>1. CASE Opening
  BY <1>1, NewDBSafe, RecoverSafe, ReplayTableSafe, StartManifestSafe, FinishOpenSafe DEF Opening
<1>2. CASE OpenError
  BY <1>2, OpenErrorSafe
<1>3. CASE \E t \in Writers, call \in Calls : Write(t, call)
  BY <1>3, WaitingSafe
<1>4. CASE \E t \in Threads : Writing(t)
  BY <1>4, WaitingSafe, SwitchMemTableSafe, WriteGroupSafe DEF Writing
<1>5. CASE (\E r \in Readers : BeginRead(r) \/ EndRead(r)) \/ GetSnapshot \/ ReleaseSnapshot
  BY <1>5, ReadingSafe
<1>6. CASE Background
  BY <1>6, NothingToDoSafe, StartFlushSafe, FlushBuiltSafe, StartCompactionSafe, WriteOutputSafe,
     ApplyCompactionSafe, AbortCompactionSafe, InstallSafe, FinishCloseSafe DEF Background
<1>7. CASE InstallFails
  BY <1>7, InstallFailsSafe
<1>8. CASE BeginCompactRange \/ Compacting \/ BeginClose \/ Closing \/ Crash
  BY <1>8, CallersSafe, FinishCloseSafe DEF Compacting, Closing
<1>9. CASE UNCHANGED vars
  <2>1. disk' = disk /\ vs' = vs /\ db' = db /\ bg' = bg /\ hist' = hist
    BY <1>9 DEF vars
  <2>2. ManifestSafe' /\ Founded' /\ OpeningSafe' /\ OutputsSafe'
    BY <2>1 DEF Safe, ManifestSafe, Founded, OpeningSafe, OutputsSafe
  <2>3. NewManifest' /\ OpenSafe'
    BY <2>1 DEF Safe, NewManifest, OpenSafe, SnapshotEdit, Edit
  <2>4. Coming' = Coming
    BY <2>1 DEF Coming, ApplyEdit
  <2>5. InStep'
    BY <2>1, <2>4 DEF Safe, InStep
  <2>6. QED BY <2>2, <2>3, <2>5 DEF Safe
<1>10. QED BY <1>1, <1>2, <1>3, <1>4, <1>5, <1>6, <1>7, <1>8, <1>9 DEF Next

\* Once a database has been opened, whatever the order of flushes, compactions,
\* deletions of obsolete files (one of which may run inside a compaction's
\* loop), I/O errors, torn appends and crashes, the manifest CURRENT names sets
\* every field and every table it lists is on the disk.  An open database with
\* no background error has no unreadable record in its manifest either, so a
\* later Open succeeds (LogAndApply, DeleteObsoleteFiles, pending_outputs_,
\* VersionSet::Recover).
THEOREM AlwaysReopenable == Spec => []Reopenable
<1>1. Init => Inv /\ Safe
  BY InitInv, InitSafe
<1>2. Inv /\ Safe /\ [Next]_vars => (Inv /\ Safe)'
  BY StepInv, StepSafe
<1>3. Inv /\ Safe => Reopenable
  BY SafeReopens
<1>4. QED BY <1>1, <1>2, <1>3, PTL DEF Spec

=============================================================================
