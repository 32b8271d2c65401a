---------------------------- MODULE StoreProofs ----------------------------
(***************************************************************************)
(* The database implements the abstract store: groups of writes take       *)
(* effect at once and in order, and no crash takes away one that was       *)
(* acknowledged as durable.  A group written with sync = true to a log in  *)
(* which an earlier append failed is not promised to be durable: recovery  *)
(* may not find it.                                                        *)
(***************************************************************************)
EXTENDS RecoveryProofs

-----------------------------------------------------------------------------
(* The inductive invariant.                                                  *)

\* The groups in the logs from number `from' on.
LoggedFrom(logs, from) == UNION {Range(logs[n].recs) : n \in {m \in DOMAIN logs : m >= from}}

\* Those of them a reader finds.
FoundFrom(logs, from) == UNION {Readable(logs[n]) : n \in {m \in DOMAIN logs : m >= from}}

\* Two groups share no sequence number; a group is not past a sequence number.
Apart(g, k) == \A e \in g, o \in k : e.s # o.s

UpToSeq(g, s) == \A e \in g : e.s <= s

Busy(t) == wr[t].pc \in {"logged", "inserted"}

\* Sequence numbers are given out once: two groups, whether still in a log or
\* not, share none, and no group is in the logs twice.
Distinct(h, logs) ==
  /\ \A g, k \in h \cup LoggedFrom(logs, 0) : g # k => Apart(g, k)
  /\ \A n, m \in DOMAIN logs : \A i \in DOMAIN logs[n].recs, j \in DOMAIN logs[m].recs :
       logs[n].recs[i] = logs[m].recs[j] => n = m /\ i = j

\* What is in a log is in the store, but for the group being written and one
\* whose Sync failed: those are in the newest log.  When the database is not
\* open, the store has what a reader of the log finds.
LogsKnown ==
  \A n \in DOMAIN disk.log :
    /\ db.phase = "open" =>
         \A g \in Range(disk.log[n].recs) :
           \/ g \in hist
           \/ n = db.mem /\ (db.err = TRUE \/ \E t \in Threads : wr[t].pc = "logged" /\ g = wr[t].ents)
    /\ db.phase # "open" => Readable(disk.log[n]) \subseteq hist

\* A group out of a reader's reach is behind a failed append.  Once the database
\* is not open any more, the store has none that recovery should find.
OutOfReach ==
  \A n \in DOMAIN disk.log :
    /\ disk.log[n].bad # {} => disk.log[n].torn = TRUE
    /\ db.phase # "open" /\ disk.cur # 0 /\ n >= ManifestField(disk.man[disk.cur].recs, "log") =>
         \A i \in DOMAIN disk.log[n].recs : i \in disk.log[n].bad => disk.log[n].recs[i] \notin hist

\* A manifest that names the logs to replay: what is not in them is not past
\* the last sequence number it gives.
Covers(recs, h, logs) ==
  /\ ManifestField(recs, "log") <= ManifestField(recs, "next")
  /\ \A g \in h : g \in LoggedFrom(logs, ManifestField(recs, "log"))
                  \/ UpToSeq(g, ManifestField(recs, "last"))

\* What a crash may leave of a file, if anything.
Cuts(f) == {SubSeq(f.recs, 1, n) : n \in {m \in CutPoints(f) : m > 0}}

\* However much of the manifest a crash leaves, nothing in the store is past
\* what recovery from it makes of the last sequence number.
Covered ==
  disk.cur # 0 =>
    \A recs \in Cuts(disk.man[disk.cur]) :
      /\ Covers(recs, hist, disk.log)
      /\ db.phase = "open" => ManifestField(recs, "log") <= db.mem

\* A new log gets a number above all others, once those in the todo list are
\* marked as used.
LogNumbers ==
  /\ db.phase = "recovering" =>
       \A n \in DOMAIN disk.log : n < vs.next \/ \E i \in DOMAIN db.todo : db.todo[i].mark = n
  /\ db.phase \in {"manifest", "open"} =>
       db.mem \in DOMAIN disk.log /\ \A n \in DOMAIN disk.log : n < vs.next
  /\ db.phase = "manifest" => /\ bg.edit.log = db.mem /\ bg.edit.last = vs.last
                              /\ disk.log[db.mem].recs = <<>> /\ \A n \in DOMAIN disk.log : n <= db.mem
  /\ db.phase = "open" => vs.log <= db.mem

\* vs.last covers every group but the one being written.
LastCovers ==
  /\ db.phase \in {"recovering", "manifest"} => \A g \in hist : UpToSeq(g, vs.last)
  /\ db.phase = "open" =>
       \A g \in hist \cup LoggedFrom(disk.log, 0) :
         UpToSeq(g, vs.last) \/ \E t \in Threads : Busy(t) /\ g = wr[t].ents

\* The writer that is past the log heads the queue; its group is the newest in
\* the log, and durable if it was to be synced and no append had failed.
Leading ==
  \A t \in Threads : Busy(t) =>
    /\ db.queue # <<>> /\ Head(db.queue) = t /\ t \in Range(wr[t].group)
    /\ \A e \in wr[t].ents : e.s > vs.last
    /\ disk.log[db.mem].recs # <<>>
    /\ disk.log[db.mem].recs[Len(disk.log[db.mem].recs)] = wr[t].ents
    /\ wr[t].pc = "inserted" =>
         /\ wr[t].ents \in hist
         /\ wr[t].sync = TRUE =>
              disk.log[db.mem].torn = TRUE \/ disk.log[db.mem].sync = Len(disk.log[db.mem].recs)
    /\ wr[t].pc = "logged" => wr[t].ents \notin hist

\* A group acknowledged as durable is in the store, and in the durable part of
\* its log, within a reader's reach, if that log is still there.
SyncedKept ==
  /\ synced \subseteq hist
  /\ \A n \in DOMAIN disk.log : \A i \in DOMAIN disk.log[n].recs :
       disk.log[n].recs[i] \in synced => i <= disk.log[n].sync /\ i \notin disk.log[n].bad

\* The edit about to be installed is the last of the manifest.
EditWrittenLast ==
  bg.pc = "install" =>
    /\ disk.man[vs.man].recs[Len(disk.man[vs.man].recs)] = bg.edit
    /\ bg.edit.log <= db.mem

Lasting ==
  /\ Distinct(hist, disk.log) /\ LogsKnown /\ OutOfReach /\ Covered /\ LogNumbers
  /\ LastCovers /\ Leading /\ SyncedKept /\ EditWrittenLast

\* What every step of the database is to the abstract store: a step or none.
StoreStep == [Store!Start \/ Store!Commit \/ Store!Stop \/ Store!Lose]_(Store!store)

\* What is shown of every step.
Lasts == Lasting' /\ StoreStep

-----------------------------------------------------------------------------
(* Groups in logs.                                                           *)

\* A group in the logs is at some place of one of them.
LEMMA InLogs ==
  ASSUME NEW logs, NEW k, NEW g
  PROVE  g \in LoggedFrom(logs, k) <=>
           \E n \in DOMAIN logs : n >= k /\ \E i \in DOMAIN logs[n].recs : logs[n].recs[i] = g
BY DEF LoggedFrom, Range

LEMMA FoundInLogs ==
  ASSUME NEW logs, NEW k, NEW g
  PROVE  g \in FoundFrom(logs, k) <=>
           \E n \in DOMAIN logs : n >= k /\ \E i \in DOMAIN logs[n].recs : i \notin logs[n].bad /\ logs[n].recs[i] = g
BY DEF FoundFrom, Readable

\* The logs hold at most what other logs hold, at the same places.
PartOf(part, logs) ==
  \A n \in DOMAIN part : \A i \in DOMAIN part[n].recs :
    n \in DOMAIN logs /\ i \in DOMAIN logs[n].recs /\ part[n].recs[i] = logs[n].recs[i]

\* Fewer groups in the logs.
LEMMA PartLogged ==
  ASSUME NEW part, NEW logs, PartOf(part, logs), NEW k
  PROVE  LoggedFrom(part, k) \subseteq LoggedFrom(logs, k)
<1> SUFFICES ASSUME NEW g \in LoggedFrom(part, k) PROVE g \in LoggedFrom(logs, k)
  OBVIOUS
<1>1. PICK n \in DOMAIN part : n >= k /\ \E i \in DOMAIN part[n].recs : part[n].recs[i] = g
  BY InLogs
<1>2. QED BY <1>1, InLogs DEF PartOf

\* The same groups in the logs.
LEMMA SameLogged ==
  ASSUME NEW part, NEW logs, PartOf(part, logs), PartOf(logs, part), NEW k
  PROVE  LoggedFrom(part, k) = LoggedFrom(logs, k)
<1>1. LoggedFrom(part, k) \subseteq LoggedFrom(logs, k) /\ LoggedFrom(logs, k) \subseteq LoggedFrom(part, k)
  BY PartLogged
<1>2. QED BY <1>1

\* Groups stay distinct when there are no new ones.
LEMMA FewerDistinct ==
  ASSUME NEW h, NEW logs, Distinct(h, logs), NEW part, PartOf(part, logs),
         NEW less, less \subseteq h \cup LoggedFrom(logs, 0)
  PROVE  Distinct(less, part)
<1>1. less \cup LoggedFrom(part, 0) \subseteq h \cup LoggedFrom(logs, 0)
  BY PartLogged
<1>2. \A g, k \in less \cup LoggedFrom(part, 0) : g # k => Apart(g, k)
  BY <1>1 DEF Distinct
<1>3. ASSUME NEW n \in DOMAIN part, NEW m \in DOMAIN part,
             NEW i \in DOMAIN part[n].recs, NEW j \in DOMAIN part[m].recs, part[n].recs[i] = part[m].recs[j]
      PROVE  n = m /\ i = j
  <2>1. /\ n \in DOMAIN logs /\ i \in DOMAIN logs[n].recs /\ part[n].recs[i] = logs[n].recs[i]
        /\ m \in DOMAIN logs /\ j \in DOMAIN logs[m].recs /\ part[m].recs[j] = logs[m].recs[j]
    BY DEF PartOf
  <2>2. logs[n].recs[i] = logs[m].recs[j]
    BY <1>3, <2>1
  <2>3. QED BY <2>1, <2>2 DEF Distinct
<1>4. QED BY <1>2, <1>3 DEF Distinct

\* Whoever is about to make room is alone past the log.
LEMMA HeadFree ==
  ASSUME Lasting, NEW t, AtHead(t)
  PROVE  \A u \in Threads : ~Busy(u)
BY DEF Lasting, Leading, AtHead, Busy

\* Steps of an open database that touch no log.
LEMMA SameLogs ==
  ASSUME Inv, Lasting, db.phase = "open", db'.phase = "open", hist' = hist, synced' = synced,
         disk'.log = disk.log, db'.mem = db.mem, db.err = TRUE => db'.err = TRUE,
         vs'.last = vs.last, vs'.next \in Nat, vs.next <= vs'.next, vs'.log <= db.mem,
         \A t \in Threads : Busy(t) => wr'[t] = wr[t] /\ db'.queue # <<>> /\ Head(db'.queue) = t,
         \A t \in Threads : wr'[t].pc \in {"logged", "inserted"} => Busy(t),
         Covered', EditWrittenLast'
  PROVE  Lasts
<1>1. Distinct(hist, disk.log)'
  <2>1. Distinct(hist', disk'.log)
    BY DEF Lasting
  <2>2. QED BY <2>1 DEF Distinct, LoggedFrom, Apart
<1>2. LogsKnown'
  BY DEF Lasting, LogsKnown, Busy
<1>3. LogNumbers'
  <2>1. \A n \in DOMAIN disk.log : n \in Nat /\ n < vs.next
    BY DEF Lasting, LogNumbers, Inv, Typed, IsDisk, IsDir
  <2>2. vs.next \in Nat
    BY DEF Inv, Typed, VSType
  <2>3. \A n \in DOMAIN disk.log : n < vs'.next
    BY <2>1, <2>2
  <2>4. QED BY <2>3 DEF Lasting, LogNumbers
<1>4. LastCovers'
  <2>1. ASSUME NEW g \in hist \cup LoggedFrom(disk.log, 0)
        PROVE  UpToSeq(g, vs.last) \/ \E t \in Threads : wr'[t].pc \in {"logged", "inserted"} /\ g = wr'[t].ents
    BY DEF Lasting, LastCovers, Busy
  <2>2. LoggedFrom(disk.log, 0)' = LoggedFrom(disk.log, 0)
    BY DEF LoggedFrom
  <2>3. QED BY <2>1, <2>2 DEF LastCovers, UpToSeq, Busy
<1>5. Leading'
  BY DEF Lasting, Leading, Busy
<1>6. SyncedKept'
  BY DEF Lasting, SyncedKept
<1>7. OutOfReach'
  BY DEF Lasting, OutOfReach
<1>8. StoreStep
  <2>1. Visible' = Visible
    BY DEF Visible
  <2>2. UNCHANGED Store!store
    BY <2>1 DEF Store!store
  <2>3. QED BY <2>2 DEF StoreStep
<1>9. QED BY <1>1, <1>2, <1>3, <1>4, <1>5, <1>6, <1>7, <1>8 DEF Lasting, Lasts

\* The same, when the manifest is not touched either and no job gets to its
\* end.
LEMMA SameFiles ==
  ASSUME Inv, Lasting, db.phase = "open", db'.phase = "open", hist' = hist, synced' = synced,
         disk'.log = disk.log, disk'.man = disk.man, disk'.cur = disk.cur,
         db'.mem = db.mem, db.err = TRUE => db'.err = TRUE,
         vs'.last = vs.last, vs'.next \in Nat, vs.next <= vs'.next, vs'.log = vs.log, vs'.man = vs.man,
         \A t \in Threads : Busy(t) => wr'[t] = wr[t] /\ db'.queue # <<>> /\ Head(db'.queue) = t,
         \A t \in Threads : wr'[t].pc \in {"logged", "inserted"} => Busy(t),
         bg'.pc = "install" => bg.pc = "install" /\ bg'.edit = bg.edit
  PROVE  Lasts
<1>1. Covered'
  <2>1. disk.cur # 0 => \A recs \in Cuts(disk.man[disk.cur]) :
          Covers(recs, hist, disk.log) /\ ManifestField(recs, "log") <= db.mem
    BY DEF Lasting, Covered
  <2>2. Cuts(disk.man[disk.cur])' = Cuts(disk.man[disk.cur])
    BY DEF Cuts, CutPoints
  <2>3. QED BY <2>1, <2>2 DEF Covered, Covers, LoggedFrom, UpToSeq
<1>2. EditWrittenLast'
  BY DEF Lasting, EditWrittenLast
<1>3. vs'.log <= db.mem
  BY DEF Lasting, LogNumbers
<1>4. QED BY <1>1, <1>2, <1>3, SameLogs

-----------------------------------------------------------------------------
(* The clients.                                                              *)

\* A thread that joins the queue is not past the log; the head stays.
LEMMA JoinsQueue ==
  ASSUME Inv, Lasting, NEW t \in Threads, wr[t].pc = "idle", NEW batch, NEW sync, Enqueue(t, batch, sync)
  PROVE  /\ \A u \in Threads : Busy(u) => wr'[u] = wr[u] /\ db'.queue # <<>> /\ Head(db'.queue) = u
         /\ \A u \in Threads : wr'[u].pc \in {"logged", "inserted"} => Busy(u)
<1> DEFINE w == [IdleWriter EXCEPT !.pc = "queued", !.batch = batch, !.sync = sync]
           q == Append(db.queue, t)
<1>1. db' = [db EXCEPT !.queue = q] /\ wr' = [wr EXCEPT ![t] = w]
  BY DEF Enqueue
<1>2. w.pc = "queued"
  BY DEF IdleWriter
<1>3. db \in DBType /\ wr \in [Threads -> WriterType] /\ db.queue \in Seq(Threads)
  BY DEF Inv, Typed, DBType
<1>4. db.queue # <<>> => q # <<>> /\ Head(q) = Head(db.queue)
  BY <1>3
<1> HIDE DEF w, q
<1>5. db'.queue = q /\ \A u \in Threads : wr'[u] = IF u = t THEN w ELSE wr[u]
  BY <1>1, <1>3 DEF DBType
<1>6. \A u \in Threads : Busy(u) => u # t /\ db.queue # <<>> /\ Head(db.queue) = u
  BY DEF Lasting, Leading, Busy
<1>7. QED BY <1>2, <1>4, <1>5, <1>6 DEF Busy

\* A group leaves the queue and nobody is past the log.
LEMMA LeavesQueue ==
  ASSUME Inv, NEW d \in DBType, NEW group \in Seq(Threads), Leave(d, wr, group),
         \A u \in Threads : Busy(u) => u \in Range(group)
  PROVE  \A u \in Threads : wr'[u].pc \notin {"logged", "inserted"}
<1>1. wr \in [Threads -> WriterType]
  BY DEF Inv, Typed
<1>2. \A u \in Threads : wr'[u] = IF u \in Range(group) THEN IdleWriter ELSE wr[u]
  BY <1>1, LeaveFacts
<1>3. IdleWriter.pc = "idle"
  BY DEF IdleWriter
<1>4. QED BY <1>2, <1>3 DEF Busy

\* Calls of Write, and what a write goes through before it has room.
LEMMA WaitingLasts ==
  ASSUME Inv, Lasting, NEW t \in Threads,
         \/ \E call \in Calls : Write(t, call)
         \/ WriteFails(t) \/ WriteDelayed(t) \/ WriteWaits(t)
  PROVE  Lasts
<1>1. /\ db.phase = "open" /\ disk' = disk /\ vs' = vs /\ bg' = bg /\ hist' = hist /\ synced' = synced
      /\ \/ db' = db \/ (\E q : db' = [db EXCEPT !.queue = q]) \/ (\E s : db' = [db EXCEPT !.waiting = s])
  BY DEF Write, IsOpen, Enqueue, WriteFails, AtHead, Leave, WriteDelayed, WriteWaits
<1>2. db \in DBType /\ vs.next \in Nat /\ wr \in [Threads -> WriterType]
  BY DEF Inv, Typed, VSType
<1>3. db'.phase = "open" /\ db'.mem = db.mem /\ db'.err = db.err
  BY <1>1, <1>2 DEF DBType
<1>4. /\ \A u \in Threads : Busy(u) => wr'[u] = wr[u] /\ db'.queue # <<>> /\ Head(db'.queue) = u
      /\ \A u \in Threads : wr'[u].pc \in {"logged", "inserted"} => Busy(u)
  <2>1. ASSUME NEW call \in Calls, Write(t, call)
        PROVE  /\ \A u \in Threads : Busy(u) => wr'[u] = wr[u] /\ db'.queue # <<>> /\ Head(db'.queue) = u
               /\ \A u \in Threads : wr'[u].pc \in {"logged", "inserted"} => Busy(u)
    <3>1. wr[t].pc = "idle" /\ Enqueue(t, call.batch, call.sync)
      BY <2>1 DEF Write
    <3>2. PICK b, s : b = call.batch /\ s = call.sync
      OBVIOUS
    <3>3. Enqueue(t, b, s)
      BY <3>1, <3>2 DEF Enqueue
    <3>4. QED BY <3>1, <3>3, JoinsQueue
  <2>2. CASE WriteFails(t)
    <3>1. AtHead(t) /\ Leave(db, wr, <<t>>) /\ <<t>> \in Seq(Threads)
      BY <2>2 DEF WriteFails
    <3>2. \A u \in Threads : ~Busy(u)
      BY <3>1, HeadFree
    <3>3. PICK d, g : d = db /\ g = <<t>>
      OBVIOUS
    <3>4. Leave(d, wr, g)
      BY <3>1, <3>3 DEF Leave
    <3>5. QED BY <1>2, <3>1, <3>2, <3>3, <3>4, LeavesQueue
  <2>3. CASE WriteDelayed(t)
    <3>1. \A u \in Threads : ~Busy(u)
      BY <2>3, HeadFree DEF WriteDelayed
    <3>2. wr' = [wr EXCEPT ![t].pc = "delayed"]
      BY <2>3 DEF WriteDelayed
    <3>3. \A u \in Threads : wr'[u].pc = IF u = t THEN "delayed" ELSE wr[u].pc
      BY <1>2, <3>2 DEF WriterType
    <3>4. QED BY <3>1, <3>3 DEF Busy
  <2>4. CASE WriteWaits(t)
    <3>1. \A u \in Threads : ~Busy(u)
      BY <2>4, HeadFree DEF WriteWaits
    <3>2. wr' = wr
      BY <2>4 DEF WriteWaits
    <3>3. QED BY <3>1, <3>2 DEF Busy
  <2>5. QED BY <2>1, <2>2, <2>3, <2>4
<1>5. vs'.next \in Nat /\ vs.next <= vs'.next
  BY <1>1, <1>2
<1>6. QED BY <1>1, <1>3, <1>4, <1>5, SameFiles

\* Nobody's place in the queue or in Write changes.
LEMMA SameWriters ==
  ASSUME Lasting, wr' = wr, db'.queue = db.queue
  PROVE  /\ \A u \in Threads : Busy(u) => wr'[u] = wr[u] /\ db'.queue # <<>> /\ Head(db'.queue) = u
         /\ \A u \in Threads : wr'[u].pc \in {"logged", "inserted"} => Busy(u)
BY DEF Lasting, Leading, Busy

\* Reads and snapshots.
LEMMA ReadingLasts ==
  ASSUME Inv, Lasting, (\E r \in Readers : BeginRead(r) \/ EndRead(r)) \/ GetSnapshot \/ ReleaseSnapshot
  PROVE  Lasts
<1>1. db.phase = "open" /\ bg' = bg /\ disk' = disk /\ wr' = wr /\ hist' = hist /\ synced' = synced
  BY DEF BeginRead, EndRead, GetSnapshot, ReleaseSnapshot, IsOpen, Inv, Quiet
<1>2. db \in DBType /\ vs \in VSType /\ vs.next \in Nat
  BY DEF Inv, Typed, VSType
<1>3. \/ vs' = vs /\ db' = db
      \/ \E c : vs' = [vs EXCEPT !.seek = c] /\ db' = MaybeSchedule(db, [vs EXCEPT !.seek = c])
  BY DEF BeginRead, EndRead, GetSnapshot, ReleaseSnapshot
<1>4. vs'.next = vs.next /\ vs'.man = vs.man /\ vs'.last = vs.last /\ vs'.log = vs.log
  BY <1>2, <1>3 DEF VSType
<1>5. db' = db \/ \E v : db' = MaybeSchedule(db, v)
  BY <1>3
<1>6. db'.phase = "open" /\ db'.mem = db.mem /\ db'.err = db.err /\ db'.queue = db.queue
  BY <1>1, <1>2, <1>5, ScheduleFacts
<1>7. vs'.next \in Nat /\ vs.next <= vs'.next
  BY <1>2, <1>4
<1>8. QED BY <1>1, <1>4, <1>6, <1>7, SameWriters, SameFiles

\* A background call that has nothing to do.
LEMMA NothingToDoLasts ==
  ASSUME Inv, Lasting, CallRefused \/ NothingToCompact
  PROVE  Lasts
<1> DEFINE d == [db EXCEPT !.manual = FALSE]
<1>1. /\ db.phase = "open" /\ bg' = bg /\ disk' = disk /\ vs' = vs /\ wr' = wr /\ hist' = hist /\ synced' = synced
      /\ db' = EndCall(db, vs) \/ db' = EndCall(d, vs)
  BY DEF CallRefused, NothingToCompact, CallBegins
<1>2. db \in DBType /\ vs.next \in Nat
  BY DEF Inv, Typed, VSType
<1>3. d \in DBType /\ d.phase = db.phase /\ d.mem = db.mem /\ d.err = db.err /\ d.queue = db.queue
  BY <1>2 DEF DBType
<1> HIDE DEF d
<1>4. db'.phase = "open" /\ db'.mem = db.mem /\ db'.err = db.err /\ db'.queue = db.queue
  BY <1>1, <1>2, <1>3, EndCallFacts
<1>5. vs'.next \in Nat /\ vs.next <= vs'.next
  BY <1>1, <1>2
<1>6. QED BY <1>1, <1>4, <1>5, SameWriters, SameFiles

\* The thread in CompactRange, and the one closing the database until the
\* background call is over.
LEMMA CallersLast ==
  ASSUME Inv, Lasting, BeginCompactRange \/ MemTableCompacted \/ CompactLevel \/ BeginClose \/ WaitToClose
  PROVE  Lasts
<1> DEFINE d == [db EXCEPT !.manual = TRUE]
<1>1. db.phase = "open" /\ bg' = bg /\ disk' = disk /\ vs' = vs /\ hist' = hist /\ synced' = synced
  BY DEF BeginCompactRange, MemTableCompacted, CompactLevel, BeginClose, WaitToClose, IsOpen, Awake, Inv, Quiet
<1>2. db \in DBType /\ vs.next \in Nat
  BY DEF Inv, Typed, VSType
<1>3. vs'.next \in Nat /\ vs.next <= vs'.next
  BY <1>1, <1>2
<1>4. CASE BeginCompactRange
  <2>1. wr[Compactor].pc = "idle" /\ Enqueue(Compactor, <<>>, FALSE) /\ Compactor \in Threads
    BY <1>4 DEF BeginCompactRange, Threads
  <2>2. PICK t, b, s : t = Compactor /\ b = <<>> /\ s = FALSE
    OBVIOUS
  <2>3. t \in Threads /\ wr[t].pc = "idle" /\ Enqueue(t, b, s)
    BY <2>1, <2>2 DEF Enqueue
  <2>4. \E q : db' = [db EXCEPT !.queue = q]
    BY <2>3 DEF Enqueue
  <2>5. db'.phase = "open" /\ db'.mem = db.mem /\ db'.err = db.err
    BY <1>1, <1>2, <2>4 DEF DBType
  <2>6. /\ \A u \in Threads : Busy(u) => wr'[u] = wr[u] /\ db'.queue # <<>> /\ Head(db'.queue) = u
        /\ \A u \in Threads : wr'[u].pc \in {"logged", "inserted"} => Busy(u)
    BY <2>3, JoinsQueue
  <2>7. QED BY <1>1, <1>3, <2>5, <2>6, SameFiles
<1>5. CASE MemTableCompacted \/ CompactLevel \/ BeginClose \/ WaitToClose
  <2>1. /\ wr' = wr
        /\ \/ db' = db \/ db' = [db EXCEPT !.manual = FALSE] \/ db' = MaybeSchedule(d, vs) \/ db' = [db EXCEPT !.shut = TRUE]
           \/ \E s : db' = [db EXCEPT !.waiting = s]
    BY <1>5 DEF MemTableCompacted, CompactLevel, BeginClose, WaitToClose
  <2>2. d \in DBType /\ d.phase = db.phase /\ d.mem = db.mem /\ d.err = db.err /\ d.queue = db.queue
    BY <1>2 DEF DBType
  <2> HIDE DEF d
  <2>3. db'.phase = "open" /\ db'.mem = db.mem /\ db'.err = db.err /\ db'.queue = db.queue
    <3>1. CASE db' = MaybeSchedule(d, vs)
      BY <1>1, <2>2, <3>1, ScheduleFacts
    <3>2. CASE db' # MaybeSchedule(d, vs)
      BY <1>1, <1>2, <2>1, <3>2 DEF DBType
    <3>3. QED BY <3>1, <3>2
  <2>4. QED BY <1>1, <1>3, <2>1, <2>3, SameWriters, SameFiles
<1>6. QED BY <1>4, <1>5

-----------------------------------------------------------------------------
(* What a crash leaves of a manifest, and what a manifest says.              *)

\* A file whose records are a prefix of another's, and at least as durable.
LEMMA CutsPrefix ==
  ASSUME NEW R, NEW f \in FileOf(R), NEW g \in FileOf(R), NEW n \in CutPoints(f),
         g.recs = SubSeq(f.recs, 1, n), f.sync <= g.sync
  PROVE  Cuts(g) \subseteq Cuts(f)
<1>1. f.recs \in Seq(R) /\ f.sync \in Nat /\ Len(f.recs) \in Nat /\ g.sync \in Nat
  BY LenProperties DEF FileOf
<1>2. n \in 0 .. Len(f.recs)
  BY <1>1 DEF CutPoints
<1>3. Len(g.recs) = n
  BY <1>1, <1>2, PrefixFacts
<1>4. SUFFICES ASSUME NEW m \in CutPoints(g), m > 0 PROVE SubSeq(g.recs, 1, m) \in Cuts(f)
  BY DEF Cuts
<1>5. m \in 0 .. n /\ m \in CutPoints(f)
  BY <1>1, <1>2, <1>3 DEF CutPoints
<1>6. SubSeq(g.recs, 1, m) = SubSeq(f.recs, 1, m)
  BY <1>1, <1>2, <1>5, PrefixOfPrefix
<1>7. QED BY <1>4, <1>5, <1>6 DEF Cuts

\* All of a file that has records is one of its cuts; of a synced file nothing
\* else is.
LEMMA CutsWhole ==
  ASSUME NEW R, NEW f \in FileOf(R), f.sync <= Len(f.recs)
  PROVE  /\ Len(f.recs) > 0 => f.recs \in Cuts(f)
         /\ f.sync = Len(f.recs) => Cuts(f) \subseteq {f.recs}
         /\ Cuts(f) \subseteq Seq(R)
<1>1. f.recs \in Seq(R) /\ f.sync \in Nat /\ Len(f.recs) \in Nat
  BY LenProperties DEF FileOf
<1>2. SubSeq(f.recs, 1, Len(f.recs)) = f.recs /\ Len(f.recs) \in CutPoints(f)
  BY <1>1, SubSeqFull DEF CutPoints
<1>3. f.sync = Len(f.recs) => \A m \in CutPoints(f) : m = Len(f.recs)
  BY <1>1 DEF CutPoints
<1>4. \A m \in CutPoints(f) : m \in 0 .. Len(f.recs)
  BY <1>1 DEF CutPoints
<1>5. \A m \in CutPoints(f) : SubSeq(f.recs, 1, m) \in Seq(R)
  BY <1>1, <1>4, PrefixFacts
<1>6. QED BY <1>2, <1>3, <1>5 DEF Cuts

\* A Sync, a crash and a record taken back leave no new cuts.
LEMMA CutsStay ==
  ASSUME NEW R, NEW f \in FileOf(R), f.sync <= Len(f.recs)
  PROVE  /\ f.bad = {} => Cuts(Synced(f)) \subseteq {f.recs}
         /\ Cuts(Synced(f)) \subseteq Cuts(f)
         /\ \A n \in CutPoints(f) : Cuts(CutAt(f, n)) \subseteq {CutAt(f, n).recs} /\ Cuts(CutAt(f, n)) \subseteq Cuts(f)
         /\ f.sync < Len(f.recs) => Cuts(Torn(f)) \subseteq Cuts(f)
<1>1. f.recs \in Seq(R) /\ f.sync \in Nat /\ Len(f.recs) \in Nat
  BY FileParts
<1>2. (f.bad = {} => Cuts(Synced(f)) \subseteq {f.recs}) /\ Cuts(Synced(f)) \subseteq Cuts(f)
  <2>1. Synced(f) \in FileOf(R)
    BY FileFacts
  <2>2. Synced(f).sync = (IF f.bad = {} THEN Len(f.recs) ELSE f.sync) /\ Synced(f).recs = f.recs
    BY FileParts
  <2>3. SubSeq(f.recs, 1, Len(f.recs)) = f.recs /\ Len(f.recs) \in CutPoints(f)
    BY <1>1, SubSeqFull DEF CutPoints
  <2>4. f.sync <= Synced(f).sync /\ Synced(f).sync <= Len(Synced(f).recs)
    BY <1>1, <2>2
  <2>5. Cuts(Synced(f)) \subseteq Cuts(f)
    BY <2>1, <2>2, <2>3, <2>4, CutsPrefix
  <2>6. f.bad = {} => Synced(f).sync = Len(Synced(f).recs)
    BY <2>2
  <2>7. f.bad = {} => Cuts(Synced(f)) \subseteq {Synced(f).recs}
    BY <2>1, <2>4, <2>6, CutsWhole
  <2>8. QED BY <2>2, <2>5, <2>7
<1>3. ASSUME NEW n \in CutPoints(f)
      PROVE  Cuts(CutAt(f, n)) \subseteq {CutAt(f, n).recs} /\ Cuts(CutAt(f, n)) \subseteq Cuts(f)
  <2>1. /\ CutAt(f, n) \in FileOf(R) /\ CutAt(f, n).sync = n /\ f.sync <= n /\ Len(CutAt(f, n).recs) = n
        /\ CutAt(f, n).recs = SubSeq(f.recs, 1, n)
    BY CutFacts
  <2>2. Cuts(CutAt(f, n)) \subseteq Cuts(f)
    BY <2>1, CutsPrefix
  <2>3. n <= n
    BY <1>1 DEF CutPoints
  <2>4. QED BY <2>1, <2>2, <2>3, CutsWhole
<1>4. ASSUME f.sync < Len(f.recs) PROVE Cuts(Torn(f)) \subseteq Cuts(f)
  <2> DEFINE n == Len(f.recs) - 1
  <2>1. n \in CutPoints(f) /\ n \in 0 .. Len(f.recs)
    BY <1>1, <1>4 DEF CutPoints
  <2>2. Front(f.recs) = SubSeq(f.recs, 1, n)
    BY DEF Front
  <2> HIDE DEF n
  <2>3. Front(f.recs) \in Seq(R)
    BY <1>1, <2>1, <2>2, PrefixFacts
  <2>4. Torn(f) \in FileOf(R) /\ Torn(f).recs = SubSeq(f.recs, 1, n) /\ Torn(f).sync = f.sync
    BY <2>2, <2>3, TornFacts
  <2>5. f.sync <= Torn(f).sync
    BY <1>1, <2>4
  <2>6. QED BY <2>1, <2>4, <2>5, CutsPrefix
<1>5. QED BY <1>2, <1>3, <1>4

\* One more record is one more cut: all of the file.
LEMMA CutsAppend ==
  ASSUME NEW R, NEW f \in FileOf(R), f.sync <= Len(f.recs), NEW e \in R, NEW g, Grows(f, e, g)
  PROVE  Cuts(g) \subseteq Cuts(f) \cup {Append(f.recs, e)}
<1>1. f.recs \in Seq(R) /\ f.sync \in Nat /\ Len(f.recs) \in Nat
  BY FileParts
<1>2. g.sync = f.sync /\ g.recs = Append(f.recs, e)
  BY DEF Grows
<1>3. Len(Append(f.recs, e)) = Len(f.recs) + 1
  BY <1>1, AppendProperties
<1>4. SUFFICES ASSUME NEW m \in CutPoints(g), m > 0
               PROVE  SubSeq(g.recs, 1, m) \in Cuts(f) \cup {Append(f.recs, e)}
  BY DEF Cuts
<1>5. m \in f.sync .. Len(f.recs) + 1
  BY <1>2, <1>3 DEF CutPoints
<1>6. CASE m = Len(f.recs) + 1
  BY <1>1, <1>2, <1>6, PrefixOfAppend
<1>7. CASE m # Len(f.recs) + 1
  <2>1. m \in CutPoints(f) /\ m \in 0 .. Len(f.recs)
    BY <1>1, <1>5, <1>7 DEF CutPoints
  <2>2. SubSeq(Append(f.recs, e), 1, m) = SubSeq(f.recs, 1, m)
    BY <1>1, <2>1, PrefixOfAppend
  <2>3. QED BY <1>2, <1>4, <2>1, <2>2 DEF Cuts
<1>8. QED BY <1>6, <1>7

\* A field of a manifest is what its last edit says, if it says anything.
LEMMA ManifestFieldLast ==
  ASSUME NEW recs \in Seq(EditType), Len(recs) > 0, NEW field, recs[Len(recs)][field] # None
  PROVE  ManifestField(recs, field) = recs[Len(recs)][field]
<1> DEFINE S == {i \in DOMAIN recs : recs[i][field] # None}
<1>1. Len(recs) \in Nat /\ DOMAIN recs = 1 .. Len(recs)
  BY LenProperties
<1>2. S \in SUBSET (1 .. Len(recs)) /\ Len(recs) \in S
  BY <1>1
<1>3. Max(S) \in S /\ \A i \in S : i <= Max(S)
  <2> HIDE DEF S
  <2> QED BY <1>1, <1>2, LastPosition
<1>4. Max(S) = Len(recs)
  <2>1. Max(S) \in 1 .. Len(recs) /\ Len(recs) <= Max(S)
    BY <1>2, <1>3
  <2> HIDE DEF S
  <2> QED BY <1>1, <2>1
<1>5. ManifestField(recs, field) = IF S = {} THEN None ELSE recs[Max(S)][field]
  BY DEF ManifestField
<1>6. QED BY <1>2, <1>4, <1>5

-----------------------------------------------------------------------------
(* New logs and new records.                                                 *)

HasNewLog(more, logs, n) == n \notin DOMAIN logs /\ more = With(logs, n, NewFile(<<>>))

\* A new log is empty: the groups in the logs stay the same.
LEMMA NewLog ==
  ASSUME NEW logs, NEW n, NEW more, HasNewLog(more, logs, n)
  PROVE  /\ DOMAIN more = DOMAIN logs \cup {n} /\ more[n].recs = <<>> /\ more[n].bad = {}
         /\ \A m \in DOMAIN logs : more[m] = logs[m]
         /\ PartOf(more, logs) /\ PartOf(logs, more)
<1>1. DOMAIN more = DOMAIN logs \cup {n} /\ more[n] = NewFile(<<>>) /\ \A m \in DOMAIN logs : more[m] = logs[m]
  BY DEF HasNewLog, With
<1>2. more[n].recs = <<>> /\ DOMAIN more[n].recs = {} /\ more[n].bad = {}
  BY <1>1 DEF NewFile
<1>3. PartOf(more, logs)
  BY <1>1, <1>2 DEF PartOf
<1>4. PartOf(logs, more)
  BY <1>1 DEF PartOf
<1>5. QED BY <1>1, <1>2, <1>3, <1>4

LogGets(more, logs, n, g) ==
  /\ IsDir(logs, Groups) /\ n \in DOMAIN logs /\ g \in Groups
  /\ \E f : Grows(logs[n], g, f) /\ more = [logs EXCEPT ![n] = f]

\* A group is appended to a log.
LEMMA LogGrows ==
  ASSUME NEW logs, NEW n, NEW g, NEW more, LogGets(more, logs, n, g)
  PROVE  /\ DOMAIN more = DOMAIN logs /\ \A m \in DOMAIN logs : m # n => more[m] = logs[m]
         /\ Grows(logs[n], g, more[n]) /\ more[n].sync = logs[n].sync /\ logs[n].recs \in Seq(Groups)
         /\ DOMAIN logs[n].recs = 1 .. Len(logs[n].recs) /\ Len(logs[n].recs) \in Nat
         /\ DOMAIN more[n].recs = 1 .. Len(logs[n].recs) + 1 /\ Len(more[n].recs) = Len(logs[n].recs) + 1
         /\ \A i \in 1 .. Len(logs[n].recs) : more[n].recs[i] = logs[n].recs[i]
         /\ more[n].recs[Len(logs[n].recs) + 1] = g
         /\ PartOf(logs, more)
<1>1. logs[n].recs \in Seq(Groups) /\ Len(logs[n].recs) \in Nat /\ DOMAIN logs[n].recs = 1 .. Len(logs[n].recs)
  BY LenProperties DEF LogGets, IsDir, FileOf
<1>2. /\ DOMAIN more = DOMAIN logs /\ Grows(logs[n], g, more[n]) /\ n \in DOMAIN logs /\ g \in Groups
      /\ \A m \in DOMAIN logs : m # n => more[m] = logs[m]
  BY DEF LogGets
<1>3. more[n].sync = logs[n].sync /\ more[n].recs = Append(logs[n].recs, g)
  BY <1>2 DEF Grows
<1>4. /\ DOMAIN more[n].recs = 1 .. Len(logs[n].recs) + 1 /\ Len(more[n].recs) = Len(logs[n].recs) + 1
      /\ \A i \in 1 .. Len(logs[n].recs) : more[n].recs[i] = logs[n].recs[i]
      /\ more[n].recs[Len(logs[n].recs) + 1] = g
  BY <1>1, <1>3, AppendProperties
<1>5. \A m \in DOMAIN logs : \A i \in DOMAIN logs[m].recs : i \in DOMAIN more[m].recs /\ more[m].recs[i] = logs[m].recs[i]
  <2>1. \A i \in 1 .. Len(logs[n].recs) : i \in 1 .. Len(logs[n].recs) + 1
    BY <1>1
  <2>2. QED BY <1>1, <1>2, <1>4, <2>1
<1>6. PartOf(logs, more)
  BY <1>2, <1>5 DEF PartOf
<1>7. QED BY <1>1, <1>2, <1>3, <1>4, <1>6

\* The logs then hold that group more.
LEMMA LoggedMore ==
  ASSUME NEW logs, NEW n, NEW g, NEW more, LogGets(more, logs, n, g), NEW k
  PROVE  /\ LoggedFrom(more, k) \subseteq LoggedFrom(logs, k) \cup {g}
         /\ LoggedFrom(logs, k) \subseteq LoggedFrom(more, k)
         /\ n >= k => g \in LoggedFrom(more, k)
<1>1. /\ n \in DOMAIN logs /\ DOMAIN more = DOMAIN logs /\ \A m \in DOMAIN logs : m # n => more[m] = logs[m]
      /\ PartOf(logs, more)
  BY LogGrows DEF LogGets
<1>2. /\ DOMAIN logs[n].recs = 1 .. Len(logs[n].recs) /\ Len(logs[n].recs) \in Nat
      /\ DOMAIN more[n].recs = 1 .. Len(logs[n].recs) + 1
      /\ \A i \in 1 .. Len(logs[n].recs) : more[n].recs[i] = logs[n].recs[i]
      /\ more[n].recs[Len(logs[n].recs) + 1] = g
  BY LogGrows
<1>3. ASSUME NEW x \in LoggedFrom(more, k) PROVE x \in LoggedFrom(logs, k) \cup {g}
  <2>1. PICK m \in DOMAIN more : m >= k /\ \E i \in DOMAIN more[m].recs : more[m].recs[i] = x
    BY DEF LoggedFrom, Range
  <2>2. PICK i \in DOMAIN more[m].recs : more[m].recs[i] = x
    BY <2>1
  <2>3. CASE m # n
    BY <1>1, <2>1, <2>2, <2>3, InLogs
  <2>4. CASE m = n /\ i = Len(logs[n].recs) + 1
    BY <1>2, <2>2, <2>4
  <2>5. CASE m = n /\ i # Len(logs[n].recs) + 1
    <3>1. i \in 1 .. Len(logs[n].recs)
      BY <1>2, <2>2, <2>5
    <3>2. logs[n].recs[i] = x /\ i \in DOMAIN logs[n].recs
      BY <1>2, <2>2, <2>5, <3>1
    <3>3. QED BY <1>1, <2>1, <2>5, <3>2, InLogs
  <2>6. QED BY <2>3, <2>4, <2>5
<1>4. ASSUME n >= k PROVE g \in LoggedFrom(more, k)
  <2>1. Len(logs[n].recs) + 1 \in DOMAIN more[n].recs
    BY <1>2
  <2>2. n \in DOMAIN more /\ n >= k /\ \E i \in DOMAIN more[n].recs : more[n].recs[i] = g
    BY <1>1, <1>2, <1>4, <2>1
  <2>3. QED BY <2>2, InLogs, Zenon
<1>5. LoggedFrom(logs, k) \subseteq LoggedFrom(more, k)
  BY <1>1, PartLogged
<1>6. QED BY <1>3, <1>4, <1>5

-----------------------------------------------------------------------------
(* Facts about the state.                                                    *)

\* The manifest CURRENT names gives every number, however it is cut.
LEMMA CurrentManifest ==
  ASSUME Inv, Safe, disk.cur # 0
  PROVE  /\ disk.cur \in DOMAIN disk.man /\ disk.man[disk.cur] \in FileOf(EditType)
         /\ disk.man[disk.cur].sync <= Len(disk.man[disk.cur].recs)
         /\ \A recs \in Cuts(disk.man[disk.cur]) :
              /\ recs \in Seq(EditType) /\ ManifestField(recs, "log") \in Nat
              /\ ManifestField(recs, "next") \in Nat /\ ManifestField(recs, "last") \in Nat
<1> DEFINE f == disk.man[disk.cur]
<1>1. disk.cur \in DOMAIN disk.man /\ Durable(f, disk.cur, DOMAIN disk.tab)
  BY DEF Safe, ManifestSafe
<1>2. f \in FileOf(EditType)
  BY <1>1 DEF Inv, Typed, IsDisk, IsDir
<1> HIDE DEF f
<1>3. f.sync <= Len(f.recs)
  BY <1>1 DEF Durable
<1>4. ASSUME NEW recs \in Cuts(f)
      PROVE  /\ recs \in Seq(EditType) /\ ManifestField(recs, "log") \in Nat
             /\ ManifestField(recs, "next") \in Nat /\ ManifestField(recs, "last") \in Nat
  <2>1. recs \in Seq(EditType)
    BY <1>2, <1>3, CutsWhole
  <2>2. Complete(recs, disk.cur, DOMAIN disk.tab)
    BY <1>1, <1>4 DEF Durable, Cuts, CutPoints
  <2>3. QED BY <2>1, <2>2, ManifestFieldType DEF Complete, OptNat
<1>5. QED BY <1>1, <1>2, <1>3, <1>4 DEF f

\* The abstract store stays when what its clients see does.
LEMMA SameStore ==
  ASSUME hist' = hist, synced' = synced, vs'.last = vs.last, (db'.phase = "open") = (db.phase = "open")
  PROVE  StoreStep
<1>1. Visible' = Visible
  BY DEF Visible
<1>2. UNCHANGED Store!store
  BY <1>1 DEF Store!store
<1>3. QED BY <1>2 DEF StoreStep

\* A database that is not open has no writer past the log, and the store has
\* everything that a reader finds in the logs.
LEMMA NotOpenFacts ==
  ASSUME Inv, Lasting, db.phase # "open"
  PROVE  /\ \A t \in Threads : ~Busy(t)
         /\ \A n \in DOMAIN disk.log : Readable(disk.log[n]) \subseteq hist
<1>1. \A t \in Threads : wr[t].pc = "idle"
  BY DEF Inv, Quiet, IdleWriter
<1>2. \A t \in Threads : ~Busy(t)
  BY <1>1 DEF Busy
<1>3. \A n \in DOMAIN disk.log : Readable(disk.log[n]) \subseteq hist
  BY DEF Lasting, LogsKnown
<1>4. QED BY <1>2, <1>3

-----------------------------------------------------------------------------
(* The write path.                                                           *)

\* The full memtable makes way and a new log is begun.
LEMMA SwitchMemTableLasts ==
  ASSUME Inv, Safe, Lasting, NEW t \in Threads, SwitchMemTable(t)
  PROVE  Lasts
<1> DEFINE n == vs.next
           d == [db EXCEPT !.imm = db.mem, !.mem = n]
           v == [vs EXCEPT !.next = n + 1]
           lg == With(disk.log, n, NewFile(<<>>))
<1>1. /\ AtHead(t) /\ db.phase = "open" /\ ~db.err
      /\ bg' = bg /\ hist' = hist /\ synced' = synced
  BY DEF SwitchMemTable, AtHead
<1>2. db \in DBType /\ vs \in VSType /\ vs.next \in Nat /\ wr \in [Threads -> WriterType] /\ db.mem \in Nat
  BY DEF Inv, Typed, VSType, DBType
<1>3. \A u \in Threads : ~Busy(u)
  BY <1>1, HeadFree
<1>4. CASE Leave(db, wr, <<t>>) /\ vs' = vs /\ disk' = disk
  <2>1. PICK x, g : x = db /\ g = <<t>>
    OBVIOUS
  <2>2. <<t>> \in Seq(Threads)
    OBVIOUS
  <2>3. Leave(x, wr, g) /\ x \in DBType /\ g \in Seq(Threads)
    BY <1>2, <1>4, <2>1, <2>2 DEF Leave
  <2>4. db'.phase = "open" /\ db'.mem = db.mem /\ db'.err = db.err
    BY <1>1, <1>2, <2>1, <2>3, LeaveFacts
  <2>5. \A u \in Threads : wr'[u].pc \notin {"logged", "inserted"}
    BY <1>3, <2>3, LeavesQueue
  <2>6. vs'.next \in Nat /\ vs.next <= vs'.next
    BY <1>2, <1>4
  <2>7. QED BY <1>1, <1>3, <1>4, <2>4, <2>5, <2>6, SameFiles
<1>5. CASE /\ vs' = v /\ disk' = [disk EXCEPT !.log = lg]
           /\ \/ Leave(MaybeSchedule(d, v), wr, <<t>>)
              \/ db' = MaybeSchedule(d, v) /\ wr' = wr
  <2>1. /\ d \in DBType /\ d.phase = "open" /\ d.mem = n /\ d.err = db.err /\ d.queue = db.queue
        /\ v.next = n + 1 /\ v.last = vs.last /\ v.log = vs.log /\ v.man = vs.man
    BY <1>1, <1>2 DEF DBType, VSType
  <2> HIDE DEF d, v, lg
  <2>2. PICK x : x = MaybeSchedule(d, v)
    OBVIOUS
  <2>3. x \in DBType /\ x.phase = "open" /\ x.mem = n /\ x.err = db.err
    BY <2>1, <2>2, ScheduleFacts
  <2>4. /\ db'.phase = "open" /\ db'.mem = n /\ db'.err = db.err
        /\ \A u \in Threads : wr'[u].pc \notin {"logged", "inserted"}
    <3>1. CASE Leave(MaybeSchedule(d, v), wr, <<t>>)
      <4>1. PICK g : g = <<t>>
        OBVIOUS
      <4>2. <<t>> \in Seq(Threads)
        OBVIOUS
      <4>3. Leave(x, wr, g) /\ g \in Seq(Threads)
        BY <2>2, <3>1, <4>1, <4>2 DEF Leave
      <4>4. db'.phase = "open" /\ db'.mem = n /\ db'.err = db.err
        BY <1>2, <2>3, <4>3, LeaveFacts
      <4>5. QED BY <1>3, <2>3, <4>3, <4>4, LeavesQueue
    <3>2. CASE db' = MaybeSchedule(d, v) /\ wr' = wr
      BY <1>3, <2>2, <2>3, <3>2 DEF Busy
    <3>3. QED BY <1>5, <3>1, <3>2
  <2>5. disk'.log = lg /\ disk'.man = disk.man /\ disk'.cur = disk.cur
    BY <1>5 DEF Inv, Typed, IsDisk
  <2>6. /\ db.mem \in DOMAIN disk.log /\ (\A m \in DOMAIN disk.log : m \in Nat /\ m < n) /\ vs.log <= db.mem /\ vs.log \in Nat
        /\ n \notin DOMAIN disk.log /\ db.mem < n
    BY <1>1, <1>2 DEF Lasting, LogNumbers, Inv, Typed, IsDisk, IsDir, VSType
  <2>7. /\ DOMAIN lg = DOMAIN disk.log \cup {n} /\ lg[n].recs = <<>> /\ lg[n].bad = {}
        /\ \A m \in DOMAIN disk.log : lg[m] = disk.log[m]
        /\ PartOf(lg, disk.log) /\ \A k : LoggedFrom(lg, k) = LoggedFrom(disk.log, k)
    <3>1. HasNewLog(lg, disk.log, n)
      BY <2>6 DEF lg, HasNewLog
    <3> HIDE DEF n
    <3>2. DOMAIN lg = DOMAIN disk.log \cup {n}
      BY <3>1, NewLog
    <3>3. lg[n].recs = <<>>
      BY <3>1 DEF HasNewLog, With, NewFile
    <3>4. lg[n].bad = {}
      BY <3>1 DEF HasNewLog, With, NewFile
    <3>5. \A m \in DOMAIN disk.log : lg[m] = disk.log[m]
      BY <3>1 DEF HasNewLog, With
    <3>6. PartOf(lg, disk.log) /\ PartOf(disk.log, lg)
      BY <3>1, NewLog
    <3>7. \A k : LoggedFrom(lg, k) = LoggedFrom(disk.log, k)
      BY <3>6, SameLogged
    <3>8. QED BY <3>2, <3>3, <3>4, <3>5, <3>6, <3>7
  <2> HIDE DEF n
  <2>8. Distinct(hist, disk.log)'
    <3>1. Distinct(hist, lg)
      BY <2>7, FewerDistinct DEF Lasting
    <3>2. QED BY <1>1, <2>5, <3>1 DEF Distinct, LoggedFrom, Apart
  <2>9. LogsKnown'
    <3>1. SUFFICES ASSUME NEW m \in DOMAIN lg, NEW g \in Range(lg[m].recs) PROVE g \in hist
      BY <1>1, <2>4, <2>5 DEF LogsKnown
    <3>2. m \in DOMAIN disk.log /\ g \in Range(disk.log[m].recs)
      BY <2>7, <3>1 DEF Range
    <3>3. QED BY <1>1, <1>3, <3>2 DEF Lasting, LogsKnown, Busy
  <2>10. Covered'
    <3>1. SUFFICES ASSUME disk.cur # 0, NEW recs \in Cuts(disk.man[disk.cur])
                   PROVE  Covers(recs, hist, lg) /\ ManifestField(recs, "log") <= n
      <4>1. Cuts(disk.man[disk.cur])' = Cuts(disk.man[disk.cur])
        BY <2>5 DEF Cuts, CutPoints
      <4>2. QED BY <1>1, <2>4, <2>5, <4>1 DEF Covered, Covers, LoggedFrom, UpToSeq
    <3>2. Covers(recs, hist, disk.log) /\ ManifestField(recs, "log") <= db.mem
      BY <1>1, <3>1 DEF Lasting, Covered
    <3>3. Covers(recs, hist, lg)
      BY <2>7, <3>2 DEF Covers
    <3>4. ManifestField(recs, "log") <= n
      <4>1. ManifestField(recs, "log") \in Nat /\ n \in Nat
        BY <1>2, <3>1, CurrentManifest DEF n
      <4>2. QED BY <1>2, <2>6, <3>2, <4>1
    <3>5. QED BY <3>3, <3>4
  <2>11. LogNumbers'
    <3>1. \A m \in DOMAIN lg : m < n + 1
      BY <1>2, <2>6, <2>7 DEF n
    <3>2. n \in DOMAIN lg /\ vs.log <= n
      BY <1>2, <2>6, <2>7 DEF n
    <3>3. QED BY <1>5, <2>1, <2>4, <2>5, <3>1, <3>2 DEF LogNumbers
  <2>12. LastCovers'
    <3>1. \A g \in hist \cup LoggedFrom(lg, 0) : UpToSeq(g, vs.last)
      BY <1>1, <1>3, <2>7 DEF Lasting, LastCovers
    <3>2. vs'.last = vs.last
      BY <1>5, <2>1
    <3>3. LoggedFrom(disk.log, 0)' = LoggedFrom(lg, 0)
      BY <2>5 DEF LoggedFrom
    <3>4. QED BY <1>1, <2>4, <3>1, <3>2, <3>3 DEF LastCovers, UpToSeq
  <2>13. Leading'
    BY <2>4 DEF Leading, Busy
  <2>14. SyncedKept'
    <3>1. ASSUME NEW m \in DOMAIN lg, NEW i \in DOMAIN lg[m].recs, lg[m].recs[i] \in synced
          PROVE  i <= lg[m].sync /\ i \notin lg[m].bad
      <4>1. m \in DOMAIN disk.log /\ lg[m] = disk.log[m]
        BY <2>7
      <4>2. QED BY <3>1, <4>1 DEF Lasting, SyncedKept
    <3>2. synced \subseteq hist
      BY DEF Lasting, SyncedKept
    <3>3. QED BY <1>1, <2>5, <3>1, <3>2 DEF SyncedKept
  <2>15. EditWrittenLast'
    <3>1. vs'.man = vs.man
      BY <1>5, <2>1
    <3>2. bg.edit.log \in Nat
      BY DEF Inv, Typed, BGType, FilledEdit
    <3>3. n \in Nat
      BY <1>2 DEF n
    <3>4. QED BY <1>1, <1>2, <2>4, <2>5, <2>6, <3>1, <3>2, <3>3 DEF Lasting, EditWrittenLast
  <2>16. StoreStep
    <3>1. vs'.last = vs.last
      BY <1>5, <2>1
    <3>2. QED BY <1>1, <2>4, <3>1, SameStore
  <2>17. OutOfReach'
    <3>1. ASSUME NEW m \in DOMAIN lg, lg[m].bad # {} PROVE lg[m].torn = TRUE
      <4>1. m \in DOMAIN disk.log /\ lg[m] = disk.log[m]
        BY <2>7, <3>1
      <4>2. QED BY <3>1, <4>1 DEF Lasting, OutOfReach
    <3>2. QED BY <2>4, <2>5, <3>1 DEF OutOfReach
  <2>18. QED BY <2>8, <2>9, <2>10, <2>11, <2>12, <2>13, <2>14, <2>15, <2>16, <2>17 DEF Lasts, Lasting
<1>6. QED BY <1>4, <1>5 DEF SwitchMemTable

\* Sequence numbers in the store and in the logs are numbers.
LEMMA GroupsTyped ==
  ASSUME Inv, NEW g \in hist \cup LoggedFrom(disk.log, 0)
  PROVE  \A e \in g : e.s \in Nat
<1>1. hist \subseteq EntrySets
  BY DEF Inv, Typed
<1>2. \A n \in DOMAIN disk.log : disk.log[n].recs \in Seq(Groups)
  BY DEF Inv, Typed, IsDisk, IsDir, FileOf
<1>3. \A n \in DOMAIN disk.log : Range(disk.log[n].recs) \subseteq Groups
  BY <1>2, SeqElements
<1>4. g \in EntrySets
  BY <1>1, <1>3 DEF LoggedFrom, Groups
<1>5. QED BY <1>4 DEF EntrySets, EntryType

\* A group that is over, in whatever way, leaves nobody past the log.
LEMMA GroupOver ==
  ASSUME Inv, Lasting, db.phase = "open", db'.phase = "open", hist' = hist, bg' = bg,
         disk'.man = disk.man, disk'.cur = disk.cur, DOMAIN disk'.log = DOMAIN disk.log,
         \A n \in DOMAIN disk.log : disk'.log[n].recs = disk.log[n].recs,
         \A n \in DOMAIN disk.log : disk'.log[n].bad = disk.log[n].bad /\ (disk.log[n].torn = TRUE => disk'.log[n].torn = TRUE),
         db'.mem = db.mem, db.err = TRUE => db'.err = TRUE,
         vs'.last \in Nat, vs.last <= vs'.last, vs'.next = vs.next, vs'.log = vs.log, vs'.man = vs.man,
         \A u \in Threads : wr'[u].pc \notin {"logged", "inserted"},
         \A u \in Threads : Busy(u) => /\ UpToSeq(wr[u].ents, vs'.last)
                                       /\ wr[u].pc = "logged" => db'.err = TRUE,
         SyncedKept'
  PROVE  Lasting'
<1>1. /\ PartOf(disk'.log, disk.log) /\ PartOf(disk.log, disk'.log)
      /\ \A k : LoggedFrom(disk'.log, k) = LoggedFrom(disk.log, k)
  <2>1. PartOf(disk'.log, disk.log) /\ PartOf(disk.log, disk'.log)
    BY DEF PartOf
  <2>2. PICK lg : lg = disk'.log
    OBVIOUS
  <2>3. \A k : LoggedFrom(lg, k) = LoggedFrom(disk.log, k)
    BY <2>1, <2>2, SameLogged
  <2>4. QED BY <2>1, <2>2, <2>3
<1>2. Distinct(hist, disk.log)'
  <2>1. PICK lg : lg = disk'.log
    OBVIOUS
  <2>2. PartOf(lg, disk.log) /\ Distinct(hist, disk.log) /\ hist \subseteq hist \cup LoggedFrom(disk.log, 0)
    BY <1>1, <2>1 DEF Lasting
  <2>3. Distinct(hist, lg)
    BY ONLY <2>2, FewerDistinct
  <2>4. Distinct(hist', disk'.log)
    BY <2>1, <2>3
  <2>5. QED BY <2>4 DEF Distinct, LoggedFrom, Apart
<1>3. LogsKnown'
  BY DEF Lasting, LogsKnown, Busy
<1>4. LogNumbers'
  BY DEF Lasting, LogNumbers
<1>5. LastCovers'
  <2>1. ASSUME NEW g \in hist \cup LoggedFrom(disk.log, 0)
        PROVE  UpToSeq(g, vs'.last)
    <3>1. CASE UpToSeq(g, vs.last)
      <4>1. vs.last \in Nat /\ \A e \in g : e.s \in Nat
        BY GroupsTyped DEF Inv, Typed, VSType
      <4>2. QED BY <3>1, <4>1 DEF UpToSeq
    <3>2. CASE \E t \in Threads : Busy(t) /\ g = wr[t].ents
      BY <3>2
    <3>3. QED BY <3>1, <3>2 DEF Lasting, LastCovers
  <2>2. LoggedFrom(disk.log, 0)' = LoggedFrom(disk.log, 0)
    BY <1>1 DEF LoggedFrom
  <2>3. QED BY <2>1, <2>2 DEF LastCovers, UpToSeq
<1>6. Leading'
  BY DEF Leading, Busy
<1>7. Covered'
  <2>1. disk.cur # 0 => \A recs \in Cuts(disk.man[disk.cur]) :
          Covers(recs, hist, disk.log) /\ ManifestField(recs, "log") <= db.mem
    BY DEF Lasting, Covered
  <2>2. Cuts(disk.man[disk.cur])' = Cuts(disk.man[disk.cur])
    BY DEF Cuts, CutPoints
  <2>3. disk.cur # 0 => \A recs \in Cuts(disk.man[disk.cur]) : Covers(recs, hist, disk'.log)
    BY <1>1, <2>1 DEF Covers
  <2>4. QED BY <2>1, <2>2, <2>3 DEF Covered, Covers, LoggedFrom, UpToSeq
<1>8. EditWrittenLast'
  BY DEF Lasting, EditWrittenLast
<1>9. OutOfReach'
  BY DEF Lasting, OutOfReach
<1>10. QED BY <1>2, <1>3, <1>4, <1>5, <1>6, <1>7, <1>8, <1>9 DEF Lasting

\* When the store has nothing past vs.last, vs.last may grow.
LEMMA LastGrows ==
  ASSUME Inv, db.phase = "open", db'.phase = "open", hist' = hist, synced' = synced,
         vs'.last \in Nat, vs.last <= vs'.last, \A g \in hist : UpToSeq(g, vs.last)
  PROVE  StoreStep
<1>1. \A g \in hist : UpToSeq(g, vs'.last)
  <2>1. vs.last \in Nat /\ \A g \in hist : \A e \in g : e.s \in Nat
    BY GroupsTyped DEF Inv, Typed, VSType
  <2>2. QED BY <2>1 DEF UpToSeq
<1>2. Visible = hist /\ Visible' = hist
  BY <1>1 DEF Visible, UpToSeq
<1>3. UNCHANGED Store!store
  BY <1>2 DEF Store!store
<1>4. QED BY <1>3 DEF StoreStep

\* The group goes to the log, or fails there.
LEMMA WriteLogLasts ==
  ASSUME Inv, Safe, Lasting, NEW t \in Threads, WriteLog(t)
  PROVE  Lasts
<1> DEFINE group == BatchGroup(t)
           es == Numbered(group, vs.last)
<1>1. /\ AtHead(t) /\ ~IsForced(t) /\ db.phase = "open" /\ ~db.err
      /\ bg' = bg /\ hist' = hist /\ synced' = synced
  BY DEF WriteLog, AtHead, HasRoom
<1>2. /\ db \in DBType /\ vs \in VSType /\ vs.last \in Nat /\ wr \in [Threads -> WriterType]
      /\ db.queue \in Seq(Threads) /\ IsDir(disk.log, Groups)
  BY DEF Inv, Typed, VSType, DBType, IsDisk
<1>3. \A u \in Threads : ~Busy(u)
  BY <1>1, HeadFree
<1>4. group \in Seq(Threads) /\ es \in Groups /\ LastOf(es) \in Nat
  BY <1>1, GroupFacts
<1>5. db.queue # <<>> /\ Head(db.queue) = t
  BY <1>1 DEF AtHead
<1>6. t \in Range(group)
  <2>1. Len(group) \in 1 .. Len(db.queue) /\ \A i \in 1 .. Len(group) : group[i] = db.queue[i]
    BY <1>2, <1>5, BatchGroupType
  <2> HIDE DEF group
  <2>2. db.queue[1] = t /\ DOMAIN group = 1 .. Len(group) /\ Len(db.queue) \in Nat
    BY <1>2, <1>4, <1>5, LenProperties
  <2>3. 1 \in DOMAIN group /\ group[1] = t
    BY <2>1, <2>2
  <2>4. QED BY <2>3 DEF Range
<1> HIDE DEF group
<1>7. es # {} /\ es \in EntrySets /\ \A e \in es : e.s > vs.last /\ e.s \in Nat
  BY <1>2, <1>4, NumberedType DEF Groups, EntrySets, EntryType
<1>8. \A g \in hist \cup LoggedFrom(disk.log, 0) : UpToSeq(g, vs.last) /\ \A e \in g : e.s \in Nat
  BY <1>1, <1>3, GroupsTyped DEF Lasting, LastCovers
<1> HIDE DEF es
<1>9. CASE /\ \E f \in Appends(disk.log[db.mem], es) : disk' = [disk EXCEPT !.log[db.mem] = f]
           /\ wr' = [wr EXCEPT ![t].pc = "logged", ![t].ents = es, ![t].group = group]
           /\ vs' = vs /\ db' = db
  <2>1. PICK f \in Appends(disk.log[db.mem], es) : disk' = [disk EXCEPT !.log[db.mem] = f]
    BY <1>9
  <2>2. PICK lg : lg = [disk.log EXCEPT ![db.mem] = f]
    OBVIOUS
  <2>3. disk'.log = lg /\ disk'.man = disk.man /\ disk'.cur = disk.cur
    BY <2>1, <2>2 DEF Inv, Typed, IsDisk
  <2>4. db.mem \in DOMAIN disk.log /\ disk.log[db.mem] \in FileOf(Groups)
    BY <1>1 DEF Lasting, LogNumbers, Inv, Typed, IsDisk, IsDir
  <2>5. LogGets(lg, disk.log, db.mem, es)
    <3>1. Grows(disk.log[db.mem], es, f)
      BY <1>4, <2>4, AppendsFacts
    <3>2. QED BY <1>2, <1>4, <2>4, <2>2, <3>1 DEF LogGets
  <2>6. \A m \in DOMAIN disk.log : m # db.mem => lg[m] = disk.log[m]
    BY <2>2
  <2> DEFINE L == Len(disk.log[db.mem].recs)
  <2>7. /\ lg[db.mem].torn = disk.log[db.mem].torn /\ disk.log[db.mem].torn \in BOOLEAN
        /\ \A i : i \in lg[db.mem].bad => i \in disk.log[db.mem].bad \/ i = L + 1
        /\ disk.log[db.mem].torn # TRUE => lg[db.mem].bad = disk.log[db.mem].bad
    <3>1. Grows(disk.log[db.mem], es, lg[db.mem])
      BY <2>5, LogGrows
    <3>2. disk.log[db.mem].torn \in BOOLEAN
      BY <2>4, FileParts
    <3>3. QED BY <3>1, <3>2 DEF Grows
  <2>8. /\ DOMAIN lg = DOMAIN disk.log
        /\ lg[db.mem].sync = disk.log[db.mem].sync
        /\ DOMAIN disk.log[db.mem].recs = 1 .. L /\ L \in Nat
        /\ DOMAIN lg[db.mem].recs = 1 .. L + 1 /\ Len(lg[db.mem].recs) = L + 1
        /\ lg[db.mem].recs[L + 1] = es
    BY <2>5, LogGrows
  <2>9. \A i \in 1 .. L : lg[db.mem].recs[i] = disk.log[db.mem].recs[i]
    BY <2>5, LogGrows
  <2>10. /\ LoggedFrom(lg, 0) \subseteq LoggedFrom(disk.log, 0) \cup {es}
        /\ \A k : LoggedFrom(disk.log, k) \subseteq LoggedFrom(lg, k)
    BY <2>5, LoggedMore
  <2> HIDE DEF L
  <2>11. \A m \in DOMAIN lg : \A i \in DOMAIN lg[m].recs :
          \/ i \in DOMAIN disk.log[m].recs /\ lg[m].recs[i] = disk.log[m].recs[i] /\ lg[m].recs[i] \in LoggedFrom(disk.log, 0)
          \/ m = db.mem /\ i = L + 1 /\ lg[m].recs[i] = es
    <3>1. SUFFICES ASSUME NEW m \in DOMAIN lg, NEW i \in DOMAIN lg[m].recs, ~(m = db.mem /\ i = L + 1)
                   PROVE  /\ i \in DOMAIN disk.log[m].recs /\ lg[m].recs[i] = disk.log[m].recs[i]
                          /\ lg[m].recs[i] \in LoggedFrom(disk.log, 0)
      BY <2>8
    <3>2. i \in DOMAIN disk.log[m].recs /\ lg[m].recs[i] = disk.log[m].recs[i]
      <4>1. CASE m # db.mem
        BY <2>8, <2>6, <4>1
      <4>2. CASE m = db.mem
        <5>1. i \in 1 .. L + 1 /\ i # L + 1
          BY <2>8, <3>1, <4>2
        <5>2. i \in 1 .. L
          BY <2>8, <5>1
        <5>3. QED BY <2>8, <2>9, <4>2, <5>2
      <4>3. QED BY <4>1, <4>2
    <3>3. m \in DOMAIN disk.log /\ m >= 0
      BY <1>2, <2>8 DEF IsDir
    <3>4. QED BY <3>2, <3>3, InLogs
  <2>12. es \notin hist \cup LoggedFrom(disk.log, 0) /\ \A g \in hist \cup LoggedFrom(disk.log, 0) : Apart(es, g) /\ Apart(g, es)
    <3>1. ASSUME NEW g \in hist \cup LoggedFrom(disk.log, 0), NEW e \in es, NEW o \in g PROVE e.s # o.s
      BY <1>2, <1>7, <1>8 DEF UpToSeq
    <3>2. QED BY <1>7, <3>1 DEF Apart
  <2>13. /\ wr'[t].pc = "logged" /\ wr'[t].ents = es /\ wr'[t].group = group
         /\ \A u \in Threads : u # t => wr'[u] = wr[u]
    BY <1>2, <1>9 DEF WriterType
  <2>14. \A u \in Threads : wr'[u].pc \in {"logged", "inserted"} => u = t
    BY <1>3, <2>13 DEF Busy
  <2>15. Distinct(hist, disk.log)'
    <3>1. \A g, k \in hist \cup LoggedFrom(lg, 0) : g # k => Apart(g, k)
      BY <2>10, <2>12 DEF Lasting, Distinct
    <3>2. ASSUME NEW n \in DOMAIN lg, NEW m \in DOMAIN lg, NEW i \in DOMAIN lg[n].recs, NEW j \in DOMAIN lg[m].recs,
                 lg[n].recs[i] = lg[m].recs[j]
          PROVE  n = m /\ i = j
      BY <2>8, <2>11, <2>12, <3>2 DEF Lasting, Distinct
    <3>3. Distinct(hist, lg)
      BY <3>1, <3>2 DEF Distinct
    <3>4. QED BY <1>1, <2>3, <3>3 DEF Distinct, LoggedFrom, Apart
  <2>16. LogsKnown'
    <3>1. SUFFICES ASSUME NEW m \in DOMAIN lg, NEW g \in Range(lg[m].recs) PROVE g \in hist \/ (m = db.mem /\ g = es)
      BY <1>1, <1>9, <2>3, <2>13 DEF LogsKnown
    <3>2. PICK i \in DOMAIN lg[m].recs : lg[m].recs[i] = g
      BY <3>1 DEF Range
    <3>3. CASE m = db.mem /\ lg[m].recs[i] = es
      BY <3>2, <3>3
    <3>4. CASE i \in DOMAIN disk.log[m].recs /\ lg[m].recs[i] = disk.log[m].recs[i]
      <4>1. m \in DOMAIN disk.log /\ g \in Range(disk.log[m].recs)
        BY <2>8, <3>2, <3>4 DEF Range
      <4>2. g \in hist \/ (db.err = TRUE \/ \E u \in Threads : wr[u].pc = "logged" /\ g = wr[u].ents)
        BY <1>1, <4>1 DEF Lasting, LogsKnown
      <4>3. ~(\E u \in Threads : wr[u].pc = "logged" /\ g = wr[u].ents)
        BY <1>3 DEF Busy
      <4>4. db.err # TRUE
        BY <1>1
      <4>5. QED BY <4>2, <4>3, <4>4, Zenon
    <3>5. QED BY <2>11, <3>3, <3>4
  <2>17. Covered'
    <3>1. SUFFICES ASSUME disk.cur # 0, NEW recs \in Cuts(disk.man[disk.cur])
                   PROVE  Covers(recs, hist, lg) /\ ManifestField(recs, "log") <= db.mem
      <4>1. Cuts(disk.man[disk.cur])' = Cuts(disk.man[disk.cur])
        BY <2>3 DEF Cuts, CutPoints
      <4>2. QED BY <1>1, <1>9, <2>3, <4>1 DEF Covered, Covers, LoggedFrom, UpToSeq
    <3>2. Covers(recs, hist, disk.log) /\ ManifestField(recs, "log") <= db.mem
      BY <1>1, <3>1 DEF Lasting, Covered
    <3>3. QED BY <2>10, <3>2 DEF Covers
  <2>18. LogNumbers'
    BY <1>1, <1>9, <2>3, <2>8 DEF Lasting, LogNumbers
  <2>19. LastCovers'
    <3>1. \A g \in hist \cup LoggedFrom(lg, 0) : UpToSeq(g, vs.last) \/ g = es
      BY <1>8, <2>10
    <3>2. LoggedFrom(disk.log, 0)' = LoggedFrom(lg, 0)
      BY <2>3 DEF LoggedFrom
    <3>3. QED BY <1>1, <1>9, <2>13, <3>1, <3>2 DEF LastCovers, UpToSeq, Busy
  <2>20. Leading'
    <3>1. lg[db.mem].recs # <<>> /\ lg[db.mem].recs[Len(lg[db.mem].recs)] = es
      BY <2>8
    <3>2. es \notin hist
      BY <2>12
    <3>3. disk'.log[db'.mem].recs # <<>> /\ disk'.log[db'.mem].recs[Len(disk'.log[db'.mem].recs)] = wr'[t].ents
      BY <1>9, <2>3, <2>13, <3>1
    <3>4. db'.queue # <<>> /\ Head(db'.queue) = t /\ t \in Range(wr'[t].group)
      BY <1>5, <1>6, <1>9, <2>13
    <3>5. \A e \in wr'[t].ents : e.s > vs'.last
      BY <1>7, <1>9, <2>13
    <3>6. wr'[t].ents \notin hist'
      BY <1>1, <2>13, <3>2
    <3>7. QED BY <2>13, <2>14, <3>3, <3>4, <3>5, <3>6 DEF Leading, Busy
  <2>21. SyncedKept'
    <3>1. synced \subseteq hist
      BY DEF Lasting, SyncedKept
    <3>2. ASSUME NEW m \in DOMAIN lg, NEW i \in DOMAIN lg[m].recs, lg[m].recs[i] \in synced
          PROVE  i <= lg[m].sync /\ i \notin lg[m].bad
      <4>1. m \in DOMAIN disk.log /\ i \in DOMAIN disk.log[m].recs /\ lg[m].recs[i] = disk.log[m].recs[i]
        BY <2>8, <2>11, <2>12, <3>1, <3>2
      <4>2. lg[m].sync = disk.log[m].sync
        BY <2>8, <2>6
      <4>3. i <= disk.log[m].sync /\ i \notin disk.log[m].bad
        BY <3>2, <4>1 DEF Lasting, SyncedKept
      <4>4. i \notin lg[m].bad
        <5>1. CASE m # db.mem
          BY <2>6, <4>1, <4>3, <5>1
        <5>2. CASE m = db.mem
          <6>1. i \in 1 .. L /\ L \in Nat
            BY <2>8, <4>1, <5>2
          <6>2. i # L + 1
            BY <6>1
          <6>3. \A j : j \in lg[db.mem].bad => j \in disk.log[db.mem].bad \/ j = L + 1
            BY <2>7, Zenon
          <6>4. QED BY <4>3, <5>2, <6>2, <6>3
        <5>3. QED BY <5>1, <5>2
      <4>5. QED BY <4>2, <4>3, <4>4
    <3>3. QED BY <1>1, <2>3, <3>1, <3>2 DEF SyncedKept
  <2>22. EditWrittenLast'
    BY <1>1, <1>9, <2>3 DEF Lasting, EditWrittenLast
  <2>23. StoreStep
    BY <1>1, <1>9, SameStore
  <2>24. OutOfReach'
    <3>1. ASSUME NEW m \in DOMAIN lg, lg[m].bad # {} PROVE lg[m].torn = TRUE
      <4>1. CASE m # db.mem
        BY <2>8, <2>6, <3>1, <4>1 DEF Lasting, OutOfReach
      <4>2. CASE m = db.mem
        <5>1. lg[m].torn # TRUE => disk.log[m].bad # {}
          <6>1. disk.log[db.mem].torn # TRUE => lg[db.mem].bad = disk.log[db.mem].bad
            BY <2>7, Zenon
          <6>2. lg[db.mem].torn = disk.log[db.mem].torn
            BY <2>7, Zenon
          <6>3. QED BY <3>1, <4>2, <6>1, <6>2, Zenon
        <5>2. QED BY <2>4, <2>7, <4>2, <5>1 DEF Lasting, OutOfReach
      <4>3. QED BY <4>1, <4>2
    <3>2. QED BY <1>1, <1>9, <2>3, <3>1 DEF OutOfReach
  <2>25. QED BY <2>15, <2>16, <2>17, <2>18, <2>19, <2>20, <2>21, <2>22, <2>23, <2>24 DEF Lasts, Lasting
<1>10. CASE /\ vs' = [vs EXCEPT !.last = LastOf(es)] /\ Leave(db, wr, group)
            /\ disk' = [disk EXCEPT !.log[db.mem].torn = TRUE]
  <2>1. vs'.last = LastOf(es) /\ vs'.next = vs.next /\ vs'.log = vs.log /\ vs'.man = vs.man
    BY <1>2, <1>10 DEF VSType
  <2>2. vs.last <= LastOf(es) /\ LastOf(es) \in Nat
    <3>1. \A e \in es : e.s <= LastOf(es)
      BY <1>7, MaxSeqNat
    <3>2. QED BY <1>2, <1>4, <1>7, <3>1
  <2>3. PICK x : x = db
    OBVIOUS
  <2>4. Leave(x, wr, group) /\ x \in DBType
    BY <1>2, <1>10, <2>3 DEF Leave
  <2>5. db'.phase = "open" /\ db'.mem = db.mem /\ db'.err = db.err
    BY <1>1, <1>2, <1>4, <2>3, <2>4, LeaveFacts
  <2>6. \A u \in Threads : wr'[u].pc \notin {"logged", "inserted"}
    BY <1>3, <1>4, <2>4, LeavesQueue
  <2>7. /\ disk'.man = disk.man /\ disk'.cur = disk.cur /\ DOMAIN disk'.log = DOMAIN disk.log
         /\ \A n \in DOMAIN disk.log : /\ disk'.log[n].recs = disk.log[n].recs /\ disk'.log[n].bad = disk.log[n].bad
                                       /\ disk'.log[n].sync = disk.log[n].sync
                                       /\ (disk.log[n].torn = TRUE => disk'.log[n].torn = TRUE)
    <3>1. db.mem \in DOMAIN disk.log /\ disk.log[db.mem] \in FileOf(Groups)
      BY <1>1 DEF Lasting, LogNumbers, Inv, Typed, IsDisk, IsDir
    <3>2. PICK f : f = [disk.log[db.mem] EXCEPT !.torn = TRUE]
      OBVIOUS
    <3>3. /\ f.recs = disk.log[db.mem].recs /\ f.bad = disk.log[db.mem].bad
          /\ f.sync = disk.log[db.mem].sync /\ f.torn = TRUE
      BY <3>1, <3>2 DEF FileOf
    <3>4. PICK lg : lg = [disk.log EXCEPT ![db.mem] = f]
      OBVIOUS
    <3>5. disk' = [disk EXCEPT !.log = lg]
      BY <1>10, <3>2, <3>4
    <3>6. disk'.log = lg /\ disk'.man = disk.man /\ disk'.cur = disk.cur
      BY <3>5 DEF Inv, Typed, IsDisk
    <3>7. DOMAIN lg = DOMAIN disk.log /\ \A n \in DOMAIN disk.log : lg[n] = IF n = db.mem THEN f ELSE disk.log[n]
      BY <3>4
    <3>8. QED BY <3>3, <3>6, <3>7
  <2>8. SyncedKept'
    BY <1>1, <2>7 DEF Lasting, SyncedKept
  <2>9. Lasting'
    BY <1>1, <1>3, <2>1, <2>2, <2>5, <2>6, <2>8, <2>7, GroupOver
  <2>10. StoreStep
    BY <1>1, <1>8, <2>1, <2>2, <2>5, LastGrows
  <2>11. QED BY <2>9, <2>10 DEF Lasts
<1>11. QED BY <1>9, <1>10 DEF WriteLog, es, group

\* The writer past the log: the database is open, its group is in the log.
LEMMA BusyFacts ==
  ASSUME Inv, Lasting, NEW t \in Threads, Busy(t)
  PROVE  /\ db.phase = "open" /\ db.mem \in DOMAIN disk.log /\ \A u \in Threads : Busy(u) => u = t
         /\ wr[t].ents \in EntrySets /\ wr[t].ents # {} /\ wr[t].group \in Seq(Threads)
         /\ wr[t].ents \in LoggedFrom(disk.log, 0)
         /\ \A k : db.mem >= k => wr[t].ents \in LoggedFrom(disk.log, k)
         /\ LastOf(wr[t].ents) \in Nat /\ vs.last \in Nat /\ vs.last <= LastOf(wr[t].ents)
         /\ UpToSeq(wr[t].ents, LastOf(wr[t].ents))
<1>1. db.phase = "open"
  BY NotOpenFacts
<1>2. db.mem \in DOMAIN disk.log
  BY <1>1 DEF Lasting, LogNumbers
<1>3. disk.log[db.mem].recs \in Seq(Groups) /\ db.mem \in Nat /\ vs.last \in Nat
  BY <1>2 DEF Inv, Typed, IsDisk, IsDir, FileOf, VSType
<1>4. wr[t].ents \in EntrySets /\ wr[t].ents # {} /\ wr[t].group \in Seq(Threads)
  BY DEF Inv, Typed, WriterType, Busy
<1>5. /\ disk.log[db.mem].recs # <<>> /\ disk.log[db.mem].recs[Len(disk.log[db.mem].recs)] = wr[t].ents
      /\ \A e \in wr[t].ents : e.s > vs.last
  BY DEF Lasting, Leading
<1>6. Len(disk.log[db.mem].recs) \in DOMAIN disk.log[db.mem].recs
  BY <1>3, <1>5, LenProperties, EmptySeq
<1>7. ASSUME NEW k, db.mem >= k PROVE wr[t].ents \in LoggedFrom(disk.log, k)
  BY <1>2, <1>5, <1>6, <1>7, InLogs
<1>8. db.mem >= 0
  BY <1>3
<1>9. wr[t].ents \in LoggedFrom(disk.log, 0)
  BY <1>7, <1>8
<1>10. /\ LastOf(wr[t].ents) \in Nat /\ \A e \in wr[t].ents : e.s <= LastOf(wr[t].ents)
       /\ \E e \in wr[t].ents : e.s = LastOf(wr[t].ents)
  BY <1>4, MaxSeqNat
<1>11. vs.last <= LastOf(wr[t].ents)
  BY <1>3, <1>5, <1>10
<1>12. \A u \in Threads : Busy(u) => u = t
  BY DEF Lasting, Leading
<1>13. QED BY <1>1, <1>2, <1>3, <1>4, <1>7, <1>9, <1>10, <1>11, <1>12 DEF UpToSeq

\* The entries go into the memtable, or the Sync fails.
LEMMA WriteMemLasts ==
  ASSUME Inv, Safe, Lasting, NEW t \in Threads, WriteMem(t)
  PROVE  Lasts
<1> DEFINE ents == wr[t].ents
<1>1. wr[t].pc = "logged" /\ Busy(t) /\ bg' = bg /\ synced' = synced
  BY DEF WriteMem, Busy
<1>2. /\ db.phase = "open" /\ db.mem \in DOMAIN disk.log /\ \A u \in Threads : Busy(u) => u = t
      /\ ents \in EntrySets /\ ents # {} /\ wr[t].group \in Seq(Threads)
      /\ ents \in LoggedFrom(disk.log, 0)
      /\ LastOf(ents) \in Nat /\ vs.last \in Nat /\ vs.last <= LastOf(ents)
      /\ UpToSeq(ents, LastOf(ents))
  BY <1>1, BusyFacts
<1>3. \A k : db.mem >= k => ents \in LoggedFrom(disk.log, k)
  BY <1>1, BusyFacts
<1>4. /\ db.queue # <<>> /\ Head(db.queue) = t /\ t \in Range(wr[t].group) /\ ents \notin hist
      /\ disk.log[db.mem].recs # <<>> /\ disk.log[db.mem].recs[Len(disk.log[db.mem].recs)] = ents
      /\ \A e \in ents : e.s > vs.last
  BY <1>1 DEF Lasting, Leading
<1>5. db \in DBType /\ vs \in VSType /\ wr \in [Threads -> WriterType] /\ IsDir(disk.log, Groups) /\ db.mem \in Nat
  BY DEF Inv, Typed, IsDisk, DBType
<1>6. ASSUME NEW u \in Threads, wr[u].pc = "logged" PROVE u = t
  BY <1>2, <1>6 DEF Busy
<1> HIDE DEF ents
<1>7. CASE /\ disk' = IF wr[t].sync THEN [disk EXCEPT !.log[db.mem] = Synced(@)] ELSE disk
           /\ hist' = hist \cup {ents} /\ wr' = [wr EXCEPT ![t].pc = "inserted"]
           /\ vs' = vs /\ db' = db
  <2> DEFINE lg == disk'.log
  <2>1. /\ disk'.man = disk.man /\ disk'.cur = disk.cur /\ DOMAIN lg = DOMAIN disk.log
        /\ \A m \in DOMAIN disk.log : m # db.mem => lg[m] = disk.log[m]
        /\ lg[db.mem] = IF wr[t].sync THEN Synced(disk.log[db.mem]) ELSE disk.log[db.mem]
    BY <1>2, <1>7 DEF Inv, Typed, IsDisk
  <2>2. disk.log[db.mem] \in FileOf(Groups)
    BY <1>2, <1>5 DEF IsDir
  <2>3. /\ lg[db.mem].recs = disk.log[db.mem].recs /\ lg[db.mem].bad = disk.log[db.mem].bad
        /\ lg[db.mem].torn = disk.log[db.mem].torn
    <3>1. PICK f : f = Synced(disk.log[db.mem])
      OBVIOUS
    <3>2. f.recs = disk.log[db.mem].recs /\ f.bad = disk.log[db.mem].bad /\ f.torn = disk.log[db.mem].torn
      BY <2>2, <3>1, FileParts
    <3>3. lg[db.mem] = f \/ lg[db.mem] = disk.log[db.mem]
      BY <2>1, <3>1
    <3>4. QED BY ONLY <3>2, <3>3
  <2>4. wr[t].sync = TRUE =>
          lg[db.mem].sync = IF disk.log[db.mem].bad = {} THEN Len(disk.log[db.mem].recs) ELSE disk.log[db.mem].sync
    <3>1. PICK f : f = Synced(disk.log[db.mem])
      OBVIOUS
    <3>2. f.sync = IF disk.log[db.mem].bad = {} THEN Len(disk.log[db.mem].recs) ELSE disk.log[db.mem].sync
      BY <2>2, <3>1, FileParts
    <3>3. wr[t].sync = TRUE => lg[db.mem] = f
      BY <2>1, <3>1
    <3>4. QED BY ONLY <3>2, <3>3
  <2>5. wr[t].sync # TRUE => lg[db.mem] = disk.log[db.mem]
    <3>1. wr[t].sync \in BOOLEAN
      BY <1>5 DEF WriterType
    <3>2. QED BY <2>1, <3>1
  <2>6. \A m \in DOMAIN disk.log : lg[m].recs = disk.log[m].recs /\ lg[m].bad = disk.log[m].bad /\ lg[m].torn = disk.log[m].torn
    BY <2>1, <2>3
  <2> HIDE DEF lg
  <2>7. PartOf(lg, disk.log) /\ PartOf(disk.log, lg)
    BY <2>1, <2>6 DEF PartOf, lg
  <2>8. \A k : LoggedFrom(lg, k) = LoggedFrom(disk.log, k)
    BY <2>7, SameLogged
  <2>9. \A k : LoggedFrom(disk.log, k)' = LoggedFrom(disk.log, k)
    BY <2>8 DEF LoggedFrom, lg
  <2>10. /\ wr'[t].pc = "inserted" /\ wr'[t].ents = ents /\ wr'[t].sync = wr[t].sync /\ wr'[t].group = wr[t].group
        /\ \A u \in Threads : u # t => wr'[u] = wr[u]
    BY <1>5, <1>7 DEF WriterType, ents
  <2>11. \A u \in Threads : wr'[u].pc \in {"logged", "inserted"} => u = t
    BY <1>2, <2>10 DEF Busy
  <2>12. Distinct(hist, disk.log)'
    <3>1. hist \cup {ents} \subseteq hist \cup LoggedFrom(disk.log, 0)
      BY <1>2
    <3>2. Distinct(hist \cup {ents}, lg)
      <4>1. Distinct(hist, disk.log)
        BY DEF Lasting
      <4>2. PICK h : h = hist \cup {ents}
        OBVIOUS
      <4>3. Distinct(h, lg)
        BY <2>7, <3>1, <4>1, <4>2, FewerDistinct
      <4>4. QED BY <4>2, <4>3
    <3>3. QED BY <1>7, <3>2 DEF Distinct, LoggedFrom, Apart, lg
  <2>13. LogsKnown'
    <3>1. SUFFICES ASSUME NEW m \in DOMAIN lg, NEW g \in Range(lg[m].recs)
                   PROVE  g \in hist \cup {ents} \/ (m = db.mem /\ db.err = TRUE)
      BY <1>2, <1>7 DEF LogsKnown, lg
    <3>2. m \in DOMAIN disk.log /\ g \in Range(disk.log[m].recs)
      BY <2>1, <2>6 DEF lg
    <3>3. \/ g \in hist
          \/ m = db.mem /\ (db.err = TRUE \/ \E u \in Threads : wr[u].pc = "logged" /\ g = wr[u].ents)
      BY <1>2, <3>2 DEF Lasting, LogsKnown
    <3>4. (\E u \in Threads : wr[u].pc = "logged" /\ g = wr[u].ents) => g = ents
      BY <1>6 DEF ents
    <3>5. QED BY <3>3, <3>4
  <2>14. Covered'
    <3>1. SUFFICES ASSUME disk.cur # 0, NEW recs \in Cuts(disk.man[disk.cur])
                   PROVE  Covers(recs, hist \cup {ents}, disk.log) /\ ManifestField(recs, "log") <= db.mem
      <4>1. Cuts(disk.man[disk.cur])' = Cuts(disk.man[disk.cur])
        BY <2>1 DEF Cuts, CutPoints
      <4>2. QED BY <1>2, <1>7, <2>1, <2>9, <4>1 DEF Covered, Covers, UpToSeq
    <3>2. Covers(recs, hist, disk.log) /\ ManifestField(recs, "log") <= db.mem
      BY <1>2, <3>1 DEF Lasting, Covered
    <3>3. db.mem >= ManifestField(recs, "log")
      BY <1>5, <3>1, <3>2, CurrentManifest
    <3>4. QED BY <1>3, <3>2, <3>3 DEF Covers
  <2>15. LogNumbers'
    BY <1>2, <1>7, <2>1 DEF Lasting, LogNumbers, lg
  <2>16. LastCovers'
    <3>1. ASSUME NEW g \in hist \cup {ents} \cup LoggedFrom(disk.log, 0)
          PROVE  UpToSeq(g, vs.last) \/ g = ents
      <4>1. g \in hist \cup LoggedFrom(disk.log, 0)
        BY <1>2
      <4>2. UpToSeq(g, vs.last) \/ \E u \in Threads : Busy(u) /\ g = wr[u].ents
        BY <1>2, <4>1 DEF Lasting, LastCovers
      <4>3. QED BY <1>2, <4>2 DEF ents
    <3>2. QED BY <1>2, <1>7, <2>9, <2>10, <3>1 DEF LastCovers, UpToSeq, Busy
  <2>17. Leading'
    <3>1. disk'.log[db'.mem].recs = disk.log[db.mem].recs
      BY <1>7, <2>3 DEF lg
    <3>2. wr'[t].sync = TRUE => disk'.log[db'.mem].torn = TRUE \/ disk'.log[db'.mem].sync = Len(disk'.log[db'.mem].recs)
      <4>1. disk.log[db.mem].bad # {} => lg[db.mem].torn = TRUE
        BY <1>2, <2>6 DEF Lasting, OutOfReach
      <4>2. QED BY <1>7, <2>3, <2>4, <2>10, <4>1 DEF lg
    <3>3. disk'.log[db'.mem].recs # <<>> /\ disk'.log[db'.mem].recs[Len(disk'.log[db'.mem].recs)] = wr'[t].ents
      BY <1>4, <2>10, <3>1
    <3>4. db'.queue # <<>> /\ Head(db'.queue) = t /\ t \in Range(wr'[t].group)
      BY <1>4, <1>7, <2>10
    <3>5. \A e \in wr'[t].ents : e.s > vs'.last
      BY <1>4, <1>7, <2>10
    <3>6. wr'[t].ents \in hist'
      BY <1>7, <2>10
    <3>7. QED BY <2>10, <2>11, <3>2, <3>3, <3>4, <3>5, <3>6 DEF Leading, Busy
  <2>18. SyncedKept'
    <3>1. synced \subseteq hist
      BY DEF Lasting, SyncedKept
    <3>2. ASSUME NEW m \in DOMAIN lg, NEW i \in DOMAIN lg[m].recs, lg[m].recs[i] \in synced
          PROVE  i <= lg[m].sync /\ i \notin lg[m].bad
      <4>1. m \in DOMAIN disk.log /\ i \in DOMAIN disk.log[m].recs /\ lg[m].recs[i] = disk.log[m].recs[i]
        BY <2>1, <2>6 DEF lg
      <4>2. i <= disk.log[m].sync /\ i \notin disk.log[m].bad /\ lg[m].bad = disk.log[m].bad
        BY <2>6, <3>2, <4>1 DEF Lasting, SyncedKept
      <4>3. CASE m = db.mem /\ wr[t].sync = TRUE
        <5>1. disk.log[db.mem].recs \in Seq(Groups)
          BY <1>2, <1>5 DEF IsDir, FileOf
        <5>2. i \in 1 .. Len(disk.log[db.mem].recs)
          BY <4>1, <4>3, <5>1
        <5>3. QED BY <2>4, <4>2, <4>3, <5>2
      <4>4. CASE ~(m = db.mem /\ wr[t].sync = TRUE)
        <5>1. lg[m] = disk.log[m]
          BY <2>1, <2>5, <4>1, <4>4 DEF lg
        <5>2. QED BY <4>2, <5>1
      <4>5. QED BY <4>3, <4>4
    <3>3. QED BY <1>1, <1>7, <3>1, <3>2 DEF SyncedKept, lg
  <2>19. EditWrittenLast'
    BY <1>1, <1>7, <2>1 DEF Lasting, EditWrittenLast
  <2>20. StoreStep
    <3>1. \E e \in ents : ~(e.s <= vs.last)
      <4>1. PICK e \in ents : TRUE
        BY <1>2
      <4>2. e.s \in Nat /\ e.s > vs.last
        BY <1>2, <1>4 DEF EntrySets, EntryType
      <4>3. QED BY <1>2, <4>2
    <3>2. Visible' = Visible
      BY <1>2, <1>7, <3>1 DEF Visible
    <3>3. UNCHANGED Store!store
      BY <1>1, <1>2, <1>7, <3>2 DEF Store!store
    <3>4. QED BY <3>3 DEF StoreStep
  <2>21. OutOfReach'
    <3>1. \A m \in DOMAIN lg : lg[m].bad # {} => lg[m].torn = TRUE
      BY <2>1, <2>6 DEF Lasting, OutOfReach, lg
    <3>2. QED BY <1>2, <1>7, <3>1 DEF OutOfReach, lg
  <2>22. QED BY <2>12, <2>13, <2>14, <2>15, <2>16, <2>17, <2>18, <2>19, <2>20, <2>21 DEF Lasts, Lasting
<1>8. CASE /\ vs' = [vs EXCEPT !.last = LastOf(ents)] /\ Leave(RecordBackgroundError(db), wr, wr[t].group)
           /\ disk' = disk /\ hist' = hist
  <2>1. vs'.last = LastOf(ents) /\ vs'.next = vs.next /\ vs'.log = vs.log /\ vs'.man = vs.man
    BY <1>2, <1>5, <1>8 DEF VSType
  <2>2. PICK x, g : x = RecordBackgroundError(db) /\ g = wr[t].group
    OBVIOUS
  <2>3. Leave(x, wr, g) /\ g \in Seq(Threads)
    BY <1>2, <1>8, <2>2 DEF Leave
  <2>4. x \in DBType /\ x.phase = "open" /\ x.mem = db.mem /\ x.err = TRUE
    BY <1>2, <1>5, <2>2, ErrorFacts DEF DBType
  <2>5. db'.phase = "open" /\ db'.mem = db.mem /\ db'.err = TRUE
    BY <1>5, <2>3, <2>4, LeaveFacts
  <2>6. \A u \in Threads : Busy(u) => u \in Range(g)
    BY <1>2, <1>4, <2>2
  <2>7. \A u \in Threads : wr'[u].pc \notin {"logged", "inserted"}
    BY <2>3, <2>4, <2>6, LeavesQueue
  <2>8. SyncedKept'
    BY <1>1, <1>8 DEF Lasting, SyncedKept
  <2>9. \A u \in Threads : Busy(u) => UpToSeq(wr[u].ents, vs'.last)
    BY <1>2, <2>1 DEF ents
  <2>10. Lasting'
    BY <1>1, <1>2, <1>8, <2>1, <2>5, <2>7, <2>8, <2>9, GroupOver
  <2>11. \A g2 \in hist : UpToSeq(g2, vs.last)
    <3>1. ASSUME NEW g2 \in hist PROVE UpToSeq(g2, vs.last)
      <4>1. UpToSeq(g2, vs.last) \/ \E u \in Threads : Busy(u) /\ g2 = wr[u].ents
        BY <1>2 DEF Lasting, LastCovers
      <4>2. QED BY <1>2, <1>4, <4>1 DEF ents
    <3>2. QED BY <3>1
  <2>12. StoreStep
    BY <1>1, <1>2, <1>8, <2>1, <2>5, <2>11, LastGrows
  <2>13. QED BY <2>10, <2>12 DEF Lasts
<1>9. QED BY <1>7, <1>8 DEF WriteMem, ents

\* The group becomes visible: it takes effect in the store.
LEMMA WriteDoneLasts ==
  ASSUME Inv, Safe, Lasting, NEW t \in Threads, WriteDone(t)
  PROVE  Lasts
<1> DEFINE ents == wr[t].ents
           f == disk.log[db.mem]
<1>1. /\ wr[t].pc = "inserted" /\ Busy(t) /\ disk' = disk /\ bg' = bg /\ hist' = hist
      /\ vs' = [vs EXCEPT !.last = LastOf(ents)] /\ Leave(db, wr, wr[t].group)
      /\ synced' = IF wr[t].sync /\ ~f.torn THEN synced \cup {ents} ELSE synced
  BY DEF WriteDone, Busy
<1>2. /\ db.phase = "open" /\ db.mem \in DOMAIN disk.log /\ \A u \in Threads : Busy(u) => u = t
      /\ ents \in EntrySets /\ ents # {} /\ wr[t].group \in Seq(Threads)
      /\ LastOf(ents) \in Nat /\ vs.last \in Nat /\ vs.last <= LastOf(ents)
      /\ UpToSeq(ents, LastOf(ents))
  BY <1>1, BusyFacts
<1>3. t \in Range(wr[t].group) /\ ents \in hist /\ (wr[t].sync = TRUE => f.torn = TRUE \/ f.sync = Len(f.recs))
  BY <1>1 DEF Lasting, Leading
<1>4. f.recs # <<>> /\ f.recs[Len(f.recs)] = ents /\ \A e \in ents : e.s > vs.last
  BY <1>1 DEF Lasting, Leading
<1>5. db \in DBType /\ vs \in VSType /\ wr \in [Threads -> WriterType] /\ f.recs \in Seq(Groups)
  BY <1>2 DEF Inv, Typed, IsDisk, IsDir, FileOf
<1>6. f.recs[Len(f.recs)] = ents /\ Len(f.recs) \in DOMAIN f.recs /\ Len(f.recs) \in Nat
  BY <1>4, <1>5, LenProperties, EmptySeq
<1> HIDE DEF ents
<1>7. vs'.last = LastOf(ents) /\ vs'.next = vs.next /\ vs'.log = vs.log /\ vs'.man = vs.man
  BY <1>1, <1>2, <1>5 DEF VSType
<1>8. /\ db'.phase = "open" /\ db'.mem = db.mem /\ db'.err = db.err
      /\ \A u \in Threads : wr'[u].pc \notin {"logged", "inserted"}
  <2>1. PICK x, g : x = db /\ g = wr[t].group
    OBVIOUS
  <2>2. Leave(x, wr, g) /\ g \in Seq(Threads) /\ x \in DBType
    BY <1>1, <1>2, <1>5, <2>1 DEF Leave
  <2>3. db'.phase = "open" /\ db'.mem = db.mem /\ db'.err = db.err
    BY <1>2, <1>5, <2>1, <2>2, LeaveFacts
  <2>4. \A u \in Threads : Busy(u) => u \in Range(g)
    BY <1>2, <1>3, <2>1
  <2>5. QED BY <2>2, <2>3, <2>4, LeavesQueue
<1>9. synced' = synced \/ (wr[t].sync = TRUE /\ f.torn # TRUE /\ synced' = synced \cup {ents})
  <2>1. wr[t].sync \in BOOLEAN /\ f.torn \in BOOLEAN
    BY <1>2, <1>5, FileParts DEF WriterType, Inv, Typed, IsDisk, IsDir
  <2>2. QED BY <1>1, <2>1
<1>10. SyncedKept'
  <2>1. synced' \subseteq hist
    BY <1>3, <1>9 DEF Lasting, SyncedKept
  <2>2. ASSUME NEW m \in DOMAIN disk.log, NEW i \in DOMAIN disk.log[m].recs, disk.log[m].recs[i] \in synced'
        PROVE  i <= disk.log[m].sync /\ i \notin disk.log[m].bad
    <3>1. CASE disk.log[m].recs[i] \in synced
      BY <3>1 DEF Lasting, SyncedKept
    <3>2. CASE wr[t].sync = TRUE /\ f.torn # TRUE /\ disk.log[m].recs[i] = ents
      <4>1. m = db.mem /\ i = Len(f.recs)
        BY <1>2, <1>6, <3>2 DEF Lasting, Distinct
      <4>2. f.bad = {}
        <5>1. disk.log[db.mem].bad # {} => disk.log[db.mem].torn = TRUE
          BY <1>2 DEF Lasting, OutOfReach
        <5>2. QED BY <3>2, <5>1
      <4>3. f.sync = Len(f.recs)
        BY <1>3, <3>2, Zenon
      <4>4. QED BY <1>6, <4>1, <4>2, <4>3
    <3>3. QED BY <1>9, <2>2, <3>1, <3>2
  <2>3. QED BY <1>1, <2>1, <2>2 DEF SyncedKept
<1>11. Lasting'
  <2>1. \A u \in Threads : Busy(u) => UpToSeq(wr[u].ents, vs'.last)
    BY <1>2, <1>7 DEF ents
  <2>2. \A u \in Threads : Busy(u) => wr[u].pc # "logged"
    BY <1>1, <1>2
  <2>3. QED BY <1>1, <1>2, <1>7, <1>8, <1>10, <2>1, <2>2, GroupOver
<1>12. StoreStep
  <2>1. Visible' = hist
    <3>1. ASSUME NEW g \in hist, NEW e \in g PROVE e.s <= LastOf(ents)
      <4>1. UpToSeq(g, vs.last) \/ \E u \in Threads : Busy(u) /\ g = wr[u].ents
        BY <1>2 DEF Lasting, LastCovers
      <4>2. CASE UpToSeq(g, vs.last)
        <5>1. e.s \in Nat /\ e.s <= vs.last
          BY <4>2, GroupsTyped DEF UpToSeq
        <5>2. QED BY <1>2, <5>1
      <4>3. CASE g = ents
        BY <1>2, <4>3 DEF UpToSeq
      <4>4. QED BY <1>2, <4>1, <4>2, <4>3 DEF ents
    <3>2. QED BY <1>1, <1>7, <1>8, <3>1 DEF Visible
  <2>2. ents \notin Visible
    <3>1. PICK e \in ents : TRUE
      BY <1>2
    <3>2. e.s \in Nat /\ e.s > vs.last
      BY <1>2, <1>4 DEF EntrySets, EntryType, ents
    <3>3. ~(e.s <= vs.last)
      BY <1>2, <3>2
    <3>4. QED BY <1>2, <3>3 DEF Visible
  <2>3. \A g \in hist : g # ents => g \in Visible
    <3>1. ASSUME NEW g \in hist, g # ents PROVE UpToSeq(g, vs.last)
      <4>1. UpToSeq(g, vs.last) \/ \E u \in Threads : Busy(u) /\ g = wr[u].ents
        BY <1>2 DEF Lasting, LastCovers
      <4>2. QED BY <1>2, <3>1, <4>1 DEF ents
    <3>2. QED BY <1>2, <3>1 DEF Visible, UpToSeq
  <2>4. Visible \subseteq hist
    BY DEF Visible
  <2>5. hist = Visible \cup {ents}
    BY <1>3, <2>3, <2>4 DEF ents
  <2>6. \A e \in ents, o \in UNION Visible : e.s > o.s
    <3>1. SUFFICES ASSUME NEW e \in ents, NEW g \in Visible, NEW o \in g PROVE e.s > o.s
      OBVIOUS
    <3>2. o.s \in Nat /\ o.s <= vs.last
      BY <1>2, <2>4, GroupsTyped DEF Visible
    <3>3. e.s \in Nat /\ e.s > vs.last
      BY <1>2, <1>4 DEF EntrySets, EntryType, ents
    <3>4. QED BY <1>2, <3>2, <3>3
  <2>7. synced' \in {synced, synced \cup {ents}}
    BY <1>9
  <2>8. Store!Commit
    BY <1>2, <1>8, <2>1, <2>2, <2>5, <2>6, <2>7 DEF Store!Commit
  <2>9. QED BY <2>8 DEF StoreStep
<1>13. QED BY <1>11, <1>12 DEF Lasts

-----------------------------------------------------------------------------
(* The background thread.                                                    *)

\* After a job is given up.
LEMMA GivenUpFacts ==
  ASSUME bg \in BGType, NEW d \in DBType, d.phase = "open", d.mem = db.mem, d.queue = db.queue,
         \/ db' = RecordBackgroundError(d) /\ bg' = [bg EXCEPT !.pc = "merge", !.job = "none"]
         \/ db' = EndCall(RecordBackgroundError(d), vs) /\ bg' = IdleBG
  PROVE  db'.phase = "open" /\ db'.mem = db.mem /\ db'.queue = db.queue /\ db'.err = TRUE /\ bg'.pc # "install"
<1>1. PICK e : e = RecordBackgroundError(d)
  OBVIOUS
<1>2. e \in DBType /\ e.err /\ e.phase = "open" /\ e.mem = db.mem /\ e.queue = db.queue
  BY <1>1, ErrorFacts
<1>3. e.err = TRUE
  BY <1>2 DEF DBType
<1>4. CASE db' = RecordBackgroundError(d) /\ bg' = [bg EXCEPT !.pc = "merge", !.job = "none"]
  BY <1>1, <1>2, <1>3, <1>4, BGChange
<1>5. CASE db' = EndCall(RecordBackgroundError(d), vs) /\ bg' = IdleBG
  <2>1. bg'.pc = "idle"
    BY <1>5 DEF IdleBG
  <2>2. db' = EndCall(e, vs)
    BY <1>1, <1>5
  <2>3. db'.phase = "open" /\ db'.mem = db.mem /\ db'.queue = db.queue /\ db'.err = e.err
    BY <1>2, <2>2, EndCallFacts
  <2>4. QED BY <1>3, <2>1, <2>3
<1>6. QED BY <1>4, <1>5

\* An edit is appended to the manifest.
LEMMA EditLogged ==
  ASSUME Inv, Safe, Lasting, db.phase = "open", NEW e \in FilledEdit,
         e.last = vs.last, e.next = vs.next, e.log \in {db.mem, vs.log},
         NEW x \in Appends(disk.man[vs.man], e), NEW mn, mn = [disk.man EXCEPT ![vs.man] = x],
         disk'.man = mn, disk'.cur = disk.cur, disk'.log = disk.log,
         db'.phase = "open", db'.mem = db.mem, db'.err = db.err, db'.queue = db.queue,
         vs'.last = vs.last, vs'.next = vs.next, vs'.log = vs.log, vs'.man = vs.man,
         wr' = wr, hist' = hist, synced' = synced, bg'.pc = "install", bg'.edit = e
  PROVE  Lasts
<1> DEFINE f == disk.man[vs.man]
<1>1. disk.cur = vs.man /\ vs.man \in DOMAIN disk.man /\ disk.cur # 0 /\ vs.next \in Nat
  BY OpenManifest
<1>2. f \in FileOf(EditType) /\ f.sync <= Len(f.recs)
  BY <1>1, CurrentManifest
<1>3. mn[vs.man] = x
  BY <1>1
<1>4. Grows(f, e, x) /\ x.recs = Append(f.recs, e) /\ f.recs \in Seq(EditType) /\ e \in EditType
  <2>1. e \in EditType
    BY FilledIsEdit
  <2>2. Grows(f, e, x) /\ f.recs \in Seq(EditType)
    BY <1>2, <2>1, AppendsFacts, FileParts
  <2>3. QED BY <2>1, <2>2 DEF Grows
<1> HIDE DEF f
<1>5. /\ vs.log \in Nat /\ db.mem \in Nat /\ vs.last \in Nat /\ vs.log <= db.mem /\ db.mem < vs.next
      /\ db.mem \in DOMAIN disk.log
  BY DEF Inv, Typed, VSType, DBType, Lasting, LogNumbers
<1>6. e.log \in Nat /\ e.next \in Nat /\ e.last \in Nat /\ e.log <= db.mem /\ e.log <= e.next
  BY <1>1, <1>5
<1>7. /\ ManifestField(Append(f.recs, e), "log") = e.log
      /\ ManifestField(Append(f.recs, e), "next") = e.next
      /\ ManifestField(Append(f.recs, e), "last") = e.last
  <2>1. e["log"] # None /\ e["next"] # None /\ e["last"] # None
    BY <1>6 DEF None
  <2>2. QED BY <1>4, <2>1, ManifestFieldAppend
<1>8. ASSUME NEW g \in hist PROVE g \in LoggedFrom(disk.log, e.log) \/ UpToSeq(g, e.last)
  <2>1. UpToSeq(g, vs.last) \/ \E t \in Threads : Busy(t) /\ g = wr[t].ents
    BY DEF Lasting, LastCovers
  <2>2. ASSUME NEW t \in Threads, Busy(t) PROVE wr[t].ents \in LoggedFrom(disk.log, e.log)
    <3>1. db.mem >= e.log
      BY <1>5, <1>6
    <3>2. QED BY <2>2, <3>1, BusyFacts
  <2>3. QED BY <2>1, <2>2
<1>9. Covers(Append(f.recs, e), hist, disk.log)
  BY <1>6, <1>7, <1>8 DEF Covers
<1>10. Covered'
  <2>1. ASSUME NEW recs \in Cuts(x)
        PROVE  Covers(recs, hist, disk.log) /\ ManifestField(recs, "log") <= db.mem
    <3>1. CASE recs \in Cuts(f)
      BY <1>1, <3>1 DEF Lasting, Covered, f
    <3>2. CASE recs = Append(f.recs, e)
      BY <1>6, <1>7, <1>9, <3>2
    <3>3. QED BY <1>2, <1>4, <2>1, <3>1, <3>2, CutsAppend
  <2>2. disk'.man[disk'.cur] = x
    BY <1>1, <1>3
  <2>3. Cuts(disk.man[disk.cur])' = Cuts(x)
    BY <2>2 DEF Cuts, CutPoints
  <2>4. \A recs \in Cuts(disk.man[disk.cur])' :
          Covers(recs, hist, disk.log) /\ ManifestField(recs, "log") <= db.mem
    BY <2>1, <2>3
  <2>5. QED BY <2>4 DEF Covered, Covers, LoggedFrom, UpToSeq
<1>11. EditWrittenLast'
  <2>1. Append(f.recs, e)[Len(Append(f.recs, e))] = e
    BY <1>4, AppendProperties, LenProperties
  <2>2. disk'.man[vs'.man].recs = Append(f.recs, e)
    BY <1>3, <1>4
  <2>3. QED BY <1>6, <2>1, <2>2 DEF EditWrittenLast
<1>12. vs'.next \in Nat /\ vs.next <= vs'.next /\ vs'.log <= db.mem
  BY <1>1, <1>5
<1>13. QED BY <1>10, <1>11, <1>12, SameWriters, SameLogs

\* A flush takes a number, an output is written, a compaction is abandoned.
LEMMA JobGoesOnLasts ==
  ASSUME Inv, Safe, Lasting, StartFlush \/ WriteOutput \/ AbortCompaction
  PROVE  Lasts
<1> DEFINE n == vs.next
<1>1. /\ db.phase = "open" /\ wr' = wr /\ hist' = hist /\ synced' = synced
      /\ db \in DBType /\ vs \in VSType /\ bg \in BGType /\ IsDisk(disk) /\ vs.next \in Nat
  BY DEF StartFlush, WriteOutput, AbortCompaction, CallBegins, Inv, Typed, Quiet, VSType
<1>2. CASE StartFlush \/ WriteOutput
  <2>1. /\ \E p : db' = [db EXCEPT !.pending = p]
        /\ vs' = [vs EXCEPT !.next = n + 1]
        /\ disk' = disk \/ \E x : disk' = [disk EXCEPT !.tab = x]
        /\ (\E m : bg' = [bg EXCEPT !.pc = "build", !.num = m]) \/ (bg.pc = "merge" /\ \E c : bg' = [bg EXCEPT !.comp = c])
    BY <1>2 DEF StartFlush, WriteOutput
  <2>2. db'.phase = "open" /\ db'.mem = db.mem /\ db'.err = db.err /\ db'.queue = db.queue
    BY <1>1, <2>1 DEF DBType
  <2>3. vs'.next = n + 1 /\ vs'.last = vs.last /\ vs'.log = vs.log /\ vs'.man = vs.man
    BY <1>1, <2>1 DEF VSType
  <2>4. disk'.log = disk.log /\ disk'.man = disk.man /\ disk'.cur = disk.cur
    BY <1>1, <2>1 DEF IsDisk
  <2>5. bg'.pc # "install"
    BY <1>1, <2>1 DEF BGType
  <2>6. vs'.next \in Nat /\ vs.next <= vs'.next
    BY <1>1, <2>3
  <2>7. QED BY <1>1, <2>2, <2>3, <2>4, <2>5, <2>6, SameWriters, SameFiles
<1>3. CASE AbortCompaction
  <2>1. PICK w \in bg.comp : db' = EndCall(RecordBackgroundError(Cleaned(w)), vs) /\ bg' = IdleBG
    BY <1>3 DEF AbortCompaction
  <2>2. disk' = disk /\ vs' = vs
    BY <1>3 DEF AbortCompaction
  <2>3. PICK d : d = Cleaned(w)
    OBVIOUS
  <2>4. d \in DBType /\ d.phase = "open" /\ d.mem = db.mem /\ d.queue = db.queue
    BY <1>1, <2>3, CleanedFacts
  <2>5. db' = EndCall(RecordBackgroundError(d), vs)
    BY <2>1, <2>3
  <2>6. db'.phase = "open" /\ db'.mem = db.mem /\ db'.queue = db.queue /\ db'.err = TRUE /\ bg'.pc # "install"
    BY <1>1, <2>1, <2>4, <2>5, GivenUpFacts
  <2>7. vs'.next \in Nat /\ vs.next <= vs'.next
    BY <1>1, <2>2
  <2>8. QED BY <1>1, <2>2, <2>6, <2>7, SameWriters, SameFiles
<1>4. QED BY <1>2, <1>3

\* A table is built and its edit written, or the flush is given up.
LEMMA FlushBuiltLasts ==
  ASSUME Inv, Safe, Lasting, FlushBuilt
  PROVE  Lasts
<1> DEFINE es == mems[db.imm]
           d == [db EXCEPT !.pending = db.pending \ {bg.num}]
           f == FileMeta(bg.num, es)
           l == PickLevelForMemTableOutput(vs.ver, f.small.u, f.large.u)
           add == IF es = {} THEN {} ELSE {<<l, f>>}
           edit == Filled(vs, db.mem, {}, {}, add)
           tab == IF es = {} THEN disk.tab ELSE With(disk.tab, bg.num, Synced(NewFile(<<es>>)))
<1>1. bg.pc = "build" /\ vs' = vs /\ wr' = wr /\ hist' = hist /\ synced' = synced
  BY DEF FlushBuilt
<1>2. \/ /\ \E m \in Appends(disk.man[vs.man], edit) : disk' = [disk EXCEPT !.tab = tab, !.man[vs.man] = m]
         /\ bg' = [bg EXCEPT !.pc = "install", !.job = "flush", !.edit = edit]
         /\ db' = d
      \/ disk' = [disk EXCEPT !.tab = tab] /\ GiveUp(d, vs)
      \/ disk' = disk /\ GiveUp(d, vs)
  BY DEF FlushBuilt
<1>3. /\ vs \in VSType /\ db \in DBType /\ bg \in BGType /\ IsDisk(disk) /\ bg.num \in Nat /\ db.mem \in Nat
      /\ db.phase = "open" /\ vs.next \in Nat
  BY <1>1 DEF Inv, Typed, DBType, BGType, Quiet, VSType
<1>4. es \in EntrySets
  BY <1>1 DEF Inv, Typed, MemRefs, IsMems
<1>5. add \in Adds
  <2>1. {} \in Adds
    BY FS_EmptySet DEF Adds
  <2>2. CASE es = {}
    BY <2>1, <2>2
  <2>3. CASE es # {}
    <3>1. l \in Levels
      BY PickLevelType
    <3>2. f \in FileType
      <4> HIDE DEF es
      <4> QED BY <1>3, <1>4, <2>3, TableFacts DEF Groups
    <3>3. add = {} \cup {<<l, f>>}
      BY <2>3
    <3> HIDE DEF l, f, add
    <3>4. QED BY <2>1, <3>1, <3>2, <3>3, AddsAdd
  <2>4. QED BY <2>2, <2>3
<1> HIDE DEF add, tab
<1>6. edit \in FilledEdit /\ edit.next = vs.next /\ edit.last = vs.last /\ edit.log = db.mem
  BY <1>3, <1>5, FilledType
<1> HIDE DEF edit, es, f, l
<1>7. d \in DBType /\ d.phase = "open" /\ d.err = db.err /\ d.mem = db.mem /\ d.queue = db.queue
  BY <1>3 DEF DBType
<1> HIDE DEF d
<1>8. CASE /\ \E m \in Appends(disk.man[vs.man], edit) : disk' = [disk EXCEPT !.tab = tab, !.man[vs.man] = m]
           /\ bg' = [bg EXCEPT !.pc = "install", !.job = "flush", !.edit = edit]
           /\ db' = d
  <2>1. bg'.pc = "install" /\ bg'.edit = edit
    BY <1>3, <1>6, <1>8, BGChange
  <2>2. PICK g \in Appends(disk.man[vs.man], edit) : disk' = [disk EXCEPT !.tab = tab, !.man[vs.man] = g]
    BY <1>8
  <2>3. PICK m : m = [disk.man EXCEPT ![vs.man] = g]
    OBVIOUS
  <2>4. disk' = [disk EXCEPT !.tab = tab, !.man = m]
    BY <2>2, <2>3
  <2>5. disk'.log = disk.log /\ disk'.man = m /\ disk'.cur = disk.cur
    BY <1>3, <2>4 DEF IsDisk
  <2>6. /\ db'.phase = "open" /\ db'.err = db.err /\ db'.mem = db.mem /\ db'.queue = db.queue
        /\ vs'.man = vs.man /\ vs'.last = vs.last /\ vs'.next = vs.next /\ vs'.log = vs.log
        /\ edit.log \in {db.mem, vs.log}
    BY <1>1, <1>6, <1>7, <1>8
  <2>7. QED BY <1>1, <1>3, <1>6, <2>1, <2>3, <2>5, <2>6, EditLogged
<1>9. CASE (disk' = [disk EXCEPT !.tab = tab] \/ disk' = disk) /\ GiveUp(d, vs)
  <2>1. disk'.man = disk.man /\ disk'.cur = disk.cur /\ disk'.log = disk.log
    BY <1>3, <1>9 DEF IsDisk
  <2>2. PICK x : x = d
    OBVIOUS
  <2>3. \/ db' = RecordBackgroundError(x) /\ bg' = [bg EXCEPT !.pc = "merge", !.job = "none"]
        \/ db' = EndCall(RecordBackgroundError(x), vs) /\ bg' = IdleBG
    BY <1>9, <2>2 DEF GiveUp
  <2>4. x \in DBType /\ x.phase = "open" /\ x.mem = db.mem /\ x.queue = db.queue
    BY <1>7, <2>2
  <2>5. db'.phase = "open" /\ db'.mem = db.mem /\ db'.queue = db.queue /\ db'.err = TRUE /\ bg'.pc # "install"
    BY <1>3, <2>3, <2>4, GivenUpFacts
  <2>6. vs'.next \in Nat /\ vs.next <= vs'.next
    BY <1>1, <1>3
  <2>7. QED BY <1>1, <1>3, <2>1, <2>5, <2>6, SameWriters, SameFiles
<1>10. QED BY <1>2, <1>8, <1>9

\* A compaction starts: a file moved down by an edit, or a merge.
LEMMA StartCompactionLasts ==
  ASSUME Inv, Safe, Lasting, StartCompaction
  PROVE  Lasts
<1> DEFINE f(c) == CHOOSE x \in c.in0 : TRUE
           move(c) == Filled(vs, vs.log, {<<c.level, c.large>>}, {<<c.level, f(c).num>>}, {<<c.level + 1, f(c)>>})
<1>1. PICK c \in Picked :
        /\ vs' = [vs EXCEPT !.ptr[c.level] = c.large]
        /\ \/ /\ bg' = [bg EXCEPT !.pc = "install", !.job = "move", !.edit = move(c)]
              /\ \E x \in Appends(disk.man[vs.man], move(c)) : disk' = [disk EXCEPT !.man = [disk.man EXCEPT ![vs.man] = x]]
           \/ /\ \E w : bg' = [bg EXCEPT !.pc = "merge", !.comp = {w}]
              /\ disk' = disk
  BY DEF StartCompaction
<1>2. db.phase = "open" /\ db' = db /\ wr' = wr /\ hist' = hist /\ synced' = synced
  BY DEF StartCompaction, CallBegins
<1>3. /\ vs \in VSType /\ db \in DBType /\ bg \in BGType /\ IsDisk(disk) /\ vs.log \in Nat /\ vs.next \in Nat
  BY DEF Inv, Typed, VSType, DBType
<1>4. /\ c.level \in 0 .. NumLevels - 2 /\ c.in0 \in FileSets /\ c.large \in IKeyType /\ c.in0 # {}
  BY PickedType DEF CompactionOf, CompactionType
<1>5. c.level \in Levels /\ c.level + 1 \in Levels
  BY <1>4, ConfigAssumption DEF Levels
<1>6. vs'.man = vs.man /\ vs'.last = vs.last /\ vs'.next = vs.next /\ vs'.log = vs.log
  BY <1>1, <1>3 DEF VSType
<1> DEFINE g == f(c)
           e == move(c)
<1>7. g \in c.in0
  BY <1>4
<1>8. e = Filled(vs, vs.log, {<<c.level, c.large>>}, {<<c.level, g.num>>}, {<<c.level + 1, g>>})
  OBVIOUS
<1> HIDE DEF g, e
<1>9. g \in FileType /\ g.num \in Nat
  BY <1>4, <1>7 DEF FileSets, FileType
<1>10. e \in FilledEdit /\ e.next = vs.next /\ e.last = vs.last /\ e.log = vs.log
  <2>1. {} \cup {<<c.level + 1, g>>} \in Adds
    <3>1. {} \in Adds
      BY FS_EmptySet DEF Adds
    <3>2. QED BY <1>5, <1>9, <3>1, AddsAdd
  <2>2. {<<c.level, c.large>>} \in SUBSET (Levels \X IKeyType) /\ {<<c.level, g.num>>} \in SUBSET (Levels \X Nat)
    BY <1>4, <1>5, <1>9
  <2>3. PICK p, k, a : p = {<<c.level, c.large>>} /\ k = {<<c.level, g.num>>} /\ a = {<<c.level + 1, g>>}
    OBVIOUS
  <2>4. p \in SUBSET (Levels \X IKeyType) /\ k \in SUBSET (Levels \X Nat) /\ a \in Adds
    BY <2>1, <2>2, <2>3
  <2>5. e = Filled(vs, vs.log, p, k, a)
    BY <1>8, <2>3
  <2>6. QED BY <1>3, <2>4, <2>5, FilledType
<1>11. CASE /\ bg' = [bg EXCEPT !.pc = "install", !.job = "move", !.edit = e]
            /\ \E x \in Appends(disk.man[vs.man], e) : disk' = [disk EXCEPT !.man = [disk.man EXCEPT ![vs.man] = x]]
  <2>1. bg'.pc = "install" /\ bg'.edit = e
    BY <1>3, <1>10, <1>11, BGChange
  <2>2. PICK x \in Appends(disk.man[vs.man], e) : disk' = [disk EXCEPT !.man = [disk.man EXCEPT ![vs.man] = x]]
    BY <1>11
  <2>3. PICK mn : mn = [disk.man EXCEPT ![vs.man] = x]
    OBVIOUS
  <2>4. disk'.man = mn /\ disk'.log = disk.log /\ disk'.cur = disk.cur
    BY <1>3, <2>3, <2>2, DiskChange
  <2>5. /\ db'.phase = "open" /\ db'.err = db.err /\ db'.mem = db.mem /\ db'.queue = db.queue
        /\ e.log \in {db.mem, vs.log}
    BY <1>2, <1>10
  <2>6. QED BY <1>2, <1>6, <1>10, <2>1, <2>3, <2>4, <2>5, EditLogged
<1>12. CASE (\E w : bg' = [bg EXCEPT !.pc = "merge", !.comp = {w}]) /\ disk' = disk
  <2>1. bg'.pc = "merge"
    BY <1>3, <1>12 DEF BGType
  <2>2. vs'.next \in Nat /\ vs.next <= vs'.next
    BY <1>3, <1>6
  <2>3. QED BY <1>2, <1>6, <1>12, <2>1, <2>2, SameWriters, SameFiles
<1>13. QED BY <1>1, <1>11, <1>12 DEF e

\* The results of a compaction go to the manifest.
LEMMA ApplyCompactionLasts ==
  ASSUME Inv, Safe, Lasting, ApplyCompaction
  PROVE  Lasts
<1> DEFINE del(w) == {<<w.c.level, f.num>> : f \in w.c.in0} \cup {<<w.c.level + 1, f.num>> : f \in w.c.in1}
           add(w) == {<<w.c.level + 1, f>> : f \in w.outs}
           edit(w) == Filled(vs, vs.log, {<<w.c.level, w.c.large>>}, del(w), add(w))
<1>1. PICK w \in bg.comp :
        /\ \E x \in Appends(disk.man[vs.man], edit(w)) : disk' = [disk EXCEPT !.man = [disk.man EXCEPT ![vs.man] = x]]
        /\ bg' = [bg EXCEPT !.pc = "install", !.job = "compact", !.edit = edit(w)]
  BY DEF ApplyCompaction
<1>2. bg.pc = "merge" /\ vs' = vs /\ db' = db /\ wr' = wr /\ hist' = hist /\ synced' = synced
  BY DEF ApplyCompaction
<1>3. vs \in VSType /\ bg \in BGType /\ IsDisk(disk) /\ w \in WorkType /\ bg.comp # {} /\ db.phase = "open"
  BY <1>2 DEF Inv, Typed, BGType, Quiet
<1>4. edit(w) \in FilledEdit
  BY <1>3, CompactionEditType
<1>5. edit(w).next = vs.next /\ edit(w).last = vs.last /\ edit(w).log = vs.log
  BY DEF Filled, Edit
<1> DEFINE e == edit(w)
<1>6. /\ \E x \in Appends(disk.man[vs.man], e) : disk' = [disk EXCEPT !.man = [disk.man EXCEPT ![vs.man] = x]]
      /\ bg' = [bg EXCEPT !.pc = "install", !.job = "compact", !.edit = e] /\ e \in FilledEdit
      /\ e.next = vs.next /\ e.last = vs.last /\ e.log = vs.log
  BY <1>1, <1>4, <1>5
<1> HIDE DEF e, edit, add, del
<1>7. bg'.pc = "install" /\ bg'.edit = e
  BY <1>3, <1>6, BGChange
<1>8. PICK x \in Appends(disk.man[vs.man], e) : disk' = [disk EXCEPT !.man = [disk.man EXCEPT ![vs.man] = x]]
  BY <1>6
<1>9. PICK mn : mn = [disk.man EXCEPT ![vs.man] = x]
  OBVIOUS
<1>10. disk'.man = mn /\ disk'.log = disk.log /\ disk'.cur = disk.cur
  BY <1>3, <1>9, <1>8, DiskChange
<1>11. /\ db'.phase = "open" /\ db'.err = db.err /\ db'.mem = db.mem /\ db'.queue = db.queue
       /\ vs'.man = vs.man /\ vs'.last = vs.last /\ vs'.next = vs.next /\ vs'.log = vs.log
       /\ e.log \in {db.mem, vs.log}
  BY <1>2, <1>3, <1>6
<1>12. QED BY <1>2, <1>3, <1>6, <1>7, <1>9, <1>10, <1>11, EditLogged

\* The manifest keeps at most the cuts it had.
LEMMA FewerCuts ==
  ASSUME Lasting, hist' = hist, disk'.log = disk.log, disk'.cur = disk.cur,
         db.phase = "open", db'.mem = db.mem,
         NEW f, disk'.man[disk.cur] = f, Cuts(f) \subseteq Cuts(disk.man[disk.cur])
  PROVE  Covered'
<1>1. Cuts(disk.man[disk.cur])' = Cuts(f)
  BY DEF Cuts, CutPoints
<1>2. disk.cur # 0 => \A recs \in Cuts(f) : Covers(recs, hist, disk.log) /\ ManifestField(recs, "log") <= db.mem
  BY DEF Lasting, Covered
<1>3. QED BY <1>1, <1>2 DEF Covered, Covers, LoggedFrom, UpToSeq

\* The manifest record could not be written or synced.
LEMMA InstallFailsLasts ==
  ASSUME Inv, Safe, Lasting, InstallFails
  PROVE  Lasts
<1> DEFINE f == disk.man[vs.man]
           g == Torn(f)
           mn == [disk.man EXCEPT ![vs.man] = g]
<1>1. /\ bg.pc = "install" /\ vs' = vs /\ wr' = wr /\ hist' = hist /\ synced' = synced
      /\ disk' = disk \/ disk' = [disk EXCEPT !.man = mn]
      /\ \/ bg.job = "compact" /\ \E w \in bg.comp : GiveUp(Cleaned(w), vs)
         \/ GiveUp(db, vs)
  BY DEF InstallFails
<1>2. db \in DBType /\ bg \in BGType /\ IsDisk(disk) /\ db.phase = "open" /\ vs.next \in Nat
  BY <1>1 DEF Inv, Typed, Quiet, VSType
<1>3. disk.cur = vs.man /\ vs.man \in DOMAIN disk.man /\ f \in FileOf(EditType) /\ f.sync <= Len(f.recs)
  BY <1>2, OpenManifest, CurrentManifest
<1>4. f.sync < Len(f.recs)
  BY <1>1, <1>2 DEF Safe, OpenSafe
<1> HIDE DEF f
<1>5. Cuts(g) \subseteq Cuts(f)
  BY <1>3, <1>4, CutsStay
<1>6. mn[vs.man] = g /\ vs.man \in DOMAIN mn
  BY <1>3
<1> HIDE DEF g, mn
<1>7. /\ disk'.cur = disk.cur /\ disk'.log = disk.log
      /\ \E h : disk'.man[disk.cur] = h /\ Cuts(h) \subseteq Cuts(disk.man[disk.cur])
  <2>1. CASE disk' = disk
    BY <2>1
  <2>2. CASE disk' = [disk EXCEPT !.man = mn]
    <3>1. disk'.man = mn /\ disk'.log = disk.log /\ disk'.cur = disk.cur
      BY <1>2, <2>2, DiskChange
    <3>2. QED BY <1>3, <1>5, <1>6, <3>1 DEF f
  <2>3. QED BY <1>1, <2>1, <2>2
<1>8. PICK d :
        /\ d \in DBType /\ d.phase = "open" /\ d.mem = db.mem /\ d.queue = db.queue
        /\ \/ db' = RecordBackgroundError(d) /\ bg' = [bg EXCEPT !.pc = "merge", !.job = "none"]
           \/ db' = EndCall(RecordBackgroundError(d), vs) /\ bg' = IdleBG
  <2>1. CASE GiveUp(db, vs)
    <3>1. \/ db' = RecordBackgroundError(db) /\ bg' = [bg EXCEPT !.pc = "merge", !.job = "none"]
          \/ db' = EndCall(RecordBackgroundError(db), vs) /\ bg' = IdleBG
      BY <2>1 DEF GiveUp
    <3>2. QED BY <1>2, <3>1
  <2>2. CASE bg.job = "compact" /\ \E w \in bg.comp : GiveUp(Cleaned(w), vs)
    <3>1. PICK w \in bg.comp : GiveUp(Cleaned(w), vs)
      BY <2>2
    <3>2. db' = EndCall(RecordBackgroundError(Cleaned(w)), vs) /\ bg' = IdleBG
      BY <2>2, <3>1 DEF GiveUp
    <3>3. PICK x : x = Cleaned(w)
      OBVIOUS
    <3>4. x \in DBType /\ x.phase = "open" /\ x.mem = db.mem /\ x.queue = db.queue
      BY <1>2, <3>3, CleanedFacts
    <3>5. QED BY <3>2, <3>3, <3>4
  <2>3. QED BY <1>1, <2>1, <2>2
<1>9. db'.phase = "open" /\ db'.mem = db.mem /\ db'.queue = db.queue /\ db'.err = TRUE /\ bg'.pc # "install"
  BY <1>2, <1>8, GivenUpFacts
<1>10. Covered'
  BY <1>1, <1>2, <1>7, <1>9, FewerCuts
<1>11. EditWrittenLast'
  BY <1>9 DEF EditWrittenLast
<1>12. vs'.next \in Nat /\ vs.next <= vs'.next /\ vs'.log <= db.mem
  BY <1>1, <1>2 DEF Lasting, LogNumbers
<1>13. QED BY <1>1, <1>2, <1>7, <1>9, <1>10, <1>11, <1>12, SameWriters, SameLogs

KeptFrom(part, logs, k) == part = logs \/ part = Restrict(logs, {n \in DOMAIN logs : n >= k})

\* The logs from a number on.
LEMMA KeptLogs ==
  ASSUME NEW logs, NEW k, NEW part, KeptFrom(part, logs, k)
  PROVE  /\ DOMAIN part \subseteq DOMAIN logs /\ \A n \in DOMAIN part : part[n] = logs[n]
         /\ \A n \in DOMAIN logs : n >= k => n \in DOMAIN part
         /\ PartOf(part, logs) /\ LoggedFrom(part, k) = LoggedFrom(logs, k)
<1> DEFINE S == {n \in DOMAIN logs : n >= k}
<1>1. /\ DOMAIN part \subseteq DOMAIN logs /\ \A n \in DOMAIN part : part[n] = logs[n]
      /\ \A n \in DOMAIN logs : n >= k => n \in DOMAIN part
  <2>1. CASE part = logs
    BY <2>1
  <2>2. CASE part = Restrict(logs, S)
    <3>1. DOMAIN part = S /\ \A n \in S : part[n] = logs[n]
      <4> HIDE DEF S
      <4> QED BY <2>2, RestrictTo
    <3>2. QED BY <3>1
  <2>3. QED BY <2>1, <2>2 DEF KeptFrom
<1>2. PartOf(part, logs)
  BY <1>1 DEF PartOf
<1>3. LoggedFrom(part, k) \subseteq LoggedFrom(logs, k)
  BY <1>2, PartLogged
<1>4. ASSUME NEW g \in LoggedFrom(logs, k) PROVE g \in LoggedFrom(part, k)
  <2>1. PICK n \in DOMAIN logs : n >= k /\ \E i \in DOMAIN logs[n].recs : logs[n].recs[i] = g
    BY InLogs
  <2>2. n \in DOMAIN part /\ part[n] = logs[n]
    BY <1>1, <2>1
  <2>3. QED BY <2>1, <2>2, InLogs
<1>5. QED BY <1>1, <1>2, <1>3, <1>4

\* An open database deletes logs it needs no more.
LEMMA OldLogsGo ==
  ASSUME Inv, Lasting, db.phase = "open", db'.phase = "open", hist' = hist, synced' = synced, wr' = wr,
         db'.mem = db.mem, db'.err = db.err, db'.queue = db.queue, vs'.last = vs.last, vs'.next = vs.next,
         vs'.log \in Nat, vs'.log <= db.mem, bg'.pc # "install", Covered',
         NEW k, vs'.log = k, NEW lg, disk'.log = lg, KeptFrom(lg, disk.log, k)
  PROVE  Lasts
<1>1. db.mem \in Nat /\ DOMAIN disk.log \subseteq Nat /\ db.mem \in DOMAIN disk.log
  BY DEF Inv, Typed, DBType, IsDisk, IsDir, Lasting, LogNumbers
<1>2. k \in Nat /\ k <= db.mem
  OBVIOUS
<1>3. /\ DOMAIN lg \subseteq DOMAIN disk.log /\ \A n \in DOMAIN lg : lg[n] = disk.log[n]
      /\ \A n \in DOMAIN disk.log : n >= k => n \in DOMAIN lg
      /\ PartOf(lg, disk.log)
  BY KeptLogs
<1>4. db.mem >= k
  BY <1>1, <1>2
<1>5. db.mem \in DOMAIN lg /\ lg[db.mem] = disk.log[db.mem]
  BY <1>1, <1>3, <1>4
<1>6. Distinct(hist, disk.log)'
  <2>1. Distinct(hist, disk.log)
    BY DEF Lasting
  <2>2. Distinct(hist, lg)
    BY <1>3, <2>1, FewerDistinct
  <2>3. QED BY <2>2 DEF Distinct, LoggedFrom, Apart
<1>7. LogsKnown'
  <2>1. SUFFICES ASSUME NEW n \in DOMAIN lg, NEW g \in Range(lg[n].recs)
                 PROVE  \/ g \in hist
                        \/ n = db.mem /\ (db.err = TRUE \/ \E t \in Threads : wr[t].pc = "logged" /\ g = wr[t].ents)
    BY DEF LogsKnown
  <2>2. n \in DOMAIN disk.log /\ g \in Range(disk.log[n].recs)
    BY <1>3
  <2>3. QED BY <2>2 DEF Lasting, LogsKnown
<1>8. LogNumbers'
  BY <1>3, <1>5 DEF Lasting, LogNumbers
<1>9. LastCovers'
  <2>1. LoggedFrom(lg, 0) \subseteq LoggedFrom(disk.log, 0)
    BY <1>3, PartLogged
  <2>2. LoggedFrom(disk.log, 0)' = LoggedFrom(lg, 0)
    BY DEF LoggedFrom
  <2>3. \A g \in hist \cup LoggedFrom(lg, 0) : UpToSeq(g, vs.last) \/ \E t \in Threads : Busy(t) /\ g = wr[t].ents
    BY <2>1 DEF Lasting, LastCovers
  <2>4. QED BY <2>2, <2>3 DEF LastCovers, UpToSeq, Busy
<1>10. Leading'
  BY <1>5 DEF Lasting, Leading, Busy
<1>11. SyncedKept'
  BY <1>3 DEF Lasting, SyncedKept
<1>12. EditWrittenLast'
  BY DEF EditWrittenLast
<1>13. OutOfReach'
  <2>1. \A n \in DOMAIN lg : lg[n].bad # {} => lg[n].torn = TRUE
    BY <1>3 DEF Lasting, OutOfReach
  <2>2. QED BY <2>1 DEF OutOfReach
<1>14. StoreStep
  BY SameStore
<1>15. QED BY <1>6, <1>7, <1>8, <1>9, <1>10, <1>11, <1>12, <1>13, <1>14 DEF Lasts, Lasting

\* A new version is installed; the logs the edit retires go with everything
\* else that is obsolete.
LEMMA InstallLasts ==
  ASSUME Inv, Safe, Lasting, Install
  PROVE  Lasts
<1> DEFINE e == bg.edit
           v == Installed(vs, e)
           f == disk.man[vs.man]
           mn == [disk.man EXCEPT ![vs.man] = Synced(f)]
           d == [disk EXCEPT !.man = mn]
           pend == db.pending \ {x.num : x \in UNION {w.outs : w \in bg.comp}}
           flushed == [db EXCEPT !.imm = 0]
           cleaned == [db EXCEPT !.pending = pend, !.manual = FALSE]
<1>1. /\ bg.pc = "install" /\ vs' = v /\ wr' = wr /\ hist' = hist /\ synced' = synced
      /\ disk' = d \/ \E live : disk' = DeleteObsolete(d, v, db.err, live)
      /\ \E now \in {flushed, cleaned, db} :
           \/ db' = SignalAll(now) /\ bg' = [bg EXCEPT !.pc = "merge", !.job = "none"]
           \/ db' = EndCall(now, v) /\ bg' = IdleBG
  <2> HIDE DEF v, d, flushed, cleaned
  <2> QED BY DEF Install, v, d, mn, f, e, flushed, cleaned, pend
<1>2. /\ vs \in VSType /\ db \in DBType /\ bg \in BGType /\ IsDisk(disk) /\ e \in FilledEdit
      /\ db.pending \in SUBSET Nat /\ db.phase = "open" /\ e.log \in Nat
  BY <1>1 DEF Inv, Typed, BGType, DBType, Quiet, FilledEdit
<1>3. v.next = vs.next /\ v.man = vs.man /\ v.last = vs.last /\ v.log = e.log
  BY <1>2, InstalledType
<1>4. disk.cur = vs.man /\ vs.man \in DOMAIN disk.man /\ disk.cur # 0 /\ f \in FileOf(EditType) /\ f.sync <= Len(f.recs)
  BY <1>2, OpenManifest, CurrentManifest
<1>5. f.recs[Len(f.recs)] = e /\ e.log <= db.mem /\ f.sync < Len(f.recs)
  BY <1>1, <1>2 DEF Lasting, EditWrittenLast, Safe, OpenSafe
<1>6. /\ db'.phase = "open" /\ db'.mem = db.mem /\ db'.err = db.err /\ db'.queue = db.queue
      /\ bg'.pc # "install"
  <2>1. pend \in SUBSET Nat
    BY <1>2
  <2> HIDE DEF pend, v
  <2>2. PICK now \in {flushed, cleaned, db} :
          \/ db' = SignalAll(now) /\ bg' = [bg EXCEPT !.pc = "merge", !.job = "none"]
          \/ db' = EndCall(now, v) /\ bg' = IdleBG
    BY <1>1
  <2>3. /\ flushed \in DBType /\ flushed.phase = "open" /\ flushed.err = db.err /\ flushed.mem = db.mem
        /\ flushed.queue = db.queue
    BY <1>2 DEF DBType
  <2>4. /\ cleaned \in DBType /\ cleaned.phase = "open" /\ cleaned.err = db.err /\ cleaned.mem = db.mem
        /\ cleaned.queue = db.queue
    BY <1>2, <2>1 DEF DBType
  <2> HIDE DEF flushed, cleaned
  <2>5. now \in DBType /\ now.phase = "open" /\ now.err = db.err /\ now.mem = db.mem /\ now.queue = db.queue
    BY <1>2, <2>2, <2>3, <2>4
  <2>6. CASE db' = SignalAll(now) /\ bg' = [bg EXCEPT !.pc = "merge", !.job = "none"]
    <3>1. bg'.pc = "merge"
      BY <1>2, <2>6, BGChange
    <3>2. QED BY <2>5, <2>6, <3>1 DEF DBType, SignalAll
  <2>7. CASE db' = EndCall(now, v) /\ bg' = IdleBG
    BY <2>5, <2>7, EndCallFacts DEF IdleBG
  <2>8. QED BY <2>2, <2>6, <2>7
<1> HIDE DEF v, e, f, flushed, cleaned, pend
<1>7. /\ Synced(f) \in FileOf(EditType) /\ Cuts(Synced(f)) \subseteq Cuts(f) /\ f.recs \in Cuts(f)
      /\ db.err \/ Cuts(Synced(f)) \subseteq {f.recs}
  <2>1. Len(f.recs) > 0
    BY <1>4, <1>5, LenProperties DEF FileOf
  <2>2. db.err \/ f.bad = {}
    BY <1>2 DEF Safe, InStep, Legible, f
  <2>3. QED BY <1>4, <2>1, <2>2, FileFacts, CutsStay, CutsWhole
<1>8. vs.man \in DOMAIN mn /\ mn[vs.man] = Synced(f) /\ IsDir(mn, EditType)
  <2>1. IsDir(disk.man, EditType)
    BY <1>2 DEF IsDisk
  <2>2. QED BY <1>4, <1>7, <2>1, DirUpdate
<1> HIDE DEF mn
<1>9. IsDisk(d) /\ d.man = mn /\ d.log = disk.log /\ d.cur = disk.cur
  <2>1. IsDisk(disk) /\ IsDir(mn, EditType)
    BY <1>2, <1>8
  <2>2. IsDisk([disk EXCEPT !.man = mn])
    BY <2>1, DiskChange
  <2>3. d.man = mn /\ d.log = disk.log /\ d.cur = disk.cur
    BY <2>1, DiskChange
  <2>4. QED BY <2>2, <2>3
<1> HIDE DEF d
<1>10. PICK lg : /\ disk'.log = lg /\ disk'.cur = disk.cur /\ disk'.man[vs.man] = Synced(f)
                 /\ KeptFrom(lg, disk.log, e.log) /\ (db.err => lg = disk.log)
  <2>1. CASE disk' = d
    BY <1>8, <1>9, <2>1 DEF KeptFrom
  <2>2. CASE disk' # d
    <3>1. PICK live : disk' = DeleteObsolete(d, v, db.err, live)
      BY <1>1, <2>2
    <3>2. ~db.err
      BY <2>2, <3>1 DEF DeleteObsolete
    <3> DEFINE S == {n \in DOMAIN mn : n >= v.man}
               lg == Restrict(disk.log, {n \in DOMAIN disk.log : n >= e.log})
    <3>3. disk'.cur = disk.cur /\ disk'.man = Restrict(mn, S) /\ disk'.log = lg
      <4>1. disk' = [d EXCEPT !.log = Restrict(d.log, {n \in DOMAIN d.log : n >= v.log}),
                              !.man = Restrict(d.man, {n \in DOMAIN d.man : n >= v.man}),
                              !.tab = Restrict(d.tab, DOMAIN d.tab \cap live)]
        BY <3>1, <3>2 DEF DeleteObsolete
      <4>2. /\ {n \in DOMAIN d.log : n >= v.log} = {n \in DOMAIN disk.log : n >= e.log}
            /\ {n \in DOMAIN d.man : n >= v.man} = S
        BY <1>3, <1>9
      <4>3. disk' = [d EXCEPT !.log = lg, !.man = Restrict(mn, S), !.tab = Restrict(d.tab, DOMAIN d.tab \cap live)]
        BY <1>9, <4>1, <4>2, Zenon
      <4> HIDE DEF S, lg
      <4>4. QED BY <1>9, <4>3 DEF IsDisk
    <3>4. vs.man \in S
      BY <1>2, <1>3, <1>8 DEF VSType
    <3> HIDE DEF S
    <3>5. disk'.man[vs.man] = Synced(f)
      BY <1>8, <3>3, <3>4, RestrictTo
    <3>6. QED BY <3>2, <3>3, <3>5 DEF KeptFrom
  <2>3. QED BY <2>1, <2>2
<1>11. ManifestField(f.recs, "log") = e.log
  <2>1. f.recs \in Seq(EditType) /\ Len(f.recs) > 0
    BY <1>4, <1>5, LenProperties DEF FileOf
  <2>2. f.recs[Len(f.recs)]["log"] = e.log /\ e.log # None
    BY <1>2, <1>5 DEF None
  <2>3. QED BY <2>1, <2>2, ManifestFieldLast
<1>12. LoggedFrom(lg, e.log) = LoggedFrom(disk.log, e.log)
  <2>1. PICK k : k = e.log
    OBVIOUS
  <2>2. QED BY <1>10, <2>1, KeptLogs
<1>13. Covered'
  <2>1. Covers(f.recs, hist, disk.log)
    BY <1>4, <1>7 DEF Lasting, Covered, f
  <2>2. Covers(f.recs, hist, lg)
    BY <1>11, <1>12, <2>1 DEF Covers
  <2>3. Cuts(disk.man[disk.cur])' = Cuts(Synced(f))
    BY <1>4, <1>10 DEF Cuts, CutPoints
  <2>4. ASSUME NEW recs \in Cuts(Synced(f)) PROVE Covers(recs, hist, lg) /\ ManifestField(recs, "log") <= db.mem
    <3>1. CASE db.err
      <4>1. lg = disk.log /\ recs \in Cuts(f)
        BY <1>7, <1>10, <3>1
      <4>2. QED BY <1>2, <1>4, <4>1 DEF Lasting, Covered, f
    <3>2. CASE ~db.err
      BY <1>5, <1>7, <1>11, <2>2, <3>2
    <3>3. QED BY <3>1, <3>2
  <2>5. \A recs \in Cuts(disk.man[disk.cur])' : Covers(recs, hist, lg) /\ ManifestField(recs, "log") <= db.mem
    BY <2>3, <2>4
  <2>6. QED BY <1>1, <1>6, <1>10, <2>5 DEF Covered, Covers, LoggedFrom, UpToSeq
<1>14. /\ vs'.last = vs.last /\ vs'.next = vs.next /\ vs'.log = e.log /\ vs'.log \in Nat /\ vs'.log <= db.mem
  BY <1>1, <1>2, <1>3, <1>5
<1>15. PICK k : vs'.log = k /\ KeptFrom(lg, disk.log, k)
  BY <1>10, <1>14
<1>16. QED BY <1>1, <1>2, <1>6, <1>10, <1>13, <1>14, <1>15, OldLogsGo

-----------------------------------------------------------------------------
(* Opening.                                                                  *)

\* A database that is not open has nobody past the log and no edit under way.
LEMMA NotOpenLasts ==
  ASSUME NEW h, NEW lg, hist' = h, disk'.log = lg, Distinct(h, lg), \A n \in DOMAIN lg : Readable(lg[n]) \subseteq h,
         OutOfReach', db'.phase # "open", \A t \in Threads : wr'[t].pc = "idle", bg'.pc = "idle",
         Covered', LogNumbers', LastCovers', SyncedKept', StoreStep
  PROVE  Lasts
<1>1. Distinct(hist, disk.log)'
  <2>1. Distinct(hist', disk'.log)
    OBVIOUS
  <2>2. QED BY ONLY <2>1 DEF Distinct, LoggedFrom, Apart
<1>2. LogsKnown'
  BY DEF LogsKnown, Readable
<1>3. Leading' /\ EditWrittenLast'
  BY DEF Leading, Busy, EditWrittenLast
<1>4. QED BY <1>1, <1>2, <1>3 DEF Lasts, Lasting

\* A database that stays not open, with the same manifest, logs and groups.
LEMMA StaysOutOfReach ==
  ASSUME Lasting, db.phase # "open", disk'.log = disk.log, hist' = hist,
         disk.cur # 0, disk'.cur = disk.cur, disk'.man[disk.cur] = disk.man[disk.cur]
  PROVE  OutOfReach'
BY DEF Lasting, OutOfReach

\* NewDB: there is nothing yet.
LEMMA NewDBLasts ==
  ASSUME Inv, Safe, Lasting, NewDB
  PROVE  Lasts
<1> DEFINE f == NewFile(<<NewDBEdit>>)
           mn == With(disk.man, 1, f)
<1>1. /\ db.phase = "closed" /\ disk.cur = 0 /\ disk' = [disk EXCEPT !.man = mn, !.cur = 1]
      /\ db' = db /\ vs' = vs /\ bg' = bg /\ wr' = wr /\ hist' = hist /\ synced' = synced
  BY DEF NewDB
<1>2. mn[1] = f
  BY DEF With
<1>3. hist = {} /\ \A n \in DOMAIN disk.log : Readable(disk.log[n]) \subseteq hist
  BY <1>1, NotOpenFacts DEF Safe, Founded
<1>4. /\ NewDBEdit \in FilledEdit /\ NewDBEdit.log = 0 /\ NewDBEdit.next = 2
      /\ <<NewDBEdit>> \in Seq(EditType) /\ Len(<<NewDBEdit>>) = 1 /\ <<NewDBEdit>>[1] = NewDBEdit
  BY NewDBEditType, FilledIsEdit DEF NewDBEdit, Edit
<1>5. Cuts(f) \subseteq {<<NewDBEdit>>}
  <2>1. f.recs = <<NewDBEdit>> /\ f.sync = 0
    BY DEF NewFile
  <2>2. SubSeq(<<NewDBEdit>>, 1, 1) = <<NewDBEdit>>
    BY <1>4, SubSeqFull
  <2>3. \A n \in 0 .. 1 : n > 0 => n = 1
    OBVIOUS
  <2> HIDE DEF f
  <2>4. QED BY <1>4, <2>1, <2>2, <2>3 DEF Cuts, CutPoints
<1> HIDE DEF mn, f
<1>6. disk'.man = mn /\ disk'.cur = 1 /\ disk'.log = disk.log
  BY <1>1 DEF Inv, Typed, IsDisk
<1>7. Covered'
  <2>1. ManifestField(<<NewDBEdit>>, "log") = 0 /\ ManifestField(<<NewDBEdit>>, "next") = 2
    <3>1. <<NewDBEdit>>[1]["log"] = 0 /\ <<NewDBEdit>>[1]["next"] = 2
      BY <1>4
    <3>2. 0 # None /\ 2 # None
      BY DEF None
    <3>3. PICK r : r = <<NewDBEdit>>
      OBVIOUS
    <3>4. r \in Seq(EditType) /\ Len(r) > 0 /\ r[Len(r)]["log"] = 0 /\ r[Len(r)]["next"] = 2
      BY <1>4, <3>1, <3>3
    <3>5. ManifestField(r, "log") = r[Len(r)]["log"]
      BY <3>2, <3>4, ManifestFieldLast
    <3>6. ManifestField(r, "next") = r[Len(r)]["next"]
      BY <3>2, <3>4, ManifestFieldLast
    <3>7. QED BY <3>3, <3>4, <3>5, <3>6
  <2>2. Covers(<<NewDBEdit>>, hist, disk.log)
    BY <1>3, <2>1 DEF Covers
  <2>3. Cuts(disk.man[disk.cur])' = Cuts(f)
    BY <1>2, <1>6 DEF Cuts, CutPoints
  <2>4. \A recs \in Cuts(disk.man[disk.cur])' : Covers(recs, hist, disk.log)
    BY <1>5, <2>2, <2>3
  <2>5. QED BY <1>1, <1>6, <2>4 DEF Covered, Covers, LoggedFrom, UpToSeq
<1>8. LogNumbers' /\ LastCovers'
  BY <1>1 DEF LogNumbers, LastCovers
<1>9. SyncedKept'
  BY <1>1, <1>6 DEF Lasting, SyncedKept
<1>10. StoreStep
  BY <1>1, SameStore
<1>11. db'.phase # "open" /\ bg'.pc = "idle" /\ \A t \in Threads : wr'[t].pc = "idle"
  BY <1>1 DEF Inv, Quiet, IdleWriter
<1>12. Distinct(hist, disk.log)
  BY DEF Lasting
<1>13. OutOfReach'
  BY <1>1, <1>3, <1>6 DEF Lasting, OutOfReach
<1>14. QED BY <1>1, <1>3, <1>6, <1>7, <1>8, <1>9, <1>10, <1>11, <1>12, <1>13, NotOpenLasts

\* A table from a log: the log's number is marked with its last item.
LEMMA ReplayTableLasts ==
  ASSUME Inv, Safe, Lasting, ReplayTable
  PROVE  Lasts
<1> DEFINE item == Head(db.todo)
           n == vs.next
           td == Tail(db.todo)
           f == FileMeta(n, item.es)
           tb == With(disk.tab, n, Synced(NewFile(<<item.es>>)))
<1>1. vs \in VSType /\ db \in DBType /\ IsDisk(disk) /\ n \in Nat
  BY DEF Inv, Typed, VSType
<1>2. db.phase = "recovering" /\ db.todo # <<>> /\ bg' = bg /\ hist' = hist /\ wr' = wr /\ synced' = synced
  BY DEF ReplayTable
<1>3. /\ item.mark \in Nat /\ td \in Seq(ItemType) /\ db.todo[1] = item
      /\ \A i \in DOMAIN db.todo : i = 1 \/ (i - 1 \in DOMAIN td /\ td[i - 1] = db.todo[i])
  <2>1. db.todo \in Seq(ItemType)
    BY <1>1 DEF DBType, ItemType
  <2>2. item \in ItemType /\ td \in Seq(ItemType) /\ db.todo[1] = item
    BY <1>2, <2>1, HeadTailProperties
  <2>3. /\ Len(td) = Len(db.todo) - 1 /\ \A i \in 1 .. Len(td) : td[i] = db.todo[i + 1]
    BY <1>2, <2>1, HeadTailProperties
  <2>4. DOMAIN td = 1 .. Len(td) /\ DOMAIN db.todo = 1 .. Len(db.todo) /\ Len(db.todo) \in Nat
    BY <2>1, <2>2, LenProperties
  <2>5. ASSUME NEW i \in DOMAIN db.todo, i # 1 PROVE i - 1 \in DOMAIN td /\ td[i - 1] = db.todo[i]
    <3>1. i - 1 \in 1 .. Len(td) /\ (i - 1) + 1 = i
      BY <2>3, <2>4, <2>5
    <3>2. QED BY <2>3, <2>4, <3>1
  <2>6. QED BY <2>2, <2>5 DEF ItemType
<1>4. \/ /\ vs' = [vs EXCEPT !.next = MarkFileNumberUsed(n, item.mark)]
         /\ db' = [db EXCEPT !.todo = td]
         /\ disk' = disk
      \/ /\ vs' = [vs EXCEPT !.next = MarkFileNumberUsed(n + 1, item.mark)]
         /\ db' = [db EXCEPT !.todo = td, !.add = db.add \cup {<<0, f>>}]
         /\ disk' = [disk EXCEPT !.tab = tb]
  BY DEF ReplayTable
<1>5. \A m \in {n, n + 1} : /\ MarkFileNumberUsed(m, item.mark) \in Nat /\ n <= MarkFileNumberUsed(m, item.mark)
                            /\ item.mark < MarkFileNumberUsed(m, item.mark)
  BY <1>1, <1>3 DEF MarkFileNumberUsed
<1> HIDE DEF item, td, f, tb
<1>6. /\ vs'.last = vs.last /\ vs'.next \in Nat /\ n <= vs'.next /\ item.mark < vs'.next
      /\ disk'.cur = disk.cur /\ disk'.man = disk.man /\ disk'.log = disk.log
      /\ db'.phase = "recovering" /\ db'.todo = td
  <2>1. CASE /\ vs' = [vs EXCEPT !.next = MarkFileNumberUsed(n, item.mark)]
             /\ db' = [db EXCEPT !.todo = td]
             /\ disk' = disk
    <3>1. db'.phase = "recovering" /\ db'.todo = td
      BY <1>1, <1>2, <2>1 DEF DBType
    <3>2. QED BY <1>1, <1>5, <2>1, <3>1, VSChange
  <2>2. CASE /\ vs' = [vs EXCEPT !.next = MarkFileNumberUsed(n + 1, item.mark)]
             /\ db' = [db EXCEPT !.todo = td, !.add = db.add \cup {<<0, f>>}]
             /\ disk' = [disk EXCEPT !.tab = tb]
    <3>1. db'.phase = "recovering" /\ db'.todo = td
      BY <1>1, <1>2, <2>2 DEF DBType
    <3>2. vs'.last = vs.last /\ vs'.next \in Nat /\ n <= vs'.next /\ item.mark < vs'.next
      BY <1>1, <1>5, <2>2, VSChange
    <3>3. disk'.cur = disk.cur /\ disk'.man = disk.man /\ disk'.log = disk.log
      BY <1>1, <2>2, DiskChange
    <3>4. QED BY <3>1, <3>2, <3>3
  <2>3. QED BY <1>4, <2>1, <2>2
<1>7. LogNumbers'
  <2>1. ASSUME NEW m \in DOMAIN disk.log PROVE m < vs'.next \/ \E i \in DOMAIN td : td[i].mark = m
    <3>1. m \in Nat
      BY <1>1 DEF IsDisk, IsDir
    <3>2. CASE m < n
      BY <1>1, <1>6, <3>1, <3>2
    <3>3. ASSUME NEW i \in DOMAIN db.todo, db.todo[i].mark = m
          PROVE  m < vs'.next \/ \E j \in DOMAIN td : td[j].mark = m
      <4>1. CASE i = 1
        BY <1>3, <1>6, <3>3, <4>1
      <4>2. CASE i # 1
        BY <1>3, <3>3, <4>2
      <4>3. QED BY <4>1, <4>2
    <3>4. QED BY <1>2, <3>2, <3>3 DEF Lasting, LogNumbers
  <2>2. QED BY <1>6, <2>1 DEF LogNumbers
<1>8. LastCovers'
  BY <1>2, <1>6 DEF Lasting, LastCovers, UpToSeq
<1>9. Covered'
  <2>1. Cuts(disk.man[disk.cur])' = Cuts(disk.man[disk.cur])
    BY <1>6 DEF Cuts, CutPoints
  <2>2. QED BY <1>2, <1>6, <2>1 DEF Lasting, Covered, Covers, LoggedFrom, UpToSeq
<1>10. SyncedKept'
  BY <1>2, <1>6 DEF Lasting, SyncedKept
<1>11. StoreStep
  BY <1>2, <1>6, SameStore
<1>12. db'.phase # "open" /\ bg'.pc = "idle" /\ \A t \in Threads : wr'[t].pc = "idle"
  BY <1>2, <1>6 DEF Inv, Quiet, IdleWriter
<1>13. Distinct(hist, disk.log) /\ \A m \in DOMAIN disk.log : Readable(disk.log[m]) \subseteq hist
  BY <1>2, NotOpenFacts DEF Lasting
<1>14. OutOfReach'
  <2>1. disk.cur # 0
    BY <1>2 DEF Safe, ManifestSafe
  <2>2. QED BY <1>2, <1>6, <2>1, StaysOutOfReach
<1>15. QED BY <1>2, <1>6, <1>7, <1>8, <1>9, <1>10, <1>11, <1>12, <1>13, <1>14, NotOpenLasts

\* Recover: the last sequence number covers the manifest's and the logs', and
\* every log to replay has its number in the todo list.
LEMMA RecoverLasts ==
  ASSUME Inv, Safe, Lasting, Recover
  PROVE  Lasts
<1> DEFINE st == CurrentState(disk)
           f == disk.man[disk.cur]
           S == LogsToReplay(disk, st)
           logs == InOrder(S, <)
           items == [i \in DOMAIN logs |-> ReplayItems(logs[i], disk.log[logs[i]])]
           es == UNION {UNION Readable(disk.log[n]) : n \in S}
           last == Max({st.last, MaxReplayed(disk, st)})
<1>1. /\ disk.cur # 0 /\ db.phase = "closed" /\ ManifestOK(disk) /\ IsDisk(disk) /\ IsDir(disk.log, Groups)
      /\ disk' = disk /\ bg' = bg /\ wr' = wr /\ hist' = hist /\ synced' = synced
  BY DEF Recover, RecoverOK, Inv, Typed, IsDisk
<1>2. disk.cur \in DOMAIN disk.man /\ f \in FileOf(EditType) /\ f.sync <= Len(f.recs)
  BY <1>1, CurrentManifest
<1>3. /\ st.log = ManifestField(f.recs, "log") /\ st.next = ManifestField(f.recs, "next")
      /\ st.last = ManifestField(f.recs, "last")
  BY DEF CurrentState, ManifestState
<1>4. st.next \in Nat /\ st.log \in Nat /\ st.last \in Nat
  BY <1>1, CurrentStateType
<1>5. S = {n \in DOMAIN disk.log : n >= st.log}
  BY DEF LogsToReplay
<1>6. /\ vs' = [ClosedVS EXCEPT !.man = st.next, !.next = st.next + 1, !.log = st.log,
                                !.last = last, !.ver = st.ver, !.ptr = st.ptr]
      /\ db' = [ClosedDB EXCEPT !.phase = "recovering", !.todo = FlattenSeq(items)]
  BY DEF Recover
<1>7. MaxReplayed(disk, st) = Max({0} \cup {e.s : e \in es})
  BY DEF MaxReplayed
<1> HIDE DEF st, f, S, items, logs, last
<1>8. vs'.next = st.next + 1 /\ vs'.last = last /\ db'.phase = "recovering" /\ db'.todo = FlattenSeq(items)
  BY <1>6 DEF ClosedVS, ClosedDB
<1>9. f.recs \in Cuts(f)
  <2>1. f.recs \in Seq(EditType) /\ Len(f.recs) \in Nat /\ DOMAIN f.recs = 1 .. Len(f.recs)
    BY <1>2, LenProperties DEF FileOf
  <2>2. ASSUME Len(f.recs) = 0 PROVE FALSE
    <3>1. DOMAIN f.recs = {}
      BY <2>1, <2>2
    <3>2. ManifestField(f.recs, "next") = None
      BY <3>1 DEF ManifestField
    <3>3. QED BY <1>3, <1>4, <3>2 DEF None
  <2>3. QED BY <1>2, <2>1, <2>2, CutsWhole
<1>10. /\ st.log <= st.next
       /\ \A g \in hist : g \in LoggedFrom(disk.log, st.log) \/ UpToSeq(g, st.last)
  BY <1>1, <1>3, <1>9 DEF Lasting, Covered, Covers, f
<1>11. S \in SUBSET DOMAIN disk.log /\ S \in SUBSET Nat /\ IsFiniteSet(S)
  BY <1>1, <1>5, FS_Subset DEF IsDir
<1>12. es \in EntrySets
  BY <1>1, <1>11, LogEntries
<1>13. ASSUME NEW g \in hist, g \in LoggedFrom(disk.log, st.log) PROVE \A e \in g : e \in es
  <2>1. PICK n \in DOMAIN disk.log : n >= st.log /\ \E i \in DOMAIN disk.log[n].recs : disk.log[n].recs[i] = g
    BY <1>13, InLogs
  <2>2. PICK i \in DOMAIN disk.log[n].recs : disk.log[n].recs[i] = g
    BY <2>1
  <2>3. i \notin disk.log[n].bad
    <3>1. n >= ManifestField(disk.man[disk.cur].recs, "log")
      BY <1>3, <2>1 DEF f
    <3>2. QED BY <1>1, <1>13, <2>2, <3>1 DEF Lasting, OutOfReach
  <2>4. g \in Readable(disk.log[n])
    BY <2>2, <2>3 DEF Readable
  <2>5. n \in S
    BY <1>5, <2>1
  <2>6. QED BY <2>4, <2>5
<1> HIDE DEF es
<1>14. MaxReplayed(disk, st) \in Nat /\ \A e \in es : e.s <= MaxReplayed(disk, st) /\ e.s \in Nat
  BY <1>7, <1>12, MaxSeqNat DEF EntrySets, EntryType
<1>15. last \in Nat /\ st.last <= last /\ MaxReplayed(disk, st) <= last
  BY <1>4, <1>14, MaxOfTwo DEF last
<1>16. ASSUME NEW g \in hist PROVE UpToSeq(g, last)
  <2>1. CASE g \in LoggedFrom(disk.log, st.log)
    BY <1>13, <1>14, <1>15, <2>1 DEF UpToSeq
  <2>2. CASE UpToSeq(g, st.last)
    <3>1. \A e \in g : e.s \in Nat
      BY GroupsTyped
    <3>2. QED BY <1>4, <1>15, <2>2, <3>1 DEF UpToSeq
  <2>3. QED BY <1>10, <2>1, <2>2
<1>17. ASSUME NEW n \in S PROVE \E i \in DOMAIN FlattenSeq(items) : FlattenSeq(items)[i].mark = n
  <2>1. logs \in Seq(S) /\ \E i \in 1 .. Len(logs) : logs[i] = n
    BY <1>11, NumbersInOrder DEF logs
  <2>2. PICK i \in 1 .. Len(logs) : logs[i] = n
    BY <2>1
  <2>3. Len(logs) \in Nat /\ DOMAIN logs = 1 .. Len(logs) /\ \A j \in 1 .. Len(logs) : logs[j] \in S
    BY <2>1, LenProperties, ElementOfSeq
  <2>4. ASSUME NEW m \in S
        PROVE  /\ ReplayItems(m, disk.log[m]) \in Seq(ItemType)
               /\ \E k \in 1 .. Len(ReplayItems(m, disk.log[m])) : ReplayItems(m, disk.log[m])[k].mark = m
    <3>1. disk.log[m] \in FileOf(Groups) /\ m \in Nat
      BY <1>1, <1>11 DEF IsDir
    <3>2. QED BY <3>1, ReplayItemsType
  <2>5. items \in [1 .. Len(logs) -> Seq(ItemType)] /\ items[i] = ReplayItems(n, disk.log[n])
    BY <2>2, <2>3, <2>4 DEF items
  <2>6. items \in Seq(Seq(ItemType)) /\ Len(items) = Len(logs)
    BY <2>3, <2>5, IsASeq
  <2>7. PICK k \in 1 .. Len(items[i]) : items[i][k].mark = n
    BY <2>4, <2>5
  <2>8. PICK j \in 1 .. Len(FlattenSeq(items)) : FlattenSeq(items)[j] = items[i][k]
    BY <2>6, FlattenType
  <2>9. DOMAIN FlattenSeq(items) = 1 .. Len(FlattenSeq(items))
    <3>1. FlattenSeq(items) \in Seq(ItemType)
      BY <2>6, FlattenType
    <3>2. QED BY <3>1, LenProperties
  <2>10. QED BY <2>7, <2>8, <2>9
<1>18. LogNumbers'
  <2>1. ASSUME NEW n \in DOMAIN disk.log
        PROVE  n < vs'.next \/ \E i \in DOMAIN db'.todo : db'.todo[i].mark = n
    <3>1. n \in Nat
      BY <1>1 DEF IsDir
    <3>2. CASE n >= st.log
      BY <1>5, <1>8, <1>17, <3>2
    <3>3. CASE n < st.log
      BY <1>4, <1>8, <1>10, <3>1, <3>3
    <3>4. QED BY <1>4, <3>1, <3>2, <3>3
  <2>2. QED BY <1>1, <1>8, <2>1 DEF LogNumbers
<1>19. LastCovers'
  BY <1>1, <1>8, <1>16 DEF LastCovers, UpToSeq
<1>20. Covered'
  <2>1. Cuts(disk.man[disk.cur])' = Cuts(disk.man[disk.cur])
    BY <1>1 DEF Cuts, CutPoints
  <2>2. QED BY <1>1, <1>8, <2>1 DEF Lasting, Covered, Covers, LoggedFrom, UpToSeq
<1>21. SyncedKept'
  BY <1>1 DEF Lasting, SyncedKept
<1>22. StoreStep
  <2>1. Visible' = Visible
    BY <1>1, <1>8 DEF Visible
  <2>2. UNCHANGED Store!store
    BY <1>1, <1>8, <2>1 DEF Store!store
  <2>3. QED BY <2>2 DEF StoreStep
<1>23. db'.phase # "open" /\ bg'.pc = "idle" /\ \A t \in Threads : wr'[t].pc = "idle"
  BY <1>1, <1>8 DEF Inv, Quiet, IdleWriter
<1>24. Distinct(hist, disk.log) /\ \A n \in DOMAIN disk.log : Readable(disk.log[n]) \subseteq hist
  BY <1>1, NotOpenFacts DEF Lasting
<1>25. OutOfReach'
  BY <1>1, StaysOutOfReach
<1>26. QED BY <1>1, <1>18, <1>19, <1>20, <1>21, <1>22, <1>23, <1>24, <1>25, NotOpenLasts

\* The new log and the new manifest, beside the one CURRENT names.
LEMMA StartManifestLasts ==
  ASSUME Inv, Safe, Lasting, StartManifest
  PROVE  Lasts
<1> DEFINE n == vs.next
           v == [vs EXCEPT !.next = n + 1]
           e == Filled(v, n, {}, {}, db.add)
           lg == With(disk.log, n, NewFile(<<>>))
           mn == With(disk.man, vs.man, NewFile(<<SnapshotEdit(vs.ver, vs.ptr), e>>))
<1>1. /\ vs \in VSType /\ db \in DBType /\ IsDisk(disk) /\ n \in Nat /\ n + 1 \in Nat /\ vs.man \in Nat /\ bg \in BGType
      /\ db.add \in Adds /\ disk.cur \in Nat
  BY DEF Inv, Typed, VSType, DBType, IsDisk
<1>2. v \in VSType /\ v.next = n + 1 /\ v.last = vs.last
  BY <1>1, VSChange
<1>3. e.log = n /\ e.last = vs.last
  <2> HIDE DEF v
  <2> QED BY <1>1, <1>2, FilledType
<1>4. /\ vs' = v /\ disk' = [disk EXCEPT !.log = lg, !.man = mn]
      /\ db' = [db EXCEPT !.phase = "manifest", !.mem = n]
      /\ bg' = [bg EXCEPT !.edit = e] /\ wr' = wr /\ hist' = hist /\ synced' = synced
      /\ db.phase = "recovering" /\ db.todo = <<>>
  BY DEF StartManifest
<1>5. \A m \in DOMAIN disk.man : m # vs.man => mn[m] = disk.man[m]
  BY DEF With
<1> HIDE DEF v, e, lg, mn
<1>6. disk'.log = lg /\ disk'.man = mn /\ disk'.cur = disk.cur
  BY <1>1, <1>4 DEF IsDisk
<1>7. db'.phase = "manifest" /\ db'.mem = n /\ vs'.next = n + 1 /\ vs'.last = vs.last
  BY <1>1, <1>2, <1>4 DEF DBType
<1>8. bg'.edit = e /\ bg'.pc = bg.pc
  BY <1>1, <1>4 DEF BGType
<1>9. disk.cur # 0 /\ disk.cur < vs.man /\ disk.cur \in DOMAIN disk.man
  BY <1>4 DEF Safe, ManifestSafe, OpeningSafe
<1>10. mn[disk.cur] = disk.man[disk.cur]
  BY <1>1, <1>5, <1>9
<1>11. \A m \in DOMAIN disk.log : m \in Nat /\ m < n
  <2>1. DOMAIN db.todo = {}
    BY <1>4
  <2>2. QED BY <1>1, <1>4, <2>1 DEF Lasting, LogNumbers, IsDisk, IsDir
<1>12. HasNewLog(lg, disk.log, n)
  <2>1. n \notin DOMAIN disk.log
    BY <1>1, <1>11
  <2>2. QED BY <2>1 DEF HasNewLog, lg
<1> HIDE DEF n
<1>13. DOMAIN lg = DOMAIN disk.log \cup {n} /\ lg[n].recs = <<>> /\ lg[n].bad = {}
  <2>1. DOMAIN lg = DOMAIN disk.log \cup {n}
    BY <1>12, NewLog
  <2>2. lg[n].recs = <<>>
    BY <1>12 DEF HasNewLog, With, NewFile
  <2>3. lg[n].bad = {}
    BY <1>12 DEF HasNewLog, With, NewFile
  <2>4. QED BY <2>1, <2>2, <2>3
<1>14. PartOf(lg, disk.log) /\ PartOf(disk.log, lg)
  BY <1>12, NewLog
<1>15. \A m \in DOMAIN disk.log : lg[m] = disk.log[m]
  BY <1>12 DEF HasNewLog, With
<1>16. Distinct(hist, disk.log) /\ \A m \in DOMAIN disk.log : Readable(disk.log[m]) \subseteq hist
  BY <1>4, NotOpenFacts DEF Lasting
<1>17. Distinct(hist, lg)
  BY <1>14, <1>16, FewerDistinct
<1>18. Readable(lg[n]) = {}
  BY <1>13 DEF Readable
<1>19. \A m \in DOMAIN lg : Readable(lg[m]) \subseteq hist
  BY <1>13, <1>15, <1>16, <1>18
<1>20. Covered'
  <2>1. SUFFICES ASSUME NEW recs \in Cuts(disk.man[disk.cur]) PROVE Covers(recs, hist, lg)
    <3>1. Cuts(disk.man[disk.cur])' = Cuts(disk.man[disk.cur])
      BY <1>6, <1>10 DEF Cuts, CutPoints
    <3>2. QED BY <1>4, <1>6, <1>7, <3>1 DEF Covered, Covers, LoggedFrom, UpToSeq
  <2>2. Covers(recs, hist, disk.log)
    BY <1>9, <2>1 DEF Lasting, Covered
  <2>3. PICK k : k = ManifestField(recs, "log")
    OBVIOUS
  <2>4. LoggedFrom(lg, k) = LoggedFrom(disk.log, k)
    BY <1>14, SameLogged
  <2>5. QED BY <2>2, <2>3, <2>4 DEF Covers
<1>21. LogNumbers'
  <2>1. \A m \in DOMAIN lg : m < n + 1 /\ m <= n
    BY <1>1, <1>11, <1>13 DEF n
  <2>2. QED BY <1>3, <1>6, <1>7, <1>8, <1>13, <2>1 DEF LogNumbers
<1>22. LastCovers'
  BY <1>4, <1>7 DEF Lasting, LastCovers, UpToSeq
<1>23. SyncedKept'
  <2>1. ASSUME NEW m \in DOMAIN lg, NEW i \in DOMAIN lg[m].recs, lg[m].recs[i] \in synced
        PROVE  i <= lg[m].sync /\ i \notin lg[m].bad
    <3>1. m \in DOMAIN disk.log /\ lg[m] = disk.log[m]
      BY <1>13, <1>15
    <3>2. QED BY <2>1, <3>1 DEF Lasting, SyncedKept
  <2>2. synced \subseteq hist
    BY DEF Lasting, SyncedKept
  <2>3. QED BY <1>4, <1>6, <2>1, <2>2 DEF SyncedKept
<1>24. StoreStep
  BY <1>4, <1>7, SameStore
<1>25. db'.phase # "open" /\ bg'.pc = "idle" /\ \A t \in Threads : wr'[t].pc = "idle"
  BY <1>4, <1>7, <1>8 DEF Inv, Quiet, IdleWriter
<1>26. OutOfReach'
  <2>1. ASSUME NEW m \in DOMAIN lg
        PROVE  /\ lg[m].bad # {} => lg[m].torn = TRUE
               /\ m >= ManifestField(disk.man[disk.cur].recs, "log") =>
                    \A i \in DOMAIN lg[m].recs : i \in lg[m].bad => lg[m].recs[i] \notin hist
    <3>1. CASE m \in DOMAIN disk.log
      BY <1>4, <1>9, <1>15, <3>1 DEF Lasting, OutOfReach
    <3>2. CASE m = n
      BY <1>13, <3>2
    <3>3. QED BY <1>13, <3>1, <3>2
  <2>2. ManifestField(disk'.man[disk'.cur].recs, "log") = ManifestField(disk.man[disk.cur].recs, "log")
    BY <1>6, <1>10
  <2>3. disk'.log = lg /\ hist' = hist
    BY <1>4, <1>6
  <2>4. QED BY ONLY <2>1, <2>2, <2>3 DEF OutOfReach
<1>27. QED BY <1>4, <1>6, <1>17, <1>19, <1>20, <1>21, <1>22, <1>23, <1>24, <1>25, <1>26, NotOpenLasts

\* An error while opening leaves the manifest CURRENT names and the logs alone.
LEMMA OpenErrorLasts ==
  ASSUME Inv, Safe, Lasting, OpenError
  PROVE  Lasts
<1> DEFINE S == DOMAIN disk.man \ {vs.man}
           mn == Restrict(disk.man, S)
<1>1. IsDisk(disk) /\ disk.cur \in Nat /\ vs.man \in Nat
  BY DEF Inv, Typed, IsDisk, VSType
<1>2. /\ disk' = [disk EXCEPT !.man = mn] /\ db' = ClosedDB /\ bg' = IdleBG
      /\ hist' = hist /\ synced' = synced /\ wr' = wr /\ db.phase \in {"recovering", "manifest"}
  BY DEF OpenError
<1>3. disk.cur # 0 /\ disk.cur < vs.man /\ disk.cur \in DOMAIN disk.man
  BY <1>2 DEF Safe, ManifestSafe, OpeningSafe
<1>4. disk.cur \in S
  BY <1>1, <1>3
<1>5. mn[disk.cur] = disk.man[disk.cur]
  <2> HIDE DEF S
  <2> QED BY <1>4, RestrictTo
<1> HIDE DEF mn
<1>6. disk'.man = mn /\ disk'.cur = disk.cur /\ disk'.log = disk.log
  BY <1>1, <1>2, DiskChange
<1>7. db'.phase = "closed" /\ bg'.pc = "idle"
  BY <1>2 DEF ClosedDB, IdleBG
<1>8. Covered'
  <2>1. Cuts(disk.man[disk.cur])' = Cuts(disk.man[disk.cur])
    BY <1>5, <1>6 DEF Cuts, CutPoints
  <2>2. QED BY <1>2, <1>6, <1>7, <2>1 DEF Lasting, Covered, Covers, LoggedFrom, UpToSeq
<1>9. LogNumbers' /\ LastCovers'
  BY <1>7 DEF LogNumbers, LastCovers
<1>10. SyncedKept'
  BY <1>2, <1>6 DEF Lasting, SyncedKept
<1>11. StoreStep
  <2>1. Visible' = Visible
    BY <1>2, <1>7 DEF Visible
  <2>2. UNCHANGED Store!store
    BY <1>2, <1>7, <2>1 DEF Store!store
  <2>3. QED BY <2>2 DEF StoreStep
<1>12. \A t \in Threads : wr'[t].pc = "idle"
  BY <1>2 DEF Inv, Quiet, IdleWriter
<1>13. Distinct(hist, disk.log) /\ \A n \in DOMAIN disk.log : Readable(disk.log[n]) \subseteq hist
  BY <1>2, NotOpenFacts DEF Lasting
<1>14. OutOfReach'
  BY <1>2, <1>3, <1>5, <1>6, StaysOutOfReach
<1>15. QED BY <1>2, <1>6, <1>7, <1>8, <1>9, <1>10, <1>11, <1>12, <1>13, <1>14, NotOpenLasts

\* The new manifest is synced and CURRENT names it.  It gives the last sequence
\* number of everything the store has, so the older logs may go.
LEMMA FinishOpenLasts ==
  ASSUME Inv, Safe, Lasting, FinishOpen
  PROVE  Lasts
<1> DEFINE e == bg.edit
           v == Installed(vs, e)
           snap == SnapshotEdit(vs.ver, vs.ptr)
           f == disk.man[vs.man]
           mn == [disk.man EXCEPT ![vs.man] = Synced(f)]
           d == [disk EXCEPT !.man = mn, !.cur = vs.man]
           o == [db EXCEPT !.phase = "open", !.add = {}]
<1>1. /\ vs \in VSType /\ db \in DBType /\ IsDisk(disk) /\ vs.man \in Nat /\ e \in FilledEdit
      /\ vs.ver \in VersionType /\ vs.ptr \in [Levels -> IKeyType] /\ vs.next \in Nat /\ vs.last \in Nat /\ db.mem \in Nat
      /\ DOMAIN disk.log \subseteq Nat
  BY DEF Inv, Typed, VSType, BGType, IsDisk, DBType, IsDir
<1>2. /\ db.phase = "manifest" /\ vs' = v /\ bg' = IdleBG /\ db' = MaybeSchedule(o, v)
      /\ \E live : disk' = DeleteObsolete(d, v, FALSE, live)
      /\ wr' = wr /\ hist' = hist /\ synced' = synced
  BY DEF FinishOpen
<1>3. v.next = vs.next /\ v.man = vs.man /\ v.last = vs.last /\ v.log = e.log
  BY <1>1, InstalledType
<1>4. vs.man \in DOMAIN disk.man /\ f.recs = <<snap, e>> /\ f.bad = {} /\ e.next = vs.next
  BY <1>2 DEF Safe, NewManifest, Legible
<1>5. /\ db.mem \in DOMAIN disk.log /\ (\A n \in DOMAIN disk.log : n < vs.next)
      /\ (\A n \in DOMAIN disk.log : n <= db.mem) /\ disk.log[db.mem].recs = <<>>
      /\ e.log = db.mem /\ e.last = vs.last /\ \A g \in hist : UpToSeq(g, vs.last)
  BY <1>2 DEF Lasting, LogNumbers, LastCovers
<1>6. f \in FileOf(EditType) /\ f.recs \in Seq(EditType)
  BY <1>1, <1>4 DEF IsDisk, IsDir, FileOf
<1>7. snap \in EditType /\ e \in EditType
  BY <1>1, SnapshotType, FilledIsEdit
<1> HIDE DEF v, snap, e, f
<1>8. Len(f.recs) = 2 /\ f.recs[2] = e
  <2>1. Len(<<snap, e>>) = 2
    BY <1>7, TwoElements
  <2>2. QED BY <1>4, <2>1
<1>9. Synced(f) \in FileOf(EditType) /\ Cuts(Synced(f)) \subseteq {f.recs}
  <2>1. Synced(f) \in FileOf(EditType)
    BY <1>6, FileFacts
  <2>2. Synced(f).sync = 2 /\ Synced(f).recs = f.recs
    BY <1>4, <1>6, <1>8, FileParts
  <2>3. Synced(f).sync <= Len(Synced(f).recs) /\ Synced(f).sync = Len(Synced(f).recs)
    BY <1>8, <2>2
  <2>4. Cuts(Synced(f)) \subseteq {Synced(f).recs}
    BY <2>1, <2>3, CutsWhole
  <2>5. QED BY <2>1, <2>2, <2>4
<1>10. vs.man \in DOMAIN mn /\ mn[vs.man] = Synced(f) /\ IsDir(mn, EditType)
  <2>1. IsDir(disk.man, EditType)
    BY <1>1 DEF IsDisk
  <2>2. QED BY <1>4, <1>9, <2>1, DirUpdate
<1> HIDE DEF mn
<1>11. IsDisk(d) /\ d.man = mn /\ d.log = disk.log /\ d.cur = vs.man
  <2>1. disk \in [log : {disk.log}, tab : {disk.tab}, man : {disk.man}, cur : Nat]
    BY <1>1 DEF IsDisk
  <2>2. /\ d \in [log : {disk.log}, tab : {disk.tab}, man : {mn}, cur : Nat]
        /\ d.log = disk.log /\ d.tab = disk.tab /\ d.man = mn /\ d.cur = vs.man
    BY <1>1, <2>1
  <2>3. QED BY <1>1, <1>10, <2>2 DEF IsDisk
<1> HIDE DEF d
<1>12. PICK lg : /\ disk'.log = lg /\ disk'.cur = vs.man /\ disk'.man[vs.man] = Synced(f)
                 /\ KeptFrom(lg, disk.log, e.log) /\ \A n \in DOMAIN lg : n >= e.log
  <2>1. PICK live : disk' = DeleteObsolete(d, v, FALSE, live)
    BY <1>2
  <2> DEFINE S == {n \in DOMAIN mn : n >= v.man}
             lg == Restrict(disk.log, {n \in DOMAIN disk.log : n >= e.log})
  <2>2. disk'.cur = vs.man /\ disk'.man = Restrict(mn, S) /\ disk'.log = lg
    <3>1. disk' = [d EXCEPT !.log = Restrict(d.log, {n \in DOMAIN d.log : n >= v.log}),
                            !.man = Restrict(d.man, {n \in DOMAIN d.man : n >= v.man}),
                            !.tab = Restrict(d.tab, DOMAIN d.tab \cap live)]
      BY <2>1 DEF DeleteObsolete
    <3>2. /\ {n \in DOMAIN d.log : n >= v.log} = {n \in DOMAIN disk.log : n >= e.log}
          /\ {n \in DOMAIN d.man : n >= v.man} = S
      BY <1>3, <1>11
    <3>3. disk' = [d EXCEPT !.log = lg, !.man = Restrict(mn, S), !.tab = Restrict(d.tab, DOMAIN d.tab \cap live)]
      BY <1>11, <3>1, <3>2, Zenon
    <3> HIDE DEF S, lg
    <3>4. QED BY <1>11, <3>3 DEF IsDisk
  <2>3. vs.man \in S
    BY <1>1, <1>3, <1>10
  <2> HIDE DEF S
  <2>4. disk'.man[vs.man] = Synced(f)
    BY <1>10, <2>2, <2>3, RestrictTo
  <2> DEFINE T == {n \in DOMAIN disk.log : n >= e.log}
  <2>5. \A n \in DOMAIN lg : n >= e.log
    <3>1. \A n \in T : n >= e.log
      OBVIOUS
    <3>2. lg = Restrict(disk.log, T)
      OBVIOUS
    <3> HIDE DEF T, lg
    <3>3. DOMAIN lg = T
      BY <3>2, RestrictTo
    <3>4. QED BY <3>1, <3>3
  <2>6. QED BY <2>2, <2>4, <2>5 DEF KeptFrom
<1>13. KeptFrom(lg, disk.log, db.mem)
  BY <1>5, <1>12
<1>14. PICK k : k = db.mem
  OBVIOUS
<1>15. /\ DOMAIN lg \subseteq DOMAIN disk.log /\ \A n \in DOMAIN lg : lg[n] = disk.log[n]
       /\ \A n \in DOMAIN disk.log : n >= k => n \in DOMAIN lg
       /\ PartOf(lg, disk.log)
  BY <1>13, <1>14, KeptLogs
<1>16. db.mem \in DOMAIN lg
  <2>1. k >= k
    BY <1>1, <1>14
  <2>2. QED BY <1>5, <1>14, <1>15, <2>1
<1>17. o \in DBType /\ o.phase = "open" /\ o.mem = db.mem
  BY <1>1, FS_EmptySet DEF DBType, Adds
<1> HIDE DEF o
<1>18. db'.phase = "open" /\ db'.mem = db.mem /\ bg'.pc = "idle" /\ vs'.next = vs.next /\ vs'.last = vs.last /\ vs'.log = db.mem
  <2>1. db'.phase = "open" /\ db'.mem = db.mem
    BY <1>2, <1>17, ScheduleFacts
  <2>2. QED BY <1>2, <1>3, <1>5, <2>1 DEF IdleBG
<1>19. Distinct(hist, disk.log) /\ \A n \in DOMAIN lg : DOMAIN lg[n].recs = {}
  <2>1. ASSUME NEW n \in DOMAIN lg PROVE lg[n].recs = <<>>
    <3>1. n >= db.mem /\ n <= db.mem /\ n \in Nat
      BY <1>1, <1>5, <1>12, <1>15
    <3>2. n = db.mem
      BY <1>1, <3>1
    <3>3. QED BY <1>5, <1>15, <3>2
  <2>2. DOMAIN <<>> = {}
    OBVIOUS
  <2>3. QED BY <2>1, <2>2 DEF Lasting
<1>20. Distinct(hist, disk.log)'
  <2>1. Distinct(hist, lg)
    BY <1>15, <1>19, FewerDistinct
  <2>2. Distinct(hist', disk'.log)
    BY <1>2, <1>12, <2>1
  <2>3. QED BY ONLY <2>2 DEF Distinct, LoggedFrom, Apart
<1>21. LogsKnown'
  <2>1. \A n \in DOMAIN lg : Range(lg[n].recs) = {}
    BY <1>19 DEF Range
  <2>2. QED BY <1>12, <1>18, <2>1 DEF LogsKnown
<1>22. /\ ManifestField(f.recs, "log") = db.mem /\ ManifestField(f.recs, "next") = vs.next
       /\ ManifestField(f.recs, "last") = vs.last
  <2>1. f.recs[2]["log"] = db.mem /\ f.recs[2]["next"] = vs.next /\ f.recs[2]["last"] = vs.last
    BY <1>4, <1>5, <1>8
  <2>2. db.mem # None /\ vs.next # None /\ vs.last # None
    BY <1>1 DEF None
  <2>3. PICK r : r = f.recs
    OBVIOUS
  <2>4. r \in Seq(EditType) /\ Len(r) > 0 /\ r[Len(r)]["log"] = db.mem /\ r[Len(r)]["next"] = vs.next /\ r[Len(r)]["last"] = vs.last
    BY <1>6, <1>8, <2>1, <2>3
  <2>5. ManifestField(r, "log") = r[Len(r)]["log"]
    BY <2>2, <2>4, ManifestFieldLast
  <2>6. ManifestField(r, "next") = r[Len(r)]["next"]
    BY <2>2, <2>4, ManifestFieldLast
  <2>7. ManifestField(r, "last") = r[Len(r)]["last"]
    BY <2>2, <2>4, ManifestFieldLast
  <2>8. QED BY <2>3, <2>4, <2>5, <2>6, <2>7
<1>23. Covered'
  <2>1. db.mem <= vs.next /\ db.mem <= db.mem
    BY <1>1, <1>5
  <2>2. Covers(f.recs, hist, lg)
    BY <1>5, <1>22, <2>1 DEF Covers
  <2>3. Cuts(disk.man[disk.cur])' = Cuts(Synced(f))
    BY <1>12 DEF Cuts, CutPoints
  <2>4. \A recs \in Cuts(disk.man[disk.cur])' : Covers(recs, hist, lg) /\ ManifestField(recs, "log") <= db.mem
    BY <1>9, <1>22, <2>1, <2>2, <2>3
  <2>5. QED BY <1>2, <1>12, <1>18, <2>4 DEF Covered, Covers, LoggedFrom, UpToSeq
<1>24. LogNumbers'
  <2>1. db.mem <= db.mem
    BY <1>1
  <2>2. QED BY <1>5, <1>12, <1>15, <1>16, <1>18, <2>1 DEF LogNumbers
<1>25. LastCovers'
  <2>1. LoggedFrom(disk.log, 0)' = LoggedFrom(lg, 0)
    BY <1>12 DEF LoggedFrom
  <2>2. LoggedFrom(lg, 0) \subseteq hist
    BY <1>19 DEF LoggedFrom, Range
  <2>3. QED BY <1>2, <1>5, <1>18, <2>1, <2>2 DEF LastCovers, UpToSeq
<1>26. Leading' /\ EditWrittenLast'
  <2>1. \A t \in Threads : wr'[t].pc = "idle"
    BY <1>2 DEF Inv, Quiet, IdleWriter
  <2>2. QED BY <1>18, <2>1 DEF Leading, Busy, EditWrittenLast
<1>27. SyncedKept'
  BY <1>2, <1>12, <1>15 DEF Lasting, SyncedKept
<1>28. StoreStep
  <2>1. Visible = hist
    BY <1>2 DEF Visible
  <2>2. Visible' = hist
    BY <1>2, <1>5, <1>18 DEF Visible, UpToSeq
  <2>3. Store!Start
    BY <1>2, <1>18, <2>1, <2>2 DEF Store!Start
  <2>4. QED BY <2>3 DEF StoreStep
<1>29. OutOfReach'
  BY <1>12, <1>15, <1>18 DEF Lasting, OutOfReach
<1>30. QED BY <1>20, <1>21, <1>23, <1>24, <1>25, <1>26, <1>27, <1>28, <1>29 DEF Lasts, Lasting

-----------------------------------------------------------------------------
(* Closing and crashing.                                                     *)

\* Logs a crash may leave of others.
LeftOf(lg, logs) ==
  /\ IsDir(logs, Groups) /\ DOMAIN lg = DOMAIN logs
  /\ \A n \in DOMAIN logs : lg[n] = logs[n] \/ \E m \in CutPoints(logs[n]) : lg[n] = CutAt(logs[n], m)

\* A crash takes no record from the durable part of a log and adds none, and
\* what is left is as readable as it was.
LEMMA LogsLeft ==
  ASSUME NEW logs, NEW lg, LeftOf(lg, logs)
  PROVE  /\ DOMAIN lg = DOMAIN logs /\ PartOf(lg, logs)
         /\ \A n \in DOMAIN logs : \A i \in DOMAIN logs[n].recs :
              i <= logs[n].sync => i \in DOMAIN lg[n].recs /\ lg[n].recs[i] = logs[n].recs[i] /\ i <= lg[n].sync
         /\ \A n \in DOMAIN logs : /\ lg[n].torn = logs[n].torn /\ lg[n].bad \subseteq logs[n].bad
                                   /\ \A i \in DOMAIN lg[n].recs : i \in logs[n].bad => i \in lg[n].bad
<1>1. SUFFICES ASSUME NEW n \in DOMAIN logs
               PROVE  /\ \A i \in DOMAIN lg[n].recs : i \in DOMAIN logs[n].recs /\ lg[n].recs[i] = logs[n].recs[i]
                      /\ \A i \in DOMAIN logs[n].recs : i <= logs[n].sync =>
                           i \in DOMAIN lg[n].recs /\ lg[n].recs[i] = logs[n].recs[i] /\ i <= lg[n].sync
                      /\ lg[n].torn = logs[n].torn /\ lg[n].bad \subseteq logs[n].bad
                      /\ \A i \in DOMAIN lg[n].recs : i \in logs[n].bad => i \in lg[n].bad
  BY DEF LeftOf, PartOf
<1>2. CASE lg[n] = logs[n]
  BY <1>2
<1>3. ASSUME NEW m \in CutPoints(logs[n]), lg[n] = CutAt(logs[n], m)
      PROVE  /\ \A i \in DOMAIN lg[n].recs : i \in DOMAIN logs[n].recs /\ lg[n].recs[i] = logs[n].recs[i]
             /\ \A i \in DOMAIN logs[n].recs : i <= logs[n].sync =>
                  i \in DOMAIN lg[n].recs /\ lg[n].recs[i] = logs[n].recs[i] /\ i <= lg[n].sync
             /\ lg[n].torn = logs[n].torn /\ lg[n].bad \subseteq logs[n].bad
             /\ \A i \in DOMAIN lg[n].recs : i \in logs[n].bad => i \in lg[n].bad
  <2>1. logs[n] \in FileOf(Groups)
    BY DEF LeftOf, IsDir
  <2>2. logs[n].recs \in Seq(Groups) /\ Len(logs[n].recs) \in Nat /\ logs[n].sync \in Nat /\ DOMAIN logs[n].recs = 1 .. Len(logs[n].recs)
    BY <2>1, LenProperties DEF FileOf
  <2>3. /\ lg[n] \in FileOf(Groups) /\ Len(lg[n].recs) = m /\ lg[n].sync = m /\ logs[n].sync <= m /\ m <= Len(logs[n].recs)
        /\ lg[n].recs = SubSeq(logs[n].recs, 1, m)
    BY <1>3, <2>1, CutFacts
  <2>4. m \in 0 .. Len(logs[n].recs) /\ m \in Nat
    BY <2>2, <2>3 DEF CutPoints
  <2>5. DOMAIN lg[n].recs = 1 .. m
    BY <2>3, LenProperties DEF FileOf
  <2>6. \A i \in 1 .. m : lg[n].recs[i] = logs[n].recs[i]
    BY <2>2, <2>3, <2>4, PrefixFacts
  <2>7. \A i \in 1 .. m : i \in 1 .. Len(logs[n].recs)
    BY <2>2, <2>4
  <2>8. \A i \in 1 .. Len(logs[n].recs) : i <= logs[n].sync => i \in 1 .. m /\ i <= m
    BY <2>2, <2>3, <2>4
  <2>9. lg[n].torn = logs[n].torn /\ lg[n].bad = logs[n].bad \cap 1 .. m
    BY <1>3, <2>1, CutFacts
  <2>10. /\ \A i \in DOMAIN lg[n].recs : i \in DOMAIN logs[n].recs /\ lg[n].recs[i] = logs[n].recs[i]
         /\ \A i \in DOMAIN logs[n].recs : i <= logs[n].sync =>
              i \in DOMAIN lg[n].recs /\ lg[n].recs[i] = logs[n].recs[i] /\ i <= lg[n].sync
    BY <2>2, <2>3, <2>5, <2>6, <2>7, <2>8
  <2>11. lg[n].bad \subseteq logs[n].bad /\ \A i \in DOMAIN lg[n].recs : i \in logs[n].bad => i \in lg[n].bad
    BY <2>5, <2>9
  <2>12. QED BY <2>9, <2>10, <2>11
<1>4. QED BY <1>2, <1>3 DEF LeftOf

\* What a recovery finds in the logs goes by the number in the manifest.
LEMMA ReplayedFrom ==
  ASSUME NEW d, d.cur # 0, ManifestOK(d)
  PROVE  /\ Logged(d) = LoggedFrom(d.log, ManifestField(d.man[d.cur].recs, "log"))
         /\ Replayed(d) = FoundFrom(d.log, ManifestField(d.man[d.cur].recs, "log"))
<1>1. CurrentState(d).log = ManifestField(d.man[d.cur].recs, "log")
  BY DEF CurrentState, ManifestState
<1>2. QED BY <1>1 DEF Logged, Replayed, LogsToReplay, LoggedFrom, FoundFrom

\* What the store may be after the end of the process: nothing that was in
\* neither it nor a log, all that was durable, all that is still found in a log.
Remains(h, lg, logs) ==
  /\ h \subseteq hist \cup LoggedFrom(logs, 0) /\ synced \subseteq h
  /\ db.phase # "open" => h \subseteq hist
  /\ \A n \in DOMAIN lg : Readable(lg[n]) \subseteq h

\* The store has nothing of the logs to replay that a reader does not find.
FoundOnly(h, lg, from) ==
  \A n \in DOMAIN lg : n >= from =>
    \A i \in DOMAIN lg[n].recs : i \in lg[n].bad => lg[n].recs[i] \notin h

\* The database is closed, and no group on the disk is unknown to the store.
LEMMA RemainsLasts ==
  ASSUME Inv, Lasting, NEW h, NEW lg, hist' = h, disk'.log = lg, LeftOf(lg, disk.log), Remains(h, lg, disk.log),
         disk'.cur # 0 => FoundOnly(h, lg, ManifestField(disk'.man[disk'.cur].recs, "log")),
         synced' = synced, db' = ClosedDB, bg' = IdleBG, wr' = [t \in Threads |-> IdleWriter], Covered'
  PROVE  Lasts
<1>1. PartOf(lg, disk.log) /\ DOMAIN lg = DOMAIN disk.log
  BY LogsLeft
<1>2. Distinct(hist, disk.log)
  BY DEF Lasting
<1>3. Distinct(h, lg)
  BY <1>1, <1>2, FewerDistinct DEF Remains
<1>4. db'.phase = "closed" /\ bg'.pc = "idle" /\ \A t \in Threads : wr'[t].pc = "idle"
  BY DEF ClosedDB, IdleBG, IdleWriter
<1>5. LogNumbers' /\ LastCovers'
  BY <1>4 DEF LogNumbers, LastCovers
<1>6. SyncedKept'
  <2>1. ASSUME NEW n \in DOMAIN lg, NEW i \in DOMAIN lg[n].recs, lg[n].recs[i] \in synced
        PROVE  i <= lg[n].sync /\ i \notin lg[n].bad
    <3>1. n \in DOMAIN disk.log /\ i \in DOMAIN disk.log[n].recs /\ disk.log[n].recs[i] \in synced
      BY <1>1, <2>1 DEF PartOf
    <3>2. i <= disk.log[n].sync /\ i \notin disk.log[n].bad
      BY <3>1 DEF Lasting, SyncedKept
    <3>3. QED BY <3>1, <3>2, LogsLeft
  <2>2. QED BY <2>1 DEF SyncedKept, Remains
<1>7. Visible' = h
  BY <1>4 DEF Visible
<1>8. StoreStep
  <2>1. CASE db.phase = "open"
    <3>1. ASSUME NEW g \in h \ Visible, NEW e \in g, NEW o \in UNION Visible
          PROVE  e.s # o.s
      <4>1. PICK k \in Visible : o \in k
        OBVIOUS
      <4>2. k \in hist /\ g # k /\ g \in hist \cup LoggedFrom(disk.log, 0)
        BY <2>1, <3>1, <4>1 DEF Visible, Remains
      <4>3. Apart(g, k)
        BY <1>2, <4>2 DEF Distinct
      <4>4. QED BY <4>1, <4>3 DEF Apart
    <3>2. Store!Stop
      BY <1>4, <1>7, <2>1, <3>1 DEF Store!Stop, Remains
    <3>3. QED BY <3>2 DEF StoreStep
  <2>2. CASE db.phase # "open"
    <3>1. Visible = hist
      BY <2>2 DEF Visible
    <3>2. Store!Lose
      BY <1>4, <1>7, <2>2, <3>1 DEF Store!Lose, Remains
    <3>3. QED BY <3>2 DEF StoreStep
  <2>3. QED BY <2>1, <2>2
<1>9. OutOfReach'
  <2>1. ASSUME NEW n \in DOMAIN lg, lg[n].bad # {} PROVE lg[n].torn = TRUE
    <3>1. disk.log[n].bad # {} /\ lg[n].torn = disk.log[n].torn
      BY <1>1, <2>1, LogsLeft
    <3>2. QED BY <1>1, <3>1 DEF Lasting, OutOfReach
  <2>2. QED BY <1>4, <2>1 DEF OutOfReach, FoundOnly
<1>10. QED BY <1>3, <1>4, <1>5, <1>6, <1>8, <1>9, NotOpenLasts DEF Remains

\* What is found in the logs from a number on is in no older log.
LEMMA OlderLogs ==
  ASSUME Lasting, NEW L, NEW n \in DOMAIN disk.log, ~(n >= L), NEW i \in DOMAIN disk.log[n].recs
  PROVE  disk.log[n].recs[i] \notin LoggedFrom(disk.log, L)
<1>1. SUFFICES ASSUME disk.log[n].recs[i] \in LoggedFrom(disk.log, L) PROVE FALSE
  OBVIOUS
<1>2. PICK g : g = disk.log[n].recs[i]
  OBVIOUS
<1>3. PICK m \in DOMAIN disk.log : m >= L /\ \E j \in DOMAIN disk.log[m].recs : disk.log[m].recs[j] = g
  BY <1>1, <1>2, InLogs
<1>4. PICK j \in DOMAIN disk.log[m].recs : disk.log[m].recs[j] = g
  BY <1>3
<1>5. n = m
  BY <1>2, <1>4 DEF Lasting, Distinct
<1>6. QED BY <1>3, <1>5

\* A database that was opened once stops: what recovery will not find in the
\* logs any more is lost, and nothing else.
LEMMA FoundedRemains ==
  ASSUME Inv, Safe, Lasting, disk.cur # 0, NEW lg, LeftOf(lg, disk.log),
         NEW recs \in Cuts(disk.man[disk.cur]), NEW L, L = ManifestField(recs, "log"),
         NEW h, h = (hist \ LoggedFrom(disk.log, L)) \cup FoundFrom(lg, L)
  PROVE  Remains(h, lg, disk.log) /\ FoundOnly(h, lg, L)
<1>1. PartOf(lg, disk.log) /\ DOMAIN lg = DOMAIN disk.log
  BY LogsLeft
<1>2. L \in Nat /\ DOMAIN disk.log \subseteq Nat
  BY CurrentManifest DEF Inv, Typed, IsDisk, IsDir
<1>3. db.phase = "open" => L <= db.mem
  BY DEF Lasting, Covered
<1>4. FoundFrom(lg, L) \subseteq LoggedFrom(disk.log, L)
  <2>1. FoundFrom(lg, L) \subseteq LoggedFrom(lg, L)
    BY DEF FoundFrom, LoggedFrom, Readable, Range
  <2>2. LoggedFrom(lg, L) \subseteq LoggedFrom(disk.log, L)
    BY <1>1, PartLogged
  <2>3. QED BY <2>1, <2>2
<1>5. LoggedFrom(disk.log, L) \subseteq LoggedFrom(disk.log, 0)
  <2>1. \A n \in DOMAIN disk.log : n >= 0
    BY <1>2
  <2>2. QED BY <2>1 DEF LoggedFrom
<1>6. h \subseteq hist \cup LoggedFrom(disk.log, 0)
  BY <1>4, <1>5
<1>7. ASSUME NEW g \in synced PROVE g \in h
  <2>1. g \in hist
    BY DEF Lasting, SyncedKept
  <2>2. CASE g \notin LoggedFrom(disk.log, L)
    BY <2>1, <2>2
  <2>3. CASE g \in LoggedFrom(disk.log, L)
    <3>1. PICK n \in DOMAIN disk.log : n >= L /\ \E i \in DOMAIN disk.log[n].recs : disk.log[n].recs[i] = g
      BY <2>3, InLogs
    <3>2. PICK i \in DOMAIN disk.log[n].recs : disk.log[n].recs[i] = g
      BY <3>1
    <3>3. i <= disk.log[n].sync /\ i \notin disk.log[n].bad
      BY <3>2 DEF Lasting, SyncedKept
    <3>4. i \in DOMAIN lg[n].recs /\ lg[n].recs[i] = g /\ i \notin lg[n].bad
      BY <3>2, <3>3, LogsLeft
    <3>5. n \in DOMAIN lg /\ n >= L /\ \E j \in DOMAIN lg[n].recs : j \notin lg[n].bad /\ lg[n].recs[j] = g
      BY <1>1, <3>1, <3>4
    <3>6. g \in FoundFrom(lg, L)
      BY <3>5, FoundInLogs, Zenon
    <3>7. QED BY <3>6
  <2>4. QED BY <2>2, <2>3
<1>8. ASSUME NEW n \in DOMAIN lg, NEW i \in DOMAIN lg[n].recs
      PROVE  /\ n \in DOMAIN disk.log /\ i \in DOMAIN disk.log[n].recs /\ disk.log[n].recs[i] = lg[n].recs[i]
             /\ i \in lg[n].bad <=> i \in disk.log[n].bad
  BY <1>1, LogsLeft DEF PartOf
<1>9. ASSUME NEW n \in DOMAIN lg, NEW g \in Readable(lg[n]) PROVE g \in h
  <2>1. PICK i \in DOMAIN lg[n].recs : i \notin lg[n].bad /\ lg[n].recs[i] = g
    BY DEF Readable
  <2>2. n \in DOMAIN disk.log /\ i \in DOMAIN disk.log[n].recs /\ disk.log[n].recs[i] = g /\ i \notin disk.log[n].bad
    BY <1>8, <2>1
  <2>3. CASE n >= L
    <3>1. g \in FoundFrom(lg, L)
      BY <2>1, <2>3, FoundInLogs
    <3>2. QED BY <3>1
  <2>4. CASE ~(n >= L)
    <3>1. g \in hist
      <4>1. g \in Range(disk.log[n].recs) /\ g \in Readable(disk.log[n])
        BY <2>2 DEF Range, Readable
      <4>2. db.phase = "open" => n # db.mem
        BY <1>2, <1>3, <2>2, <2>4
      <4>3. QED BY <2>2, <4>1, <4>2 DEF Lasting, LogsKnown
    <3>2. g \notin LoggedFrom(disk.log, L)
      BY <2>2, <2>4, OlderLogs
    <3>3. QED BY <3>1, <3>2
  <2>5. QED BY <2>3, <2>4
<1>10. ASSUME db.phase # "open" PROVE h \subseteq hist
  <2>1. ASSUME NEW g \in FoundFrom(lg, L) PROVE g \in hist
    <3>1. PICK n \in DOMAIN lg : n >= L /\ \E i \in DOMAIN lg[n].recs : i \notin lg[n].bad /\ lg[n].recs[i] = g
      BY <2>1, FoundInLogs
    <3>2. PICK i \in DOMAIN lg[n].recs : i \notin lg[n].bad /\ lg[n].recs[i] = g
      BY <3>1
    <3>3. n \in DOMAIN disk.log /\ g \in Readable(disk.log[n])
      BY <1>8, <3>2 DEF Readable
    <3>4. QED BY <1>10, <3>3, NotOpenFacts
  <2>2. QED BY <2>1
<1>11. Remains(h, lg, disk.log)
  BY <1>6, <1>7, <1>9, <1>10 DEF Remains
<1>12. ASSUME NEW n \in DOMAIN lg, n >= L, NEW i \in DOMAIN lg[n].recs, i \in lg[n].bad, lg[n].recs[i] \in h
       PROVE  FALSE
  <2>1. PICK g : g = lg[n].recs[i]
    OBVIOUS
  <2>2. n \in DOMAIN disk.log /\ i \in DOMAIN disk.log[n].recs /\ disk.log[n].recs[i] = g /\ i \in disk.log[n].bad
    BY <1>8, <1>12, <2>1
  <2>3. g \in LoggedFrom(disk.log, L)
    BY <1>12, <2>2, InLogs
  <2>4. g \in FoundFrom(lg, L)
    BY <1>12, <2>1, <2>3
  <2>5. PICK m \in DOMAIN lg : m >= L /\ \E j \in DOMAIN lg[m].recs : j \notin lg[m].bad /\ lg[m].recs[j] = g
    BY <2>4, FoundInLogs
  <2>6. PICK j \in DOMAIN lg[m].recs : j \notin lg[m].bad /\ lg[m].recs[j] = g
    BY <2>5
  <2>7. m \in DOMAIN disk.log /\ j \in DOMAIN disk.log[m].recs /\ disk.log[m].recs[j] = g
    BY <1>8, <2>6
  <2>8. n = m /\ i = j
    BY <2>2, <2>7 DEF Lasting, Distinct
  <2>9. QED BY <1>12, <2>6, <2>8
<1>13. FoundOnly(h, lg, L)
  BY <1>12 DEF FoundOnly
<1>14. QED BY <1>11, <1>13

\* However much of its manifest a later crash leaves, recovery makes up for
\* what the logs do not have.
LEMMA FoundedCovered ==
  ASSUME Inv, Safe, Lasting, disk.cur # 0, NEW lg, LeftOf(lg, disk.log),
         NEW f, f.recs \in Cuts(f), Cuts(f) \subseteq Cuts(disk.man[disk.cur]),
         (lg = disk.log) \/ Cuts(f) \subseteq {f.recs},
         NEW L, L = ManifestField(f.recs, "log"),
         NEW h, h = (hist \ LoggedFrom(disk.log, L)) \cup FoundFrom(lg, L),
         NEW recs \in Cuts(f)
  PROVE  Covers(recs, h, lg)
<1> DEFINE K == ManifestField(recs, "log")
<1>1. Covers(recs, hist, disk.log) /\ (db.phase = "open" => K <= db.mem)
  BY DEF Lasting, Covered
<1>2. SUFFICES ASSUME NEW g \in h
               PROVE  g \in LoggedFrom(lg, K) \/ UpToSeq(g, ManifestField(recs, "last"))
  BY <1>1 DEF Covers
<1>3. g \in hist => g \in LoggedFrom(disk.log, K) \/ UpToSeq(g, ManifestField(recs, "last"))
  BY <1>1 DEF Covers
<1>4. FoundFrom(lg, L) \subseteq LoggedFrom(lg, L)
  BY DEF FoundFrom, LoggedFrom, Readable, Range
<1>5. CASE recs = f.recs
  BY <1>2, <1>3, <1>4, <1>5
<1>6. CASE lg = disk.log
  <2>1. CASE g \in hist
    BY <1>3, <1>6, <2>1
  <2>2. CASE g \notin hist
    <3>1. g \in FoundFrom(disk.log, L)
      BY <1>2, <1>6, <2>2
    <3>2. PICK n \in DOMAIN disk.log : n >= L /\ \E i \in DOMAIN disk.log[n].recs :
                                                     i \notin disk.log[n].bad /\ disk.log[n].recs[i] = g
      BY <3>1, FoundInLogs
    <3>3. g \in Range(disk.log[n].recs) /\ g \in Readable(disk.log[n])
      BY <3>2 DEF Range, Readable
    <3>4. db.phase = "open" /\ n = db.mem
      BY <2>2, <3>2, <3>3 DEF Lasting, LogsKnown
    <3>5. K \in Nat /\ n \in Nat
      BY CurrentManifest DEF Inv, Typed, IsDisk, IsDir
    <3>6. n >= K
      BY <1>1, <3>4, <3>5
    <3> HIDE DEF K
    <3>7. g \in LoggedFrom(disk.log, K)
      BY <3>2, <3>6, InLogs
    <3>8. QED BY <1>6, <3>7
  <2>3. QED BY <2>1, <2>2
<1>7. QED BY <1>5, <1>6

\* The process is gone.
LEMMA StoppedLasts ==
  ASSUME Inv, Safe, Lasting, NEW d, IsDisk(d), d.cur = disk.cur, DOMAIN d.tab = DOMAIN disk.tab,
         LeftOf(d.log, disk.log),
         disk.cur # 0 => /\ d.cur \in DOMAIN d.man /\ Durable(d.man[d.cur], d.cur, DOMAIN d.tab)
                         /\ disk.man[d.cur].sync > 0 => d.man[d.cur].sync > 0
                         /\ Cuts(d.man[d.cur]) \subseteq Cuts(disk.man[d.cur])
                         /\ (d.log = disk.log) \/ Cuts(d.man[d.cur]) \subseteq {d.man[d.cur].recs},
         Stopped(d), synced' = synced
  PROVE  Lasts
<1> DEFINE lg == d.log
           f == d.man[d.cur]
<1>1. PICK r : r = [d EXCEPT !.log = disk.log]
  OBVIOUS
<1>2. r.log = disk.log /\ r.cur = d.cur /\ r.man = d.man /\ r.tab = d.tab
  BY <1>1 DEF IsDisk
<1>3. /\ disk' = d /\ db' = ClosedDB /\ bg' = IdleBG /\ wr' = [t \in Threads |-> IdleWriter]
      /\ hist' = (hist \ Logged(r)) \cup Replayed(d)
  BY <1>1 DEF Stopped
<1>4. db'.phase = "closed"
  BY <1>3 DEF ClosedDB
<1>5. disk'.log = lg /\ LeftOf(lg, disk.log)
  BY <1>3
<1>6. CASE disk.cur # 0 /\ disk.man[disk.cur].sync > 0
  <2>1. f \in FileOf(EditType) /\ f.sync > 0 /\ f.sync <= Len(f.recs) /\ Durable(f, d.cur, DOMAIN d.tab)
    BY <1>6 DEF IsDisk, IsDir, Durable
  <2>2. Len(f.recs) > 0
    BY <2>1, LenProperties DEF FileOf
  <2>3. f.recs \in Cuts(f)
    BY <2>1, <2>2, CutsWhole
  <2>4. Complete(f.recs, d.cur, DOMAIN d.tab)
    BY <2>1, <2>2, DurableWhole
  <2>5. ManifestOK(d)
    BY <1>6, <2>4, CompleteRecovers
  <2>6. ManifestOK(r)
    <3>1. r.cur \in DOMAIN r.man /\ Complete(r.man[r.cur].recs, r.cur, DOMAIN r.tab)
      BY <1>2, <1>6, <2>4
    <3>2. QED BY <3>1, CompleteRecovers
  <2>7. PICK L : L = ManifestField(f.recs, "log")
    OBVIOUS
  <2>8. Replayed(d) = FoundFrom(lg, L)
    BY <1>6, <2>5, <2>7, ReplayedFrom
  <2>9. Logged(r) = LoggedFrom(disk.log, L)
    <3>1. Logged(r) = LoggedFrom(r.log, ManifestField(r.man[r.cur].recs, "log"))
      BY <1>2, <1>6, <2>6, ReplayedFrom
    <3>2. QED BY <1>2, <2>7, <3>1
  <2>10. PICK h : h = (hist \ LoggedFrom(disk.log, L)) \cup FoundFrom(lg, L)
    OBVIOUS
  <2>11. hist' = h
    BY <1>3, <2>8, <2>9, <2>10
  <2>12. /\ Cuts(f) \subseteq Cuts(disk.man[disk.cur])
         /\ (lg = disk.log) \/ Cuts(f) \subseteq {f.recs}
    BY <1>6
  <2>13. Cuts(disk.man[disk.cur])' = Cuts(f)
    BY <1>3 DEF Cuts, CutPoints
  <2> HIDE DEF f, lg
  <2>14. f.recs \in Cuts(disk.man[disk.cur])
    BY <2>3, <2>12
  <2>15. Remains(h, lg, disk.log) /\ FoundOnly(h, lg, L)
    BY <1>5, <1>6, <2>7, <2>10, <2>14, FoundedRemains
  <2>16. \A recs \in Cuts(f) : Covers(recs, h, lg)
    BY <1>5, <1>6, <2>3, <2>7, <2>10, <2>12, FoundedCovered
  <2>17. Covered'
    BY <1>4, <1>5, <2>11, <2>13, <2>16 DEF Covered, Covers, LoggedFrom, UpToSeq
  <2>18. FoundOnly(h, lg, ManifestField(disk'.man[disk'.cur].recs, "log"))
    BY <1>3, <2>7, <2>15 DEF f
  <2>19. QED BY <1>3, <1>5, <2>11, <2>15, <2>17, <2>18, RemainsLasts
<1>7. CASE hist = {} /\ \A n \in DOMAIN disk.log : disk.log[n].recs = <<>>
  <2>1. Range(<<>>) = {} /\ DOMAIN <<>> = {}
    BY DEF Range
  <2>2. \A n \in DOMAIN lg : Readable(lg[n]) = {} /\ DOMAIN lg[n].recs = {}
    <3>1. PartOf(lg, disk.log) /\ DOMAIN lg = DOMAIN disk.log
      BY <1>5, LogsLeft
    <3>2. QED BY <1>7, <2>1, <3>1 DEF PartOf, Readable
  <2>3. Replayed(d) = {}
    BY <2>2 DEF Replayed, LogsToReplay
  <2>4. PICK h : h = {}
    OBVIOUS
  <2>5. hist' = h
    BY <1>3, <1>7, <2>3, <2>4
  <2>6. synced \subseteq h
    BY <1>7, <2>4 DEF Lasting, SyncedKept
  <2>7. Remains(h, lg, disk.log)
    BY <2>2, <2>4, <2>6 DEF Remains
  <2>8. Covered'
    <3>1. SUFFICES ASSUME disk.cur # 0, NEW recs \in Cuts(f) PROVE Covers(recs, h, lg)
      <4>1. Cuts(disk.man[disk.cur])' = Cuts(f)
        BY <1>3 DEF Cuts, CutPoints
      <4> HIDE DEF f, lg
      <4>2. disk'.cur = disk.cur
        BY <1>3
      <4>3. QED BY <1>4, <1>5, <2>5, <4>1, <4>2 DEF Covered, Covers, LoggedFrom, UpToSeq
    <3>2. recs \in Cuts(disk.man[disk.cur])
      BY <3>1
    <3>3. Covers(recs, hist, disk.log)
      BY <3>1, <3>2 DEF Lasting, Covered
    <3>4. QED BY <2>4, <3>3 DEF Covers
  <2>9. FoundOnly(h, lg, ManifestField(disk'.man[disk'.cur].recs, "log"))
    BY <2>2 DEF FoundOnly
  <2>10. QED BY <1>3, <1>5, <2>5, <2>7, <2>8, <2>9, RemainsLasts
<1>8. QED BY <1>6, <1>7 DEF Safe, Founded

\* The end of the destructor, the crash of a cancelled manual compaction and a
\* crash of the process or the machine.
LEMMA FinishCloseLasts ==
  ASSUME Inv, Safe, Lasting, FinishClose \/ CancelledManualCrashes \/ Crash
  PROVE  Lasts
<1>1. /\ IsDisk(disk) /\ disk.cur \in Nat /\ IsDir(disk.log, Groups) /\ IsDir(disk.man, EditType) /\ IsDir(disk.tab, Groups)
      /\ synced' = synced
  BY DEF Inv, Typed, IsDisk, FinishClose, CancelledManualCrashes, Crash
<1>2. disk.cur # 0 => /\ disk.cur \in DOMAIN disk.man /\ Durable(disk.man[disk.cur], disk.cur, DOMAIN disk.tab)
                      /\ disk.man[disk.cur] \in FileOf(EditType)
                      /\ disk.man[disk.cur].sync <= Len(disk.man[disk.cur].recs)
  BY CurrentManifest DEF Safe, ManifestSafe
<1>3. CASE FinishClose \/ CancelledManualCrashes
  <2>1. Stopped(disk)
    BY <1>3 DEF FinishClose, CancelledManualCrashes
  <2>2. PICK d : d = disk
    OBVIOUS
  <2>3. Stopped(d) /\ IsDisk(d) /\ LeftOf(d.log, disk.log)
    BY <1>1, <2>1, <2>2 DEF LeftOf
  <2>4. QED BY <1>1, <1>2, <2>2, <2>3, StoppedLasts
<1>4. CASE Crash
  <2>1. PICK lg \in SurvivingFiles(disk.log), mn \in SurvivingFiles(disk.man), tb \in SurvivingFiles(disk.tab) :
          Stopped([log |-> lg, man |-> mn, tab |-> tb, cur |-> disk.cur])
    BY <1>4 DEF Crash
  <2> DEFINE d == [log |-> lg, man |-> mn, tab |-> tb, cur |-> disk.cur]
  <2>2. IsDir(lg, Groups) /\ LeftOf(lg, disk.log)
    <3>1. /\ IsDir(lg, Groups) /\ DOMAIN lg = DOMAIN disk.log
          /\ \A n \in DOMAIN disk.log : \/ lg[n] = disk.log[n] /\ ~(disk.log[n].sync < Len(disk.log[n].recs))
                                        \/ \E m \in CutPoints(disk.log[n]) : lg[n] = CutAt(disk.log[n], m)
      BY <1>1, SurvivingFacts
    <3>2. QED BY <1>1, <3>1 DEF LeftOf
  <2>3. /\ IsDir(mn, EditType) /\ DOMAIN mn = DOMAIN disk.man
        /\ \A n \in DOMAIN disk.man : \/ mn[n] = disk.man[n] /\ ~(disk.man[n].sync < Len(disk.man[n].recs))
                                      \/ \E m \in CutPoints(disk.man[n]) : mn[n] = CutAt(disk.man[n], m)
    BY <1>1, SurvivingFacts
  <2>4. IsDir(tb, Groups) /\ DOMAIN tb = DOMAIN disk.tab
    BY <1>1, SurvivingFacts
  <2>5. IsDisk(d) /\ d.cur = disk.cur /\ d.log = lg /\ d.man = mn /\ d.tab = tb /\ Stopped(d)
    BY <1>1, <2>1, <2>2, <2>3, <2>4 DEF IsDisk
  <2> HIDE DEF d
  <2>6. ASSUME disk.cur # 0
        PROVE  /\ disk.cur \in DOMAIN mn /\ Durable(mn[disk.cur], disk.cur, DOMAIN disk.tab)
               /\ disk.man[disk.cur].sync > 0 => mn[disk.cur].sync > 0
               /\ Cuts(mn[disk.cur]) \subseteq Cuts(disk.man[disk.cur])
               /\ Cuts(mn[disk.cur]) \subseteq {mn[disk.cur].recs}
    <3> DEFINE f == disk.man[disk.cur]
               g == mn[disk.cur]
    <3>1. /\ f \in FileOf(EditType) /\ Durable(f, disk.cur, DOMAIN disk.tab) /\ disk.cur \in DOMAIN disk.man
          /\ f.sync <= Len(f.recs) /\ f.sync \in Nat /\ Len(f.recs) \in Nat
      BY <1>2, <2>6, LenProperties DEF FileOf
    <3>2. \/ g = f /\ ~(f.sync < Len(f.recs))
          \/ \E m \in CutPoints(f) : g = CutAt(f, m)
      BY <2>3, <3>1
    <3>3. disk.cur \in DOMAIN mn
      BY <2>3, <3>1
    <3> HIDE DEF f, g
    <3>4. CASE g = f /\ ~(f.sync < Len(f.recs))
      <4>1. f.sync = Len(f.recs)
        BY <3>1, <3>4
      <4>2. Cuts(f) \subseteq {f.recs}
        BY <3>1, <4>1, CutsWhole
      <4>3. QED BY <3>1, <3>3, <3>4, <4>2 DEF f, g
    <3>5. ASSUME NEW m \in CutPoints(f), g = CutAt(f, m)
          PROVE  /\ Durable(g, disk.cur, DOMAIN disk.tab) /\ (f.sync > 0 => g.sync > 0)
                 /\ Cuts(g) \subseteq Cuts(f) /\ Cuts(g) \subseteq {g.recs}
      <4>1. g.sync = m /\ f.sync <= m
        BY <3>1, <3>5, CutFacts
      <4>2. m \in Nat
        BY <3>1 DEF CutPoints
      <4>3. f.sync > 0 => g.sync > 0
        BY <3>1, <4>1, <4>2
      <4>4. Durable(g, disk.cur, DOMAIN disk.tab)
        BY <3>1, <3>5, DurableStays
      <4>5. Cuts(g) \subseteq Cuts(f) /\ Cuts(g) \subseteq {g.recs}
        BY <3>1, <3>5, CutsStay
      <4>6. QED BY <4>3, <4>4, <4>5
    <3>6. QED BY <3>2, <3>3, <3>4, <3>5 DEF f, g
  <2>7. QED BY <1>1, <2>2, <2>4, <2>5, <2>6, StoppedLasts
<1>5. QED BY <1>3, <1>4

-----------------------------------------------------------------------------
(* The refinement.                                                           *)

\* The empty directory.
LEMMA InitLasting == Init => Lasting
<1>1. SUFFICES ASSUME Init PROVE Lasting
  OBVIOUS
<1>2. /\ disk = [log |-> <<>>, tab |-> <<>>, man |-> <<>>, cur |-> 0] /\ hist = {} /\ synced = {}
      /\ db.phase = "closed" /\ bg.pc = "idle" /\ wr = [t \in Threads |-> IdleWriter]
  BY <1>1 DEF Init, ClosedDB, IdleBG
<1>3. DOMAIN disk.log = {} /\ disk.cur = 0 /\ \A t \in Threads : ~Busy(t)
  BY <1>2 DEF Busy, IdleWriter
<1>4. LoggedFrom(disk.log, 0) = {}
  BY <1>3 DEF LoggedFrom
<1>5. Distinct(hist, disk.log)
  BY <1>2, <1>3, <1>4 DEF Distinct
<1>6. LogsKnown /\ OutOfReach /\ Covered /\ SyncedKept
  BY <1>2, <1>3 DEF LogsKnown, OutOfReach, Covered, SyncedKept
<1>7. LogNumbers /\ LastCovers /\ Leading /\ EditWrittenLast
  BY <1>2, <1>3 DEF LogNumbers, LastCovers, Leading, EditWrittenLast
<1>8. QED BY <1>5, <1>6, <1>7 DEF Lasting

\* Every step of the database keeps the invariant and is a step of the store,
\* or none.
LEMMA StepLasts ==
  ASSUME Inv, Safe, Lasting, [Next]_vars
  PROVE  Lasts
<1>1. CASE Opening
  BY <1>1, NewDBLasts, RecoverLasts, ReplayTableLasts, StartManifestLasts, FinishOpenLasts DEF Opening
<1>2. CASE OpenError
  BY <1>2, OpenErrorLasts
<1>3. CASE \E t \in Writers, call \in Calls : Write(t, call)
  <2>1. PICK t \in Writers : \E call \in Calls : Write(t, call)
    BY <1>3
  <2>2. t \in Threads
    BY DEF Threads
  <2>3. QED BY <2>1, <2>2, WaitingLasts
<1>4. CASE \E t \in Threads : Writing(t)
  <2>1. PICK t \in Threads : Writing(t)
    BY <1>4
  <2>2. CASE WriteFails(t) \/ WriteDelayed(t) \/ WriteWaits(t)
    BY <2>2, WaitingLasts
  <2>3. CASE SwitchMemTable(t)
    BY <2>3, SwitchMemTableLasts
  <2>4. CASE WriteLog(t)
    BY <2>4, WriteLogLasts
  <2>5. CASE WriteMem(t)
    BY <2>5, WriteMemLasts
  <2>6. CASE WriteDone(t)
    BY <2>6, WriteDoneLasts
  <2>7. QED BY <2>1, <2>2, <2>3, <2>4, <2>5, <2>6 DEF Writing
<1>5. CASE (\E r \in Readers : BeginRead(r) \/ EndRead(r)) \/ GetSnapshot \/ ReleaseSnapshot
  BY <1>5, ReadingLasts
<1>6. CASE Background
  BY <1>6, NothingToDoLasts, JobGoesOnLasts, FlushBuiltLasts, StartCompactionLasts, ApplyCompactionLasts,
     InstallLasts, FinishCloseLasts DEF Background
<1>7. CASE InstallFails
  BY <1>7, InstallFailsLasts
<1>8. CASE BeginCompactRange \/ Compacting \/ BeginClose \/ Closing \/ Crash
  BY <1>8, CallersLast, FinishCloseLasts DEF Compacting, Closing
<1>9. CASE UNCHANGED vars
  <2>1. /\ disk' = disk /\ vs' = vs /\ db' = db /\ bg' = bg /\ wr' = wr
        /\ hist' = hist /\ synced' = synced
    BY <1>9 DEF vars
  <2>2. Distinct(hist, disk.log)'
    <3>1. Distinct(hist', disk'.log)
      BY <2>1 DEF Lasting
    <3>2. QED BY ONLY <3>1 DEF Distinct, LoggedFrom, Apart
  <2>3. Cuts(disk.man[disk.cur])' = Cuts(disk.man[disk.cur])
    BY <2>1 DEF Cuts, CutPoints
  <2>4. Covered'
    BY <2>1, <2>3 DEF Lasting, Covered, Covers, LoggedFrom, UpToSeq
  <2>5. LogsKnown' /\ OutOfReach' /\ LogNumbers' /\ SyncedKept' /\ EditWrittenLast'
    BY <2>1 DEF Lasting, LogsKnown, OutOfReach, Readable, LogNumbers, SyncedKept, EditWrittenLast
  <2>6. LastCovers' /\ Leading'
    BY <2>1 DEF Lasting, LastCovers, Leading, Busy, LoggedFrom, UpToSeq
  <2>7. StoreStep
    BY <2>1, SameStore
  <2>8. QED BY <2>2, <2>4, <2>5, <2>6, <2>7 DEF Lasting, Lasts
<1>10. QED BY <1>1, <1>2, <1>3, <1>4, <1>5, <1>6, <1>7, <1>8, <1>9 DEF Next

\* The database implements the abstract store, whatever the order of writes,
\* flushes, compactions, I/O errors, crashes and recoveries: a group of writes
\* takes effect as a whole and with sequence numbers above all earlier ones
\* (DBImpl::Write); opening neither loses nor makes up a group; and a crash,
\* also one during recovery, takes away only groups that were not acknowledged
\* as durable, with no failed append to their log before them (RecoverLogFile,
\* LogAndApply, DeleteObsoleteFiles, Writer::AddRecord).
THEOREM ImplementsStore == Spec => StoreSpec
<1>1. Init => Inv /\ Safe /\ Lasting
  BY InitInv, InitSafe, InitLasting
<1>2. Init => Store!Init
  BY DEF Init, ClosedDB, Visible, Store!Init
<1>3. Inv /\ Safe /\ Lasting /\ [Next]_vars => (Inv /\ Safe /\ Lasting)' /\ StoreStep
  BY StepInv, StepSafe, StepLasts DEF Lasts
<1>4. QED BY <1>1, <1>2, <1>3, PTL DEF Spec, StoreSpec, Store!Spec, StoreStep

=============================================================================
