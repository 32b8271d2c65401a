------------------------------ MODULE LevelDB ------------------------------
(* LevelDB's database object (db/db_impl.cc with the LogAndApply and Recover *)
(* of db/version_set.cc): group commit, the write-ahead log, the memtable    *)
(* switch, the background thread's flushes and compactions, reads that pin a *)
(* version, the deletion of obsolete files, and crash, recovery and I/O      *)
(* errors.                                                                   *)
(*                                                                           *)
(* One action is one stretch of code between two points where mutex_ is free *)
(* (the unlocked I/O that precedes a locked stretch is part of it).  A file  *)
(* is the sequence of records appended to it and how many of them a Sync has *)
(* made durable; creating, renaming and deleting a file is durable at once   *)
(* and in order.  A crash keeps, of every file, a prefix that holds at least *)
(* the durable part: all of it when only the process dies, less when the     *)
(* machine loses power.                                                      *)
(*                                                                           *)
(* An append that fails may leave a part of its record, and moves the        *)
(* writer's place in its block all the same (Writer::EmitPhysicalRecord, see *)
(* LogFormat).  The file is then torn: of what is appended to it later a     *)
(* reader may find any record or not.                                        *)
EXTENDS VersionSet

CONSTANTS
  Keys,             \* user keys: positive numbers
  Writers,          \* client threads calling DB::Write
  Compactor,        \* the client thread calling DB::CompactRange
  Closer,           \* the client thread deleting the DB
  Readers,          \* client threads holding a Get or an iterator
  Calls,            \* the calls of Write: [batch |-> sequence of [k, d], sync |-> BOOLEAN]
  Ranges,           \* the ranges <<begin, end>> CompactRange is asked for
  WriteBuffer,      \* Options::write_buffer_size, in entries
  SlowdownTrigger,  \* config::kL0_SlowdownWritesTrigger
  StopTrigger,      \* config::kL0_StopWritesTrigger
  GroupLimit,       \* the most entries BuildBatchGroup puts together
  MaxOpens,         \* bound: calls of Open
  MaxInputs         \* bound: everything else that comes from outside, all
                    \*        together: calls of Write and CompactRange, reads,
                    \*        snapshots, closes, crashes and I/O errors

VARIABLES
  disk,    \* log, table and manifest files, and the manifest CURRENT names
  vs,      \* the VersionSet
  db,      \* the DBImpl fields guarded by mutex_
  mems,    \* the contents of the memtables still referenced
  wr,      \* the Writer of each thread inside Write
  bg,      \* where the background thread is
  rd,      \* what each reader has pinned
  snaps,   \* the sequence numbers of the live snapshots
  cr,      \* where the Compactor is inside CompactRange
  hist,    \* history: every group of writes that was not lost in a crash
  synced,  \* history: the groups acknowledged to a writer that asked for sync,
           \*          from a log no append to which had failed
  left     \* what is left of each bound

vars == <<disk, vs, db, mems, wr, bg, rd, snaps, cr, hist, synced, left>>

ASSUME DBAssumption ==
  /\ Keys \subseteq Nat \ {0} /\ IsFiniteSet(Keys)
  /\ Calls \subseteq [batch : Seq([k : Keys, d : BOOLEAN]) \ {<<>>}, sync : BOOLEAN]
  /\ Ranges \subseteq (Keys \cup {NoBound}) \X (Keys \cup {NoBound})
  /\ WriteBuffer \in Nat /\ GroupLimit \in Nat
  /\ StopTrigger \in Nat /\ L0CompactionTrigger <= StopTrigger
  /\ MaxOpens \in Nat /\ MaxInputs \in Nat

Threads == Writers \cup {Compactor}

None == -1

Spend(what) == left[what] > 0 /\ left' = [left EXCEPT ![what] = @ - 1]

-----------------------------------------------------------------------------
(* Files.                                                                    *)

\* A log or manifest file, or a table of one record: the records appended, how
\* many are durable, whether an append failed, and the places of the records
\* that a reader does not find.
NewFile(recs) == [recs |-> recs, sync |-> 0, torn |-> FALSE, bad |-> {}]

\* A directory of files, or a set of memtables, with x under the number n.
With(dir, n, x) == [m \in DOMAIN dir \cup {n} |-> IF m = n THEN x ELSE dir[m]]

Appended(f, rec) == [f EXCEPT !.recs = Append(@, rec)]

\* Log::AddRecord: where an append failed before, the record may be out of a
\* reader's reach.
Appends(f, rec) ==
  {Appended(f, rec)}
  \cup IF f.torn THEN {[Appended(f, rec) EXCEPT !.bad = @ \cup {Len(f.recs) + 1}]} ELSE {}

\* The last append failed after all, leaving part of its record or nothing.
Torn(f) == [recs |-> Front(f.recs), sync |-> f.sync, torn |-> TRUE, bad |-> f.bad \ {Len(f.recs)}]

\* A Sync makes nothing durable behind a record that is out of reach: a reader
\* may take that one for the end of the file.
Synced(f) == [f EXCEPT !.sync = IF f.bad = {} THEN Len(f.recs) ELSE @]

\* What a crash may leave of a file: a prefix that holds the durable part.
CutPoints(f) == f.sync .. Len(f.recs)

CutAt(f, n) == [recs |-> SubSeq(f.recs, 1, n), sync |-> n, torn |-> f.torn, bad |-> f.bad \cap 1 .. n]

\* The records a reader finds.
Readable(f) == {f.recs[i] : i \in DOMAIN f.recs \ f.bad}

\* A table file holds its entries as one record; a read of a file that is not
\* there, or lost its record, finds nothing.
TableEntries(d, n) ==
  IF n \in DOMAIN d.tab /\ d.tab[n].recs # <<>> THEN d.tab[n].recs[1] ELSE {}

Tables(d, v) == [n \in {f.num : f \in VersionFiles(v)} |-> TableEntries(d, n)]

-----------------------------------------------------------------------------
(* Version edits and the manifest.                                           *)

\* A VersionEdit; None stands for a field that is not set.
Edit(log, next, last, ptrs, del, add) ==
  [log |-> log, next |-> next, last |-> last, ptrs |-> ptrs, del |-> del, add |-> add]

\* Builder::Apply and SaveTo: delete, then add, level by level.
ApplyEdit(v, e) ==
  [l \in Levels |-> {f \in v[l] : <<l, f.num>> \notin e.del}
                       \cup {a[2] : a \in {x \in e.add : x[1] = l}}]

ApplyPointers(ptr, e) ==
  [l \in Levels |-> LET new == {p \in e.ptrs : p[1] = l}
                    IN IF new = {} THEN ptr[l] ELSE (CHOOSE p \in new : TRUE)[2]]

NoPointers == [l \in Levels |-> NoPointer]

\* The edit NewDB writes, and the one WriteSnapshot writes.
NewDBEdit == Edit(0, 2, 0, {}, {}, {})

SnapshotEdit(v, ptr) ==
  Edit(None, None, None, {<<l, ptr[l]>> : l \in {m \in Levels : ptr[m] # NoPointer}}, {},
       UNION {{<<l, f>> : f \in v[l]} : l \in Levels})

\* The state a manifest describes, its edits applied in order: a file is there
\* if some edit adds it and no later one deletes it, a field is what the last
\* edit that sets it says.
StillAdded(recs, l, i) ==
  {x \in recs[i].add : x[1] = l /\ \A j \in i + 1 .. Len(recs) : <<l, x[2].num>> \notin recs[j].del}

ManifestFiles(recs, l) == {a[2] : a \in UNION {StillAdded(recs, l, i) : i \in DOMAIN recs}}

ManifestPointer(recs, l) ==
  LET set == {i \in DOMAIN recs : \E p \in recs[i].ptrs : p[1] = l}
  IN IF set = {} THEN NoPointer ELSE (CHOOSE p \in recs[Max(set)].ptrs : p[1] = l)[2]

ManifestField(recs, field) ==
  LET set == {i \in DOMAIN recs : recs[i][field] # None}
  IN IF set = {} THEN None ELSE recs[Max(set)][field]

ManifestState(recs) ==
  [ver  |-> [l \in Levels |-> ManifestFiles(recs, l)],
   ptr  |-> [l \in Levels |-> ManifestPointer(recs, l)],
   log  |-> ManifestField(recs, "log"),
   next |-> ManifestField(recs, "next"),
   last |-> ManifestField(recs, "last")]

CurrentState(d) == ManifestState(d.man[d.cur].recs)

\* The logs Recover replays: those the manifest has not declared obsolete.
LogsToReplay(d, st) == {n \in DOMAIN d.log : n >= st.log}

\* The edits of the manifest set every field, and the missing-file check of
\* DBImpl::Recover succeeds.  It goes by number: any file of that number will do.
ManifestOK(d) ==
  /\ d.cur \in DOMAIN d.man
  /\ LET st == CurrentState(d)
     IN /\ st.next # None /\ st.log # None /\ st.last # None
        /\ {f.num : f \in VersionFiles(st.ver)} \subseteq
             DOMAIN d.tab \cup DOMAIN d.log \cup DOMAIN d.man

\* VersionSet::Recover gives up at a record it cannot read.
RecoverOK(d) == ManifestOK(d) /\ d.man[d.cur].bad = {}

\* The groups written to the logs that a recovery from d goes through, and
\* those it finds there: RecoverLogFile drops what it cannot read.
Logged(d) ==
  IF d.cur = 0 \/ ~ManifestOK(d) THEN {}
  ELSE UNION {Range(d.log[n].recs) : n \in LogsToReplay(d, CurrentState(d))}

Replayed(d) ==
  IF d.cur = 0 \/ ~ManifestOK(d) THEN {}
  ELSE UNION {Readable(d.log[n]) : n \in LogsToReplay(d, CurrentState(d))}

-----------------------------------------------------------------------------
(* State while the database is closed, and at the start.                     *)

ClosedVS == [next |-> 2, man |-> 0, last |-> 0, log |-> 0, ver |-> EmptyVersion,
             ptr |-> NoPointers, seek |-> {}]

ClosedDB == [phase |-> "closed", mem |-> 0, imm |-> 0, pending |-> {}, err |-> FALSE,
             shut |-> FALSE, sched |-> FALSE, manual |-> FALSE, queue |-> <<>>,
             waiting |-> {}, todo |-> <<>>, add |-> {}]

IdleWriter == [pc |-> "idle", batch |-> <<>>, sync |-> FALSE, ents |-> {}, group |-> <<>>]

IdleBG == [pc |-> "idle", job |-> "none", num |-> 0, edit |-> NewDBEdit, comp |-> {}]

IdleCompact == [pc |-> "idle", level |-> 0, max |-> 0, lo |-> NoBound, begin |-> NoBound,
                end |-> NoBound, done |-> FALSE]

Init ==
  /\ disk = [log |-> <<>>, tab |-> <<>>, man |-> <<>>, cur |-> 0]
  /\ vs = ClosedVS /\ db = ClosedDB /\ mems = <<>>
  /\ wr = [t \in Threads |-> IdleWriter]
  /\ bg = IdleBG
  /\ rd = [r \in Readers |-> {}]
  /\ snaps = {} /\ cr = IdleCompact
  /\ hist = {} /\ synced = {}
  /\ left \in [opens : 0 .. MaxOpens, inputs : 0 .. MaxInputs]

-----------------------------------------------------------------------------
(* Shared steps.                                                             *)

NeedsCompaction(v) == SizeCompaction(v.ver) \/ v.seek # {}

\* MaybeScheduleCompaction, given the new fields.
MaybeSchedule(d, v) ==
  [d EXCEPT !.sched = @ \/ (~d.shut /\ ~d.err /\ (d.imm # 0 \/ d.manual \/ NeedsCompaction(v)))]

SignalAll(d) == [d EXCEPT !.waiting = {}]

RecordBackgroundError(d) == SignalAll([d EXCEPT !.err = TRUE])

\* Fault: outputs that no version lists yet count as obsolete.
LiveInVersions(pending, versions) == {f.num : f \in UNION {VersionFiles(v) : v \in versions}}

\* The files in use: outputs being written and the files of every version that
\* somebody still references.
LiveFiles(pending, versions) ==
  pending \cup {f.num : f \in UNION {VersionFiles(v) : v \in versions}}

\* Fault: a reader takes no reference on its version.
NotReferenced == {}

PinnedVersions == {p.ver : p \in UNION Range(rd)}

\* DeleteObsoleteFiles.
DeleteObsolete(d, v, isErr, live) ==
  IF isErr THEN d
  ELSE [d EXCEPT !.log = Restrict(@, {n \in DOMAIN @ : n >= v.log}),
                 !.man = Restrict(@, {n \in DOMAIN @ : n >= v.man}),
                 !.tab = Restrict(@, DOMAIN @ \cap live)]

\* Fault: a reader takes no reference on the memtables.
ReferencedByDB(ms, d, readers) == Restrict(ms, DOMAIN ms \cap {d.mem, d.imm})

\* Memtables stay as long as the database or a reader references them.
Referenced(ms, d, readers) ==
  Restrict(ms, DOMAIN ms \cap ({d.mem, d.imm} \cup UNION {{p.mem, p.imm} : p \in UNION Range(readers)}))

\* LogAndApply fills in the fields the edit leaves open.
Filled(v, log, ptrs, del, add) == Edit(log, v.next, v.last, ptrs, del, add)

Installed(v, e) ==
  [v EXCEPT !.ver = ApplyEdit(@, e), !.ptr = ApplyPointers(@, e), !.log = e.log, !.seek = {}]

-----------------------------------------------------------------------------
(* Opening: NewDB, Recover, RecoverLogFile and the rest of DB::Open.         *)

\* The first manifest is written and closed without a Sync, then named by
\* CURRENT.
NewDB ==
  /\ db.phase = "closed" /\ disk.cur = 0
  /\ disk' = [disk EXCEPT !.man = With(@, 1, NewFile(<<NewDBEdit>>)), !.cur = 1]
  /\ UNCHANGED <<vs, db, mems, wr, bg, rd, snaps, cr, hist, synced, left>>

\* The tables RecoverLogFile writes for one log: a memtable is written out
\* when it outgrows the buffer and what is left of it at the end.  `mark' is
\* the log's number on its last item, for MarkFileNumberUsed.
ReplayItems(n, f) ==
  LET run[i \in 0 .. Len(f.recs)] ==
        IF i = 0 THEN [outs |-> <<>>, mem |-> {}]
        ELSE LET st == run[i - 1]
                 es == st.mem \cup IF i \in f.bad THEN {} ELSE f.recs[i]
             IN IF Cardinality(es) > WriteBuffer
                THEN [outs |-> Append(st.outs, [es |-> es, mark |-> 0]), mem |-> {}]
                ELSE [outs |-> st.outs, mem |-> es]
      end == run[Len(f.recs)]
  IN Append(end.outs, [es |-> end.mem, mark |-> n])

\* Fault: the sequence numbers found in the logs are forgotten.
NoneReplayed(d, st) == 0

\* The last sequence number in the logs to replay.
MaxReplayed(d, st) ==
  Max({0} \cup {e.s : e \in UNION {UNION Readable(d.log[n]) : n \in LogsToReplay(d, st)}})

\* Recover: read the manifest, find the logs to replay.  The last sequence
\* number also covers the logs.
Recover ==
  LET st   == CurrentState(disk)
      logs == InOrder(LogsToReplay(disk, st), <)
  IN /\ db.phase = "closed" /\ disk.cur # 0 /\ RecoverOK(disk)
     /\ Spend("opens")
     /\ vs' = [ClosedVS EXCEPT !.man = st.next, !.next = st.next + 1, !.log = st.log,
                               !.last = Max({st.last, MaxReplayed(disk, st)}),
                               !.ver = st.ver, !.ptr = st.ptr]
     /\ db' = [ClosedDB EXCEPT !.phase = "recovering",
                 !.todo = FlattenSeq([i \in DOMAIN logs |-> ReplayItems(logs[i], disk.log[logs[i]])])]
     /\ UNCHANGED <<disk, mems, wr, bg, rd, snaps, cr, hist, synced>>

MarkFileNumberUsed(next, n) == IF next <= n THEN n + 1 ELSE next

\* WriteLevel0Table for one replayed memtable; base is null, so on level 0.
ReplayTable ==
  LET item == Head(db.todo)
      n    == vs.next
  IN /\ db.phase = "recovering" /\ db.todo # <<>>
     /\ IF item.es = {}
        THEN /\ vs' = [vs EXCEPT !.next = MarkFileNumberUsed(@, item.mark)]
             /\ db' = [db EXCEPT !.todo = Tail(@)]
             /\ UNCHANGED disk
        ELSE /\ vs' = [vs EXCEPT !.next = MarkFileNumberUsed(@ + 1, item.mark)]
             /\ db' = [db EXCEPT !.todo = Tail(@), !.add = @ \cup {<<0, FileMeta(n, item.es)>>}]
             /\ disk' = [disk EXCEPT !.tab = With(@, n, Synced(NewFile(<<item.es>>)))]
     /\ UNCHANGED <<mems, wr, bg, rd, snaps, cr, hist, synced, left>>

\* DB::Open creates a log and a memtable; LogAndApply, with no descriptor open
\* yet, writes a new manifest: a snapshot of the recovered version, the edit.
StartManifest ==
  LET n == vs.next
      v == [vs EXCEPT !.next = n + 1]
      e == Filled(v, n, {}, {}, db.add)
  IN /\ db.phase = "recovering" /\ db.todo = <<>>
     /\ vs' = v
     /\ disk' = [disk EXCEPT !.log = With(@, n, NewFile(<<>>)),
                             !.man = With(@, vs.man, NewFile(<<SnapshotEdit(vs.ver, vs.ptr), e>>))]
     /\ db' = [db EXCEPT !.phase = "manifest", !.mem = n]
     /\ mems' = With(<<>>, n, {})
     /\ bg' = [bg EXCEPT !.edit = e]
     /\ UNCHANGED <<wr, rd, snaps, cr, hist, synced, left>>

\* The new manifest is synced and CURRENT renamed to it; the version is
\* installed, old files go and compactions may start.
FinishOpen ==
  LET v == Installed(vs, bg.edit)
      d == [disk EXCEPT !.man[vs.man] = Synced(@), !.cur = vs.man]
  IN /\ db.phase = "manifest"
     /\ vs' = v
     /\ disk' = DeleteObsolete(d, v, FALSE, LiveFiles({}, {v.ver}))
     /\ db' = MaybeSchedule([db EXCEPT !.phase = "open", !.add = {}], v)
     /\ bg' = IdleBG
     /\ UNCHANGED <<mems, wr, rd, snaps, cr, hist, synced, left>>

\* An I/O error while opening: the half-written manifest is deleted and Open
\* gives the error back.
OpenError ==
  /\ db.phase \in {"recovering", "manifest"}
  /\ Spend("inputs")
  /\ disk' = [disk EXCEPT !.man = Restrict(@, DOMAIN @ \ {vs.man})]
  /\ vs' = ClosedVS /\ db' = ClosedDB /\ mems' = <<>> /\ bg' = IdleBG
  /\ UNCHANGED <<wr, rd, snaps, cr, hist, synced>>

-----------------------------------------------------------------------------
(* DBImpl::Write, MakeRoomForWrite and BuildBatchGroup.                      *)

IsOpen == db.phase = "open" /\ ~db.shut

Enqueue(t, batch, sync) ==
  /\ db' = [db EXCEPT !.queue = Append(@, t)]
  /\ wr' = [wr EXCEPT ![t] = [IdleWriter EXCEPT !.pc = "queued", !.batch = batch, !.sync = sync]]

\* A client calls Write.
Write(t, call) ==
  /\ IsOpen /\ wr[t].pc = "idle" /\ Spend("inputs")
  /\ Enqueue(t, call.batch, call.sync)
  /\ UNCHANGED <<disk, vs, mems, bg, rd, snaps, cr, hist, synced>>

\* The thread at the head of the queue, running MakeRoomForWrite.
AtHead(t) == /\ db.phase = "open" /\ db.queue # <<>> /\ Head(db.queue) = t
             /\ wr[t].pc \in {"queued", "delayed"} /\ t \notin db.waiting

IsForced(t) == wr[t].batch = <<>>

MustDelay(t) == wr[t].pc = "queued" /\ ~IsForced(t) /\ Cardinality(vs.ver[0]) >= SlowdownTrigger

HasRoom(t) == ~IsForced(t) /\ Cardinality(mems[db.mem]) <= WriteBuffer

\* Everyone in the group, the front of the queue, leaves it with the leader's
\* status.
Leave(d, w, group) ==
  /\ db' = [d EXCEPT !.queue = SubSeq(@, Len(group) + 1, Len(@))]
  /\ wr' = [t \in Threads |-> IF t \in Range(group) THEN IdleWriter ELSE w[t]]

\* After a background error every write fails, alone.
WriteFails(t) ==
  /\ AtHead(t) /\ db.err
  /\ Leave(db, wr, <<t>>)
  /\ UNCHANGED <<disk, vs, mems, bg, rd, snaps, cr, hist, synced, left>>

\* Too many level-0 files: the write sleeps a millisecond, once.
WriteDelayed(t) ==
  /\ AtHead(t) /\ ~db.err /\ MustDelay(t)
  /\ wr' = [wr EXCEPT ![t].pc = "delayed"]
  /\ UNCHANGED <<disk, vs, db, mems, bg, rd, snaps, cr, hist, synced, left>>

\* No room yet: wait for the background thread.
WriteWaits(t) ==
  /\ AtHead(t) /\ ~db.err /\ ~MustDelay(t) /\ ~HasRoom(t)
  /\ db.imm # 0 \/ Cardinality(vs.ver[0]) >= StopTrigger
  /\ db' = [db EXCEPT !.waiting = @ \cup {t}]
  /\ UNCHANGED <<disk, vs, mems, wr, bg, rd, snaps, cr, hist, synced, left>>

\* The full memtable becomes the immutable one, with a new log for the next.
\* A forced switch is all a null batch asks for.  If the log cannot be created
\* its number is given back and the write fails.
SwitchMemTable(t) ==
  LET n == vs.next
      d == [db EXCEPT !.imm = db.mem, !.mem = n]
      v == [vs EXCEPT !.next = n + 1]
  IN /\ AtHead(t) /\ ~db.err /\ ~MustDelay(t) /\ ~HasRoom(t)
     /\ db.imm = 0 /\ Cardinality(vs.ver[0]) < StopTrigger
     /\ \/ /\ vs' = v
           /\ disk' = [disk EXCEPT !.log = With(@, n, NewFile(<<>>))]
           /\ mems' = With(mems, n, {})
           /\ IF IsForced(t) THEN Leave(MaybeSchedule(d, v), wr, <<t>>)
              ELSE db' = MaybeSchedule(d, v) /\ UNCHANGED wr
           /\ UNCHANGED left
        \/ /\ Spend("inputs")
           /\ Leave(db, wr, <<t>>)
           /\ UNCHANGED <<vs, disk, mems>>
     /\ UNCHANGED <<bg, rd, snaps, cr, hist, synced>>

\* The writers the head t takes along: the longest run after it without a sync
\* write behind a non-sync one and within the size limit.
BatchGroup(t) ==
  LET q       == db.queue
      size(i) == FoldFunctionOnSet(+, 0, [j \in DOMAIN q |-> Len(wr[q[j]].batch)], 1 .. i)
      stops   == {i \in 2 .. Len(q) :
                    \/ wr[q[i]].sync /\ ~wr[t].sync
                    \/ wr[q[i]].batch # <<>> /\ size(i) > GroupLimit}
      last    == IF stops = {} THEN Len(q) ELSE Min(stops) - 1
  IN SubSeq(q, 1, last)

\* The operations of a group in queue order, numbered from the last sequence.
Numbered(group, last) ==
  LET ops == FlattenSeq([i \in DOMAIN group |-> wr[group[i]].batch])
  IN {[k |-> ops[i].k, s |-> last + i, d |-> ops[i].d] : i \in DOMAIN ops}

LastOf(es) == Max({e.s : e \in es})

\* The group becomes one record of the log.  When the append fails the whole
\* group fails, and the log is torn; its sequence numbers are used up all the
\* same, and no error is recorded: the next group goes to the same log.
WriteLog(t) ==
  LET group == BatchGroup(t)
      es    == Numbered(group, vs.last)
  IN /\ AtHead(t) /\ ~db.err /\ ~MustDelay(t) /\ HasRoom(t)
     /\ \/ /\ \E f \in Appends(disk.log[db.mem], es) : disk' = [disk EXCEPT !.log[db.mem] = f]
           /\ wr' = [wr EXCEPT ![t].pc = "logged", ![t].ents = es, ![t].group = group]
           /\ UNCHANGED <<vs, db, left>>
        \/ /\ Spend("inputs")
           /\ vs' = [vs EXCEPT !.last = LastOf(es)]
           /\ disk' = [disk EXCEPT !.log[db.mem].torn = TRUE]
           /\ Leave(db, wr, group)
     /\ UNCHANGED <<mems, bg, rd, snaps, cr, hist, synced>>

\* The log is synced if the leader asked for it and the entries go into the
\* memtable.  When the Sync fails the entries stay out and no later write is
\* accepted: nobody knows whether the record will be there after a restart.
WriteMem(t) ==
  /\ wr[t].pc = "logged"
  /\ \/ /\ disk' = IF wr[t].sync THEN [disk EXCEPT !.log[db.mem] = Synced(@)] ELSE disk
        /\ mems' = [mems EXCEPT ![db.mem] = @ \cup wr[t].ents]
        /\ hist' = hist \cup {wr[t].ents}
        /\ wr' = [wr EXCEPT ![t].pc = "inserted"]
        /\ UNCHANGED <<vs, db, left>>
     \/ /\ wr[t].sync /\ Spend("inputs")
        /\ vs' = [vs EXCEPT !.last = LastOf(wr[t].ents)]
        /\ Leave(RecordBackgroundError(db), wr, wr[t].group)
        /\ UNCHANGED <<disk, mems, hist>>
  /\ UNCHANGED <<bg, rd, snaps, cr, synced>>

\* Back under the mutex: the group becomes visible and its writers return.  If
\* the leader asked for sync the group is durable, unless the log is torn.
WriteDone(t) ==
  /\ wr[t].pc = "inserted"
  /\ vs' = [vs EXCEPT !.last = LastOf(wr[t].ents)]
  /\ synced' = IF wr[t].sync /\ ~disk.log[db.mem].torn THEN synced \cup {wr[t].ents} ELSE synced
  /\ Leave(db, wr, wr[t].group)
  /\ UNCHANGED <<disk, mems, bg, rd, snaps, cr, hist, left>>

-----------------------------------------------------------------------------
(* Reads and snapshots.                                                      *)

\* Get and NewIterator pin the memtables and the current version, at the last
\* sequence number or at a snapshot.
BeginRead(r) ==
  /\ IsOpen /\ rd[r] = {} /\ Spend("inputs")
  /\ \E s \in snaps \cup {vs.last} :
       rd' = [rd EXCEPT ![r] = {[snap |-> s, mem |-> db.mem, imm |-> db.imm, ver |-> vs.ver]}]
  /\ UNCHANGED <<disk, vs, db, mems, wr, bg, snaps, cr, hist, synced>>

MemLookup(id, u, s) == IF id = 0 THEN {} ELSE Lookup(mems[id], u, s)

\* What a read through the pinned state p answers for key u.
ReadThrough(p, u) ==
  LET inMem == MemLookup(p.mem, u, p.snap)
      inImm == MemLookup(p.imm, u, p.snap)
  IN IF inMem # {} THEN inMem
     ELSE IF inImm # {} THEN inImm
     ELSE VersionGet(p.ver, Tables(disk, p.ver), u, p.snap)

\* The read of some key ends.  If it went to more than one file the first one
\* is charged, and a file charged too often (any time, here) is compacted next.
\* The charge goes to the pinned version, which may no longer be the current.
EndRead(r) ==
  \E p \in rd[r], u \in Keys :
    LET inMems == MemLookup(p.mem, u, p.snap) # {} \/ MemLookup(p.imm, u, p.snap) # {}
        charge == IF inMems \/ p.ver # vs.ver THEN {}
                  ELSE SeekCharge(p.ver, Tables(disk, p.ver), u, p.snap)
        released == [rd EXCEPT ![r] = {}]
    IN /\ rd' = released
       /\ mems' = Referenced(mems, db, released)
       /\ \/ UNCHANGED <<vs, db>>
          \/ /\ charge # {} /\ vs.seek = {}
             /\ vs' = [vs EXCEPT !.seek = charge]
             /\ db' = MaybeSchedule(db, [vs EXCEPT !.seek = charge])
       /\ UNCHANGED <<disk, wr, bg, snaps, cr, hist, synced, left>>

GetSnapshot ==
  /\ IsOpen /\ Spend("inputs")
  /\ snaps' = snaps \cup {vs.last}
  /\ UNCHANGED <<disk, vs, db, mems, wr, bg, rd, cr, hist, synced>>

ReleaseSnapshot ==
  /\ IsOpen
  /\ \E s \in snaps : snaps' = snaps \ {s}
  /\ UNCHANGED <<disk, vs, db, mems, wr, bg, rd, cr, hist, synced, left>>

-----------------------------------------------------------------------------
(* The background thread: BackgroundCall and BackgroundCompaction.           *)

\* Fault: nobody is woken at the end of a background call.
EndCallSilent(d, v) == MaybeSchedule([d EXCEPT !.sched = FALSE], v)

\* The end of BackgroundCall: reschedule if there is more to do, wake everyone.
EndCall(d, v) == SignalAll(MaybeSchedule([d EXCEPT !.sched = FALSE], v))

CallBegins == db.phase = "open" /\ db.sched /\ bg.pc = "idle"

\* Nothing to do: shutting down, or after an error.
CallRefused ==
  /\ CallBegins /\ (db.shut \/ db.err)
  /\ db' = EndCall(db, vs)
  /\ UNCHANGED <<disk, vs, mems, wr, bg, rd, snaps, cr, hist, synced, left>>

\* CompactMemTable takes a file number for the immutable memtable.  It runs by
\* itself or, when a memtable fills up meanwhile, inside a compaction's loop.
StartFlush ==
  /\ db.imm # 0 /\ ~db.shut
  /\ \/ CallBegins /\ ~db.err
     \/ bg.pc = "merge" /\ \E c \in bg.comp : c.todo # <<>> \/ c.outs = {}
  /\ vs' = [vs EXCEPT !.next = @ + 1]
  /\ db' = [db EXCEPT !.pending = @ \cup {vs.next}]
  /\ bg' = [bg EXCEPT !.pc = "build", !.num = vs.next]
  /\ UNCHANGED <<disk, mems, wr, rd, snaps, cr, hist, synced, left>>

\* Give up a job: the error is recorded, a nested flush goes back to the
\* compaction around it, which ends with the same fate later.
GiveUp(d, v) ==
  IF bg.comp # {} /\ bg.job # "compact"
  THEN db' = RecordBackgroundError(d) /\ bg' = [bg EXCEPT !.pc = "merge", !.job = "none"]
  ELSE db' = EndCall(RecordBackgroundError(d), v) /\ bg' = IdleBG

\* BuildTable writes and syncs the table (an empty memtable leaves none); the
\* level is picked against the current version and LogAndApply writes the edit
\* that also retires the memtable's log.
FlushBuilt ==
  LET es   == mems[db.imm]
      d    == [db EXCEPT !.pending = @ \ {bg.num}]
      f    == FileMeta(bg.num, es)
      l    == PickLevelForMemTableOutput(vs.ver, f.small.u, f.large.u)
      add  == IF es = {} THEN {} ELSE {<<l, f>>}
      edit == Filled(vs, db.mem, {}, {}, add)
      tab  == IF es = {} THEN disk.tab ELSE With(disk.tab, bg.num, Synced(NewFile(<<es>>)))
  IN /\ bg.pc = "build"
     /\ \/ /\ ~db.shut
           /\ \E m \in Appends(disk.man[vs.man], edit) :
                disk' = [disk EXCEPT !.tab = tab, !.man[vs.man] = m]
           /\ bg' = [bg EXCEPT !.pc = "install", !.job = "flush", !.edit = edit]
           /\ db' = d
           /\ UNCHANGED left
        \/ /\ db.shut
           /\ disk' = [disk EXCEPT !.tab = tab]
           /\ GiveUp(d, vs)
           /\ UNCHANGED left
        \/ /\ Spend("inputs")
           /\ GiveUp(d, vs)
           /\ UNCHANGED disk
     /\ UNCHANGED <<vs, mems, wr, rd, snaps, cr, hist, synced>>

\* The compaction BackgroundCompaction picks: the manual one first.
Picked ==
  IF db.manual THEN CompactRange(vs.ver, cr.level, cr.begin, cr.end)
  ELSE PickCompaction(vs.ver, vs.ptr, vs.seek)

\* What a manual compaction is left with after a part of its range is done.
ManualPart(w, ok) ==
  IF ~w.manual THEN cr
  ELSE LET lastFile == CHOOSE f \in w.c.in0 : \A g \in w.c.in0 : ~BySmallestKey(f, g)
       IN IF ok THEN [cr EXCEPT !.begin = lastFile.large.u] ELSE [cr EXCEPT !.done = TRUE]

\* PickCompaction and CompactRange return null.
NothingPicked ==
  IF db.manual THEN GetOverlappingInputs(vs.ver, cr.level, cr.begin, cr.end) = {}
  ELSE ~NeedsCompaction(vs)

\* No compaction to do: a manual one is done.
NothingToCompact ==
  /\ CallBegins /\ ~db.shut /\ ~db.err /\ db.imm = 0 /\ NothingPicked
  /\ db' = EndCall([db EXCEPT !.manual = FALSE], vs)
  /\ cr' = IF db.manual THEN [cr EXCEPT !.done = TRUE] ELSE cr
  /\ UNCHANGED <<disk, vs, mems, wr, bg, rd, snaps, hist, synced, left>>

OldestSnapshot == IF snaps = {} THEN vs.last ELSE Min(snaps)

\* A compaction starts: a file that meets nothing is moved down by an edit of
\* its own, anything else is merged.  DoCompactionWork reads the oldest
\* snapshot here and lets go of the mutex; what it will write is settled.
StartCompaction ==
  /\ CallBegins /\ ~db.shut /\ ~db.err /\ db.imm = 0
  /\ \E c \in Picked :
       LET ptrs  == {<<c.level, c.large>>}
           f     == CHOOSE x \in c.in0 : TRUE
           move  == Filled(vs, vs.log, ptrs, {<<c.level, f.num>>}, {<<c.level + 1, f>>})
           es    == UNION {TableEntries(disk, x.num) : x \in c.in0 \cup c.in1}
           work  == [c |-> c, manual |-> db.manual, outs |-> {},
                     todo |-> MergedOutputs(c, es, OldestSnapshot)]
       IN /\ vs' = [vs EXCEPT !.ptr[c.level] = c.large]
          /\ IF ~db.manual /\ IsTrivialMove(c)
             THEN /\ bg' = [bg EXCEPT !.pc = "install", !.job = "move", !.edit = move]
                  /\ \E m \in Appends(disk.man[vs.man], move) : disk' = [disk EXCEPT !.man[vs.man] = m]
             ELSE /\ bg' = [bg EXCEPT !.pc = "merge", !.comp = {work}]
                  /\ UNCHANGED disk
  /\ UNCHANGED <<db, mems, wr, rd, snaps, cr, hist, synced, left>>

\* Open, fill, sync and close the next output file.
WriteOutput ==
  /\ bg.pc = "merge" /\ ~db.shut
  /\ \E w \in bg.comp :
       LET n == vs.next
       IN /\ w.todo # <<>>
          /\ vs' = [vs EXCEPT !.next = n + 1]
          /\ db' = [db EXCEPT !.pending = @ \cup {n}]
          /\ disk' = [disk EXCEPT !.tab = With(@, n, Synced(NewFile(<<Head(w.todo)>>)))]
          /\ bg' = [bg EXCEPT !.comp =
                      {[w EXCEPT !.todo = Tail(@), !.outs = @ \cup {FileMeta(n, Head(w.todo))}]}]
  /\ UNCHANGED <<mems, wr, rd, snaps, cr, hist, synced, left>>

\* The manual compaction this job belongs to was cancelled meanwhile, after an
\* error elsewhere: manual_compaction_ is null.
ManualGone ==
  \E w \in bg.comp : w.manual /\ ~db.manual /\ (bg.pc = "merge" \/ bg.job = "compact")

\* CleanupCompaction after a failure: the outputs are no longer pending.
Cleaned(w) == [db EXCEPT !.pending = @ \ {f.num : f \in w.outs}, !.manual = FALSE]

\* InstallCompactionResults: the edit deletes the inputs and adds the outputs
\* one level down; LogAndApply writes it.
ApplyCompaction ==
  /\ bg.pc = "merge" /\ ~db.shut
  /\ \E w \in bg.comp :
       LET c    == w.c
           del  == {<<c.level, f.num>> : f \in c.in0} \cup {<<c.level + 1, f.num>> : f \in c.in1}
           add  == {<<c.level + 1, f>> : f \in w.outs}
           edit == Filled(vs, vs.log, {<<c.level, c.large>>}, del, add)
       IN /\ w.todo = <<>>
          /\ \E m \in Appends(disk.man[vs.man], edit) : disk' = [disk EXCEPT !.man[vs.man] = m]
          /\ bg' = [bg EXCEPT !.pc = "install", !.job = "compact", !.edit = edit]
  /\ UNCHANGED <<vs, db, mems, wr, rd, snaps, cr, hist, synced, left>>

\* An I/O error in the loop, or a shutdown: the outputs are abandoned.
AbortCompaction ==
  /\ bg.pc = "merge" /\ ~ManualGone
  /\ \E w \in bg.comp :
       /\ \/ db.shut /\ UNCHANGED left
          \/ ~db.shut /\ Spend("inputs")
       /\ db' = EndCall(RecordBackgroundError(Cleaned(w)), vs)
       /\ cr' = ManualPart(w, FALSE)
       /\ bg' = IdleBG
  /\ UNCHANGED <<disk, vs, mems, wr, rd, snaps, hist, synced>>

\* The manifest is synced and the new version installed, under the mutex
\* again.  A flush also drops the immutable memtable; a compaction lets go of
\* its inputs; both delete what nobody needs any more.
Install ==
  LET v == Installed(vs, bg.edit)
      d == [disk EXCEPT !.man[vs.man] = Synced(@)]
      nested == bg.job = "flush" /\ bg.comp # {}
      inUse == {v.ver} \cup PinnedVersions \cup (IF nested THEN {w.c.ver : w \in bg.comp} ELSE {})
      flushed == [db EXCEPT !.imm = 0]
      cleaned == [db EXCEPT !.pending = @ \ {f.num : f \in UNION {w.outs : w \in bg.comp}},
                            !.manual = FALSE]
      now == IF bg.job = "flush" THEN flushed ELSE IF bg.job = "compact" THEN cleaned ELSE db
  IN /\ bg.pc = "install" /\ ~ManualGone
     /\ vs' = v
     /\ disk' = IF bg.job = "move" THEN d
                ELSE DeleteObsolete(d, v, db.err, LiveFiles(now.pending, inUse))
     /\ mems' = Referenced(mems, now, rd)
     /\ IF nested
        THEN db' = SignalAll(now) /\ bg' = [bg EXCEPT !.pc = "merge", !.job = "none"]
        ELSE db' = EndCall(now, v) /\ bg' = IdleBG
     /\ cr' = IF bg.job = "compact" THEN ManualPart(CHOOSE w \in bg.comp : TRUE, TRUE) ELSE cr
     /\ UNCHANGED <<wr, rd, snaps, hist, synced, left>>

\* Writing or syncing the manifest failed: the record is there, or the manifest
\* is torn; nothing is deleted from now on.  A compaction around a flush that
\* failed goes on and appends its own edit to the same manifest.
InstallFails ==
  /\ bg.pc = "install" /\ ~ManualGone /\ Spend("inputs")
  /\ disk' \in {disk, [disk EXCEPT !.man[vs.man] = Torn(@)]}
  /\ IF bg.job = "compact"
     THEN \E w \in bg.comp : GiveUp(Cleaned(w), vs) /\ cr' = ManualPart(w, FALSE)
     ELSE GiveUp(db, vs) /\ UNCHANGED cr
  /\ UNCHANGED <<vs, mems, wr, rd, snaps, hist, synced>>

-----------------------------------------------------------------------------
(* DBImpl::CompactRange and TEST_CompactRange.                               *)

MaxLevelWithFiles(lo, hi) ==
  Max({1} \cup {l \in 1 .. NumLevels - 1 : OverlapInLevel(vs.ver, l, lo, hi)})

\* The range is looked up, then a null batch waits for the writes before it
\* and forces the memtable out.
BeginCompactRange ==
  /\ IsOpen /\ cr.pc = "idle" /\ wr[Compactor].pc = "idle" /\ Spend("inputs")
  /\ \E r \in Ranges :
       cr' = [IdleCompact EXCEPT !.pc = "memtable", !.max = MaxLevelWithFiles(r[1], r[2]),
                                 !.lo = r[1], !.begin = r[1], !.end = r[2]]
  /\ Enqueue(Compactor, <<>>, FALSE)
  /\ UNCHANGED <<disk, vs, mems, bg, rd, snaps, hist, synced>>

Awake == db.phase = "open" /\ Compactor \notin db.waiting

\* TEST_CompactMemTable waits until the immutable memtable is gone.
MemTableCompacted ==
  /\ Awake /\ cr.pc = "memtable" /\ wr[Compactor].pc = "idle"
  /\ IF db.imm # 0 /\ ~db.err
     THEN db' = [db EXCEPT !.waiting = @ \cup {Compactor}] /\ UNCHANGED cr
     ELSE cr' = [cr EXCEPT !.pc = "levels"] /\ UNCHANGED db
  /\ UNCHANGED <<disk, vs, mems, wr, bg, rd, snaps, hist, synced, left>>

\* TEST_CompactRange hands its level to the background thread as often as it
\* takes, then goes on to the next level; an error or a shutdown ends it.
CompactLevel ==
  /\ Awake /\ cr.pc = "levels"
  /\ IF ~cr.done /\ ~db.shut /\ ~db.err
     THEN /\ db' = IF db.manual THEN [db EXCEPT !.waiting = @ \cup {Compactor}]
                   ELSE MaybeSchedule([db EXCEPT !.manual = TRUE], vs)
          /\ UNCHANGED cr
     ELSE /\ db' = [db EXCEPT !.manual = FALSE]
          /\ cr' = IF cr.level + 1 < cr.max THEN [cr EXCEPT !.level = @ + 1, !.begin = cr.lo, !.done = FALSE]
                   ELSE IdleCompact
  /\ UNCHANGED <<disk, vs, mems, wr, bg, rd, snaps, hist, synced, left>>

-----------------------------------------------------------------------------
(* Closing and crashing.                                                     *)

\* What stays when the process is gone and d is on disk.  The groups a recovery
\* should replay and does not find are lost; one that was in the log and not
\* yet, or never, acknowledged is there after all.
Stopped(d) ==
  /\ disk' = d
  /\ hist' = (hist \ Logged([d EXCEPT !.log = disk.log])) \cup Replayed(d)
  /\ vs' = ClosedVS /\ db' = ClosedDB /\ mems' = <<>>
  /\ wr' = [t \in Threads |-> IdleWriter]
  /\ bg' = IdleBG /\ cr' = IdleCompact /\ snaps' = {}
  /\ rd' = [r \in Readers |-> {}]

\* The client deletes the DB, with no call of its own under way.
BeginClose ==
  /\ IsOpen /\ db.queue = <<>> /\ cr.pc = "idle" /\ snaps = {}
  /\ \A r \in Readers : rd[r] = {}
  /\ Spend("inputs")
  /\ db' = [db EXCEPT !.shut = TRUE]
  /\ UNCHANGED <<disk, vs, mems, wr, bg, rd, snaps, cr, hist, synced>>

WaitToClose ==
  /\ db.shut /\ db.sched /\ Closer \notin db.waiting
  /\ db' = [db EXCEPT !.waiting = @ \cup {Closer}]
  /\ UNCHANGED <<disk, vs, mems, wr, bg, rd, snaps, cr, hist, synced, left>>

FinishClose ==
  /\ db.shut /\ ~db.sched /\ Closer \notin db.waiting
  /\ Stopped(disk)
  /\ UNCHANGED <<synced, left>>

\* BackgroundCompaction follows the null manual_compaction_ and the process
\* dies, after the compaction was written to the manifest or given up.
CancelledManualCrashes ==
  /\ ManualGone /\ bg.pc \in {"merge", "install"}
  /\ Stopped(disk)
  /\ UNCHANGED <<synced, left>>

\* Every way a set of files may come out of a crash; one that is all durable
\* stays as it is.
SurvivingFiles(fs) ==
  LET open == {n \in DOMAIN fs : fs[n].sync < Len(fs[n].recs)}
      cuts == {c \in [open -> UNION {CutPoints(fs[n]) : n \in open}] :
                 \A n \in open : c[n] \in CutPoints(fs[n])}
  IN {[n \in DOMAIN fs |-> IF n \in open THEN CutAt(fs[n], c[n]) ELSE fs[n]] : c \in cuts}

\* The process dies or the machine loses power, at any point.
Crash ==
  /\ Spend("inputs")
  /\ \E lg \in SurvivingFiles(disk.log), mn \in SurvivingFiles(disk.man),
        tb \in SurvivingFiles(disk.tab) :
       Stopped([log |-> lg, man |-> mn, tab |-> tb, cur |-> disk.cur])
  /\ UNCHANGED synced

-----------------------------------------------------------------------------
(* The specification.                                                        *)

Opening == NewDB \/ Recover \/ ReplayTable \/ StartManifest \/ FinishOpen

Writing(t) ==
  WriteFails(t) \/ WriteDelayed(t) \/ WriteWaits(t) \/ SwitchMemTable(t)
    \/ WriteLog(t) \/ WriteMem(t) \/ WriteDone(t)

Background ==
  \/ CallRefused \/ StartFlush \/ FlushBuilt \/ NothingToCompact \/ StartCompaction
  \/ WriteOutput \/ ApplyCompaction \/ AbortCompaction \/ Install \/ CancelledManualCrashes

Compacting == MemTableCompacted \/ CompactLevel

Closing == WaitToClose \/ FinishClose

Next ==
  \/ Opening \/ OpenError
  \/ \E t \in Writers, call \in Calls : Write(t, call)
  \/ \E t \in Threads : Writing(t)
  \/ \E r \in Readers : BeginRead(r) \/ EndRead(r)
  \/ GetSnapshot \/ ReleaseSnapshot
  \/ Background \/ InstallFails
  \/ BeginCompactRange \/ Compacting
  \/ BeginClose \/ Closing \/ Crash

Spec == Init /\ [][Next]_vars

-----------------------------------------------------------------------------
(* Properties.                                                               *)

EntryType == [k : Keys, s : Nat, d : BOOLEAN]

\* Types, and no pointer of the database or of a reader to a memtable that was
\* freed.
TypeOK ==
  /\ db.phase \in {"closed", "recovering", "manifest", "open"}
  /\ Range(db.queue) \subseteq Threads /\ db.waiting \subseteq Threads \cup {Closer}
  /\ \A t \in Threads : wr[t].pc \in {"idle", "queued", "delayed", "logged", "inserted"}
  /\ bg.pc \in {"idle", "build", "merge", "install"}
  /\ db.phase = "open" => {db.mem} \cup ({db.imm} \ {0}) \subseteq DOMAIN mems
  /\ \A p \in UNION Range(rd) : {p.mem} \cup ({p.imm} \ {0}) \subseteq DOMAIN mems
  /\ UNION hist \subseteq EntryType /\ UNION synced \subseteq EntryType

\* The database as its clients see it: a group of writes is there from the
\* moment vs.last covers it.
Visible ==
  IF db.phase = "open" THEN {g \in hist : \A e \in g : e.s <= vs.last} ELSE hist

Store == INSTANCE KVStore WITH up <- db.phase = "open", log <- Visible, kept <- synced

\* Every step of the implementation is a step of the abstract store or none: a
\* group takes effect at once and in order, nothing but a crash takes one away
\* and no crash, in whatever state of flush, compaction or recovery, takes away
\* one that was acknowledged to a writer that asked for sync, if no append to
\* its log had failed before.  (DBImpl::Write, LogAndApply, Recover,
\* DeleteObsoleteFiles.)
StoreSpec == Store!Spec

\* The answer a client gets: nothing for a deletion.
Answer(found) == {e \in found : ~e.d}

View(s) == [snap |-> s, mem |-> db.mem, imm |-> db.imm, ver |-> vs.ver]

\* Files on a level other than 0 do not overlap.
Disjoint(v) ==
  \A l \in Levels \ {0} : \A f, g \in v[l] :
    f # g => Less(f.large, g.small) \/ Less(g.large, f.small)

\* Whatever flushes, compactions, file deletions, crashes and recoveries went
\* on, a key whose newest entry is a put is found, with that entry: through
\* everything a reader has pinned, at a live snapshot, and now, as long as the
\* levels are disjoint.  (They always are in the run's instance; LevelsDisjoint
\* says when not.)  (DBImpl::Get, Version::Get, the drop rules of
\* DoCompactionWork, RecoverLogFile, DeleteObsoleteFiles.)
PutsAreFound ==
  db.phase = "open" =>
    \A p \in UNION Range(rd) \cup {View(s) : s \in snaps \cup {vs.last}} :
      Disjoint(p.ver) =>
        \A u \in Keys : LET put == Store!Get(u, p.snap)
                        IN put # {} => Answer(ReadThrough(p, u)) = put

Answers(p) == [u \in Keys |-> Answer(ReadThrough(p, u))]

\* The compaction leaves out no file of its output level that continues, under
\* the same user key, after one of its inputs.
InputsAreWhole(c) ==
  \A f \in c.in1, g \in c.ver[c.level + 1] \ c.in1 : ~(f.large.u = g.small.u /\ Less(f.large, g.small))

\* A read is repeatable: what a reader has pinned answers the same after every
\* step, whatever is written, merged or deleted meanwhile.  And installing a
\* version changes no answer, of a put or of a deletion, at a live snapshot or
\* now, as long as the levels are disjoint and the compaction's inputs whole.
\* (DoCompactionWork's drop rules and smallest_snapshot, PickLevelForMemTable-
\* Output, Version::Ref, DeleteObsoleteFiles.)
AnswersStay ==
  [][db.phase = "open" /\ db'.phase = "open" =>
       /\ \A p \in UNION Range(rd) \cap UNION Range(rd') : Answers(p)' = Answers(p)
       /\ /\ vs'.ver # vs.ver /\ Disjoint(vs.ver) /\ Disjoint(vs'.ver)
          /\ bg.job = "compact" => \A w \in bg.comp : InputsAreWhole(w.c)
          => \A s \in snaps \cup {vs.last} : Answers(View(s))' = Answers(View(s))]_vars

\* The bounds of a file enclose its table, and its largest key is there.
Described(f, es) ==
  /\ \A e \in es : LessEq(f.small, KeyOf(e)) /\ LessEq(KeyOf(e), f.large)
  /\ \E e \in es : KeyOf(e) = f.large

\* The files of a version with their levels, and all of their entries.
Placed(v) == UNION {{<<l, f>> : f \in v[l]} : l \in Levels}

InVersion(v, tab) == UNION {tab[x[2].num] : x \in Placed(v)}

KeysDistinct(es) == \A e, f \in es : e.k = f.k /\ e.s = f.s => e = f

\* Of two files of different levels or of level 0, Version::Get reads x first.
Above(x, y) == x[1] < y[1] \/ (x[1] = 0 /\ y[1] = 0 /\ x[2].num > y[2].num)

\* What Version::Get relies on: of one user key, the newer entries are above.
WellPlaced(v, tab) ==
  /\ \A x \in Placed(v) : Described(x[2], tab[x[2].num])
  /\ \A f, g \in v[0] : f.num = g.num => f = g
  /\ KeysDistinct(InVersion(v, tab))
  /\ \A x, y \in Placed(v) : Above(x, y) =>
       \A e \in tab[x[2].num], o \in tab[y[2].num] : e.k = o.k => e.s > o.s


\* Whoever deleted a key does not find it again: a deletion that DoCompactionWork
\* drops hid nothing any more.  (Rule (3) there, AddBoundaryInputs.)
DeletedStaysDeleted ==
  db.phase = "open" /\ Disjoint(vs.ver) =>
    \A u \in Keys : Answer(ReadThrough(View(vs.last), u)) # {} => Store!Get(u, vs.last) # {}

\* Once a database has been opened, CURRENT names a manifest that sets every
\* field, and every table it lists is there, after any crash, error or deletion
\* of obsolete files.  As long as the database has no error, a later Open will
\* also find no unreadable record in it: only the compaction around a flush that
\* failed, and left the manifest torn, can write one.  (LogAndApply, Recover,
\* DoCompactionWork, DeleteObsoleteFiles.)
Reopenable ==
  db.phase = "open" \/ hist # {} =>
    ManifestOK(disk) /\ (db.phase = "open" /\ ~db.err => RecoverOK(disk))

\* The assertion of Builder::SaveTo and MaybeAddFile, also when a memtable was
\* flushed below level 0 while a compaction was writing into that level.
LevelsDisjoint == Disjoint(vs.ver)

\* No lost wake-up: whoever waits for background_work_finished_signal_ (a
\* writer without room, CompactRange, the destructor) waits for a background
\* call that is scheduled and will signal at its end.
WaitersAreSignalled == db.waiting # {} => db.sched

=============================================================================
