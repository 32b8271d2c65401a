------------------------------- MODULE Table -------------------------------
(* LevelDB's sorted tables: how table/table_builder.cc lays entries out in   *)
(* prefix-compressed blocks under an index of shortened keys, and how        *)
(* block.cc, two_level_iterator.cc and table.cc find them again.             *)
(*                                                                           *)
(* A user key is a sequence of bytes 0 .. MaxByte; an internal key is a user *)
(* key and one more byte, above MaxByte, for its packed sequence and type.   *)
(* An entry's value is left out: its packed sequence says which one it is.   *)
(* Offsets inside a block count entries, and the builder's writes succeed (a *)
(* build that fails leaves no table, see LevelDB).                           *)
EXTENDS Integers, FiniteSets, Sequences, SequencesExt

CONSTANTS
  MaxByte,          \* 0xff
  MaxSequence,      \* kMaxSequenceNumber
  BlockSize,        \* Options::block_size, in entries
  RestartInterval,  \* Options::block_restart_interval
  FilterBase,       \* kFilterBase, in entries
  Compressible,     \* user keys: a block that ends with one compresses
  FalsePositives    \* the user keys that every filter matches

ASSUME TableAssumption ==
  /\ MaxByte \in Nat /\ MaxSequence \in Nat
  /\ {BlockSize, RestartInterval, FilterBase} \subseteq Nat \ {0}

-----------------------------------------------------------------------------
(* Keys (db/dbformat.h, db/dbformat.cc, util/comparator.cc).                 *)

kTypeDeletion == 0
kTypeValue == 1
kValueTypeForSeek == kTypeValue

\* PackSequenceAndType.  A type above kTypeValue is one no writer writes.
InternalKey(user, seq, type) == Append(user, MaxByte + 1 + 4 * seq + type)

ExtractUserKey(k) == Front(k)
Tag(k) == Last(k) - MaxByte - 1
SequenceOf(k) == Tag(k) \div 4
TypeOf(k) == Tag(k) % 4

\* How many leading bytes a and b have in common.
CommonPrefix(a, b) ==
  CHOOSE n \in 0 .. Len(a) :
    /\ n <= Len(b) /\ \A i \in 1 .. n : a[i] = b[i]
    /\ n < Len(a) /\ n < Len(b) => a[n + 1] # b[n + 1]

\* Slice::compare(a, b) < 0.
UserLess(a, b) ==
  LET n == CommonPrefix(a, b)
  IN n < Len(b) /\ (n < Len(a) => a[n + 1] < b[n + 1])

\* InternalKeyComparator::Compare(a, b) < 0: newer entries of a key come first.
KeyLess(a, b) ==
  \/ UserLess(ExtractUserKey(a), ExtractUserKey(b))
  \/ ExtractUserKey(a) = ExtractUserKey(b) /\ Tag(a) > Tag(b)

\* Fault: the byte of the limit is the one that is incremented.
IncrementsLimit(start, limit) ==
  LET d == CommonPrefix(start, limit) + 1
  IN IF /\ d <= Len(start) /\ d <= Len(limit)
        /\ start[d] < MaxByte /\ start[d] + 1 < limit[d]
     THEN Append(SubSeq(start, 1, d - 1), limit[d] + 1)
     ELSE start

\* BytewiseComparatorImpl::FindShortestSeparator.
UserSeparator(start, limit) ==
  LET d == CommonPrefix(start, limit) + 1
  IN IF /\ d <= Len(start) /\ d <= Len(limit)
        /\ start[d] < MaxByte /\ start[d] + 1 < limit[d]
     THEN Append(SubSeq(start, 1, d - 1), start[d] + 1)
     ELSE start

\* BytewiseComparatorImpl::FindShortSuccessor.
UserSuccessor(key) ==
  IF \E i \in DOMAIN key : key[i] # MaxByte
  THEN LET i == CHOOSE i \in DOMAIN key :
                  key[i] # MaxByte /\ \A j \in 1 .. i - 1 : key[j] = MaxByte
       IN Append(SubSeq(key, 1, i - 1), key[i] + 1)
  ELSE key

\* A user key that became shorter and larger gets the earliest tag.
Shortened(k, tmp) ==
  IF Len(tmp) < Len(ExtractUserKey(k)) /\ UserLess(ExtractUserKey(k), tmp)
  THEN InternalKey(tmp, MaxSequence, kValueTypeForSeek)
  ELSE k

FindShortestSeparator(start, limit) ==
  Shortened(start, UserSeparator(ExtractUserKey(start), ExtractUserKey(limit)))

FindShortSuccessor(k) == Shortened(k, UserSuccessor(ExtractUserKey(k)))

-----------------------------------------------------------------------------
(* Building a table.                                                         *)

\* A BlockBuilder after Reset; last is last_key_.
EmptyBlock == [entries |-> <<>>, restarts |-> <<1>>, counter |-> 0, last |-> <<>>]

\* BlockBuilder::Add of a key and what its value says (a block handle, or
\* nothing of interest).
BlockAdd(b, k, value, interval) ==
  LET restart == b.counter >= interval
      shared  == IF restart THEN 0 ELSE CommonPrefix(b.last, k)
  IN [entries  |-> Append(b.entries, [shared |-> shared, value |-> value,
                                      delta |-> SubSeq(k, shared + 1, Len(k))]),
      restarts |-> IF restart THEN Append(b.restarts, Len(b.entries) + 1) ELSE b.restarts,
      counter  |-> (IF restart THEN 0 ELSE b.counter) + 1,
      last     |-> k]

\* Fault: a block makes one filter at most.
StartBlockOnce(f, offset) ==
  IF offset \div FilterBase <= Len(f.filters) THEN f
  ELSE [filters |-> Append(f.filters, f.keys), keys |-> {}]

\* FilterBlockBuilder: GenerateFilter until there is one for each FilterBase
\* before the offset; only the first of them gets the keys.
StartBlock(f, offset) ==
  LET more == offset \div FilterBase - Len(f.filters)
  IN IF more <= 0 THEN f
     ELSE [filters |-> f.filters \o [i \in 1 .. more |-> IF i = 1 THEN f.keys ELSE {}],
           keys |-> {}]

\* FilterBlockBuilder::Finish.
FilterFinish(f) == IF f.keys = {} THEN f.filters ELSE Append(f.filters, f.keys)

\* TableBuilder's Rep; pending is pending_index_entry, the handle of a block is
\* its place in blocks, and offsets is where the blocks start in the file.
NewTable ==
  [data |-> EmptyBlock, blocks |-> <<>>, index |-> EmptyBlock, pending |-> FALSE,
   last |-> <<>>, offset |-> 0, offsets |-> <<>>, filter |-> [filters |-> <<>>, keys |-> {}]]

\* WriteBlock's choice between the raw and the compressed contents, which take
\* the room of one entry.
StoredSize(b) ==
  IF ExtractUserKey(b.last) \in Compressible THEN 1 ELSE Len(b.entries)

\* TableBuilder::Flush and WriteBlock; a trailer takes the room of one entry.
Flush(r) ==
  IF r.data.entries = <<>> THEN r
  ELSE LET end == r.offset + StoredSize(r.data) + 1
       IN [r EXCEPT !.blocks = Append(@, r.data), !.offsets = Append(@, r.offset),
                    !.data = EmptyBlock, !.pending = TRUE, !.offset = end,
                    !.filter = StartBlock(@, end)]

\* The index entry of the last block, under a key that separates it.
IndexAdd(r, key) ==
  IF r.pending
  THEN [r EXCEPT !.index = BlockAdd(@, key, Len(r.blocks), 1), !.pending = FALSE]
  ELSE r

\* TableBuilder::Add.
TableAdd(r, k) ==
  LET i == IndexAdd(r, IF r.pending THEN FindShortestSeparator(r.last, k) ELSE k)
      a == [i EXCEPT !.filter.keys = @ \cup {ExtractUserKey(k)}, !.last = k,
                     !.data = BlockAdd(@, k, 0, RestartInterval)]
  IN IF Len(a.data.entries) >= BlockSize THEN Flush(a) ELSE a

\* TableBuilder::Finish.  bad and readable say what a later read meets.
TableFinish(r) ==
  LET f == Flush(r)
      i == IndexAdd(f, IF f.pending THEN FindShortSuccessor(f.last) ELSE <<>>)
  IN [index |-> i.index, blocks |-> i.blocks, offsets |-> i.offsets,
      filters |-> FilterFinish(i.filter), bad |-> {}, readable |-> TRUE]

\* A set of keys in the order in which an iterator yields them.
InOrder(keys) ==
  [i \in 1 .. Cardinality(keys) |->
     CHOOSE k \in keys : Cardinality({o \in keys : KeyLess(o, k)}) = i - 1]

\* BuildTable.
BuildTable(keys) == TableFinish(FoldLeft(TableAdd, NewTable, InOrder(keys)))

-----------------------------------------------------------------------------
(* Block::Iter.  next is NextEntryOffset(), the end of value_; at is          *)
(* current_, restart is restart_index_, and both are one past the last when  *)
(* the iterator is not valid.                                                *)

BlockEnd(b) == Len(b.entries) + 1

NoRestart(b) == Len(b.restarts) + 1

BlockIter(b) ==
  [kind |-> "block", block |-> b, at |-> BlockEnd(b), restart |-> NoRestart(b),
   key |-> <<>>, next |-> 1]

BlockInvalid(it) == [it EXCEPT !.at = BlockEnd(it.block), !.restart = NoRestart(it.block)]

SeekToRestartPoint(it, i) ==
  [it EXCEPT !.key = <<>>, !.restart = i, !.next = it.block.restarts[i]]

\* The restart point moves on while the one after it lies before the entry.
ParseNextKey(it) ==
  IF it.next >= BlockEnd(it.block) THEN BlockInvalid(it)
  ELSE LET e     == it.block.entries[it.next]
           later == {i \in it.restart + 1 .. Len(it.block.restarts) :
                       it.block.restarts[i] < it.next}
       IN [it EXCEPT !.at = it.next, !.next = it.next + 1,
                     !.key = SubSeq(@, 1, e.shared) \o e.delta,
                     !.restart = @ + Cardinality(later)]

BlockValid(it) == it.at < BlockEnd(it.block)

RECURSIVE ParseUntil(_, _)
\* ParseNextKey until the next entry is the one at offset end, or none is left.
ParseUntil(it, end) ==
  LET n == ParseNextKey(it)
  IN IF BlockValid(n) /\ n.next < end THEN ParseUntil(n, end) ELSE n

RECURSIVE ParseFrom(_, _)
\* ParseNextKey until a key that is not before target.
ParseFrom(it, target) ==
  LET n == ParseNextKey(it)
  IN IF BlockValid(n) /\ KeyLess(n.key, target) THEN ParseFrom(n, target) ELSE n

RECURSIVE RestartBefore(_, _, _, _)
\* The binary search of Seek for the last restart point with a key < target.
RestartBefore(b, target, left, right) ==
  IF left >= right THEN left
  ELSE LET mid == (left + right + 1) \div 2
       IN IF KeyLess(b.entries[b.restarts[mid]].delta, target)
          THEN RestartBefore(b, target, mid, right)
          ELSE RestartBefore(b, target, left, mid - 1)

BlockSeek(it, target) ==
  LET i == RestartBefore(it.block, target, 1, Len(it.block.restarts))
  IN ParseFrom(SeekToRestartPoint(it, i), target)

BlockFirst(it) == ParseNextKey(SeekToRestartPoint(it, 1))

BlockLast(it) ==
  ParseUntil(SeekToRestartPoint(it, Len(it.block.restarts)), BlockEnd(it.block))

BlockPrev(it) ==
  LET earlier == {i \in 1 .. it.restart : it.block.restarts[i] < it.at}
  IN IF earlier = {} THEN BlockInvalid(it)
     ELSE ParseUntil(SeekToRestartPoint(it, Cardinality(earlier)), it.at)

-----------------------------------------------------------------------------
(* LevelFileNumIterator over the files of a level, [largest, table] each.    *)

RECURSIVE FindFile(_, _, _, _)
FindFile(files, key, left, right) ==
  IF left >= right THEN right
  ELSE LET mid == (left + right) \div 2
       IN IF KeyLess(files[mid].largest, key)
          THEN FindFile(files, key, mid + 1, right)
          ELSE FindFile(files, key, left, mid)

FilesIter(files) == [kind |-> "files", files |-> files, at |-> Len(files) + 1]

FilesMove(it, op, target) ==
  LET n == Len(it.files)
  IN [it EXCEPT !.at = CASE op = "Seek" -> FindFile(it.files, target, 1, n + 1)
                         [] op = "SeekToFirst" -> 1
                         [] op = "SeekToLast" -> n
                         [] op = "Next" -> @ + 1
                         [] op = "Prev" -> IF @ = 1 THEN n + 1 ELSE @ - 1]

-----------------------------------------------------------------------------
(* Iterators of every kind; "none" is a null data_iter_, "error" the one of  *)
(* NewErrorIterator.                                                         *)

NoIter == [kind |-> "none"]
ErrorIter == [kind |-> "error"]

TwoLevelIter(index, source) ==
  [kind |-> "two", index |-> index, data |-> NoIter, handle |-> 0, ok |-> TRUE,
   source |-> source]

\* TableCache::NewIterator and Table::NewIterator.
TableIter(t) == IF t.readable THEN TwoLevelIter(BlockIter(t.index), t) ELSE ErrorIter

\* NewConcatenatingIterator.
LevelIter(files) == TwoLevelIter(FilesIter(files), [files |-> files])

BlockReader(t, handle) ==
  IF handle \in t.bad THEN ErrorIter ELSE BlockIter(t.blocks[handle])

\* block_function_: GetFileIterator or Table::BlockReader.
OpenData(it, handle) ==
  IF it.index.kind = "files" THEN TableIter(it.source.files[handle].table)
  ELSE BlockReader(it.source, handle)

RECURSIVE Valid(_)
Valid(it) ==
  CASE it.kind = "block" -> BlockValid(it)
    [] it.kind = "files" -> it.at <= Len(it.files)
    [] it.kind = "two" -> Valid(it.data)
    [] OTHER -> FALSE

RECURSIVE Key(_)
Key(it) ==
  CASE it.kind = "block" -> it.key
    [] it.kind = "files" -> it.files[it.at].largest
    [] it.kind = "two" -> Key(it.data)

\* What an index iterator points to.
Handle(it) == IF it.kind = "files" THEN it.at ELSE it.block.entries[it.at].value

RECURSIVE StatusOK(_)
StatusOK(it) ==
  CASE it.kind = "error" -> FALSE
    [] it.kind = "two" -> StatusOK(it.index) /\ StatusOK(it.data) /\ it.ok
    [] OTHER -> TRUE

\* Fault: the status of the last block replaces the first error.
SetReplacesError(it, data) == [it EXCEPT !.ok = StatusOK(it.data), !.data = data]

SetDataIterator(it, data) ==
  [it EXCEPT !.ok = @ /\ StatusOK(it.data), !.data = data]

InitDataBlock(it) ==
  IF ~Valid(it.index) THEN SetDataIterator(it, NoIter)
  ELSE LET h == Handle(it.index)
       IN IF it.data.kind # "none" /\ h = it.handle THEN it
          ELSE SetDataIterator([it EXCEPT !.handle = h], OpenData(it, h))

RECURSIVE Move(_, _, _), SkipEmptyDataBlocks(_, _, _)

\* SkipEmptyDataBlocksForward and Backward: step the index and start in the
\* next block until there is an entry.
SkipEmptyDataBlocks(it, step, start) ==
  IF Valid(it.data) THEN it
  ELSE IF ~Valid(it.index) THEN SetDataIterator(it, NoIter)
  ELSE LET i == InitDataBlock([it EXCEPT !.index = Move(@, step, <<>>)])
       IN SkipEmptyDataBlocks([i EXCEPT !.data = Move(@, start, <<>>)], step, start)

TwoLevelMove(it, op, target) ==
  LET i == IF op \in {"Next", "Prev"} THEN it
           ELSE InitDataBlock([it EXCEPT !.index = Move(@, op, target)])
      d == [i EXCEPT !.data = Move(@, op, target)]
  IN IF op \in {"SeekToLast", "Prev"}
     THEN SkipEmptyDataBlocks(d, "Prev", "SeekToLast")
     ELSE SkipEmptyDataBlocks(d, "Next", "SeekToFirst")

BlockMove(it, op, target) ==
  CASE op = "Seek" -> BlockSeek(it, target)
    [] op = "SeekToFirst" -> BlockFirst(it)
    [] op = "SeekToLast" -> BlockLast(it)
    [] op = "Next" -> ParseNextKey(it)
    [] op = "Prev" -> BlockPrev(it)

\* The virtual operations of an Iterator.
Move(it, op, target) ==
  CASE it.kind = "block" -> BlockMove(it, op, target)
    [] it.kind = "files" -> FilesMove(it, op, target)
    [] it.kind = "two" -> TwoLevelMove(it, op, target)
    [] OTHER -> it

-----------------------------------------------------------------------------
(* Point lookups.                                                            *)

\* FilterBlockReader::KeyMayMatch, with the filter of the offset's FilterBase;
\* a filter matches its keys and maybe others, an empty one none.
KeyMayMatch(t, offset, k) ==
  LET i == offset \div FilterBase + 1
  IN i <= Len(t.filters) =>
       /\ t.filters[i] # {}
       /\ ExtractUserKey(k) \in t.filters[i] \cup FalsePositives

\* TableCache::Get and Table::InternalGet: the iterator of the block that k
\* falls in, none where the index or a filter says that there is no entry.
InternalGet(t, k, filtered) ==
  LET i == Move(BlockIter(t.index), "Seek", k)
  IN IF ~t.readable THEN ErrorIter
     ELSE IF ~Valid(i) \/ (filtered /\ ~KeyMayMatch(t, t.offsets[Handle(i)], k))
     THEN NoIter
     ELSE Move(BlockReader(t, Handle(i)), "Seek", k)
=============================================================================
