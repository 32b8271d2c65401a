----------------------------- MODULE LogFormat -----------------------------
(* LevelDB's log files (db/log_writer.cc, db/log_reader.cc): records are cut *)
(* into fragments that never straddle a block, and a reader finds them again *)
(* after a crash, a failed append or a damaged byte.                         *)
(*                                                                           *)
(* A byte of the file is [frag |-> the fragment it was written for, at |->   *)
(* its place in header and payload]; zeros fill trailers, and a damaged byte *)
(* belongs to no fragment.  A checksum matches when the bytes under it are   *)
(* the ones of its fragment.                                                 *)
EXTENDS Integers, FiniteSets, Sequences, SequencesExt

CONSTANTS
  BlockSize,   \* kBlockSize
  HeaderSize,  \* kHeaderSize
  Lengths,     \* the lengths of records
  MaxRecords   \* bound: calls of AddRecord

ASSUME LogAssumption ==
  /\ HeaderSize \in Nat \ {0, 1} /\ BlockSize \in Nat /\ BlockSize > HeaderSize
  /\ Lengths \subseteq Nat /\ MaxRecords \in Nat

VARIABLES
  file,    \* the bytes of the file
  synced,  \* how many of them are durable
  offset,  \* Writer::block_offset_
  phase,   \* "writing", or "closed" after a crash
  added,   \* history: the records handed to AddRecord, [len, ok, placed]
  placed   \* history: the writer knows its place in the file

vars == <<file, synced, offset, phase, added, placed>>

-----------------------------------------------------------------------------
(* The writer.                                                               *)

Fragment(r, type, from, len) == [rec |-> r, type |-> type, from |-> from, len |-> len]

ZeroByte == [frag |-> Fragment(0, "zero", 0, 0), at |-> 0]

BadByte == [frag |-> Fragment(0, "bad", 0, 0), at |-> 0]

\* Fault: the trailer is not filled.
NoTrailer(off) == <<>>

\* What is left of a block that cannot hold a header is filled with zeros.
Trailer(off) ==
  LET leftover == BlockSize - off
  IN IF leftover < HeaderSize THEN [i \in 1 .. leftover |-> ZeroByte] ELSE <<>>

FragmentType(begin, end) ==
  IF begin /\ end THEN "full" ELSE IF begin THEN "first" ELSE IF end THEN "last" ELSE "middle"

\* One turn of AddRecord's loop for record r of length len, of which `from'
\* bytes are written: the trailer before the fragment, and the fragment.
Turn(r, len, from, off, begin) ==
  LET start == IF BlockSize - off < HeaderSize THEN 0 ELSE off
      avail == BlockSize - start - HeaderSize
      left  == len - from
      n     == IF left < avail THEN left ELSE avail
  IN [trailer |-> Trailer(off), frag |-> Fragment(r, FragmentType(begin, n = left), from, n),
      end |-> start + HeaderSize + n]

\* The turns up to the one that ends the record.  A record without bytes makes
\* one turn, and every turn but the first writes some.
Turns(r, len, off) ==
  LET turn[n \in 1 .. len + 1] ==
        IF n = 1 THEN Turn(r, len, 0, off, TRUE)
        ELSE Turn(r, len, turn[n - 1].frag.from + turn[n - 1].frag.len, turn[n - 1].end, FALSE)
  IN SubSeq(turn, 1, Min({n \in 1 .. len + 1 : turn[n].frag.type \in {"full", "last"}}))

\* EmitPhysicalRecord: header and payload.
Emitted(f) == [i \in 1 .. HeaderSize + f.len |-> [frag |-> f, at |-> i]]

TurnBytes(t) == t.trailer \o Emitted(t.frag)

AllBytes(ts) == FlattenSeq([i \in DOMAIN ts |-> TurnBytes(ts[i])])

Init ==
  /\ file = <<>> /\ synced = 0 /\ offset = 0 /\ phase = "writing"
  /\ added = <<>> /\ placed = TRUE

Record(ok, len) ==
  /\ phase = "writing" /\ Len(added) < MaxRecords
  /\ added' = Append(added, [len |-> len, ok |-> ok, placed |-> placed])

\* AddRecord, every append and flush of which succeeds.
AddRecord(len) ==
  LET ts == Turns(Len(added) + 1, len, offset)
  IN /\ Record(TRUE, len)
     /\ file' = file \o AllBytes(ts)
     /\ offset' = Last(ts).end
     /\ UNCHANGED <<synced, phase, placed>>

\* The flush of some fragment fails after part of it was written: AddRecord
\* gives the error back, block_offset_ has moved past the whole fragment, and
\* DBImpl::Write goes on with the same log.
AddRecordFails(len) ==
  LET ts == Turns(Len(added) + 1, len, offset)
  IN /\ Record(FALSE, len)
     /\ \E k \in DOMAIN ts : \E n \in 0 .. Len(TurnBytes(ts[k])) - 1 :
          /\ file' = file \o AllBytes(SubSeq(ts, 1, k - 1)) \o SubSeq(TurnBytes(ts[k]), 1, n)
          /\ offset' = ts[k].end
     /\ placed' = FALSE
     /\ UNCHANGED <<synced, phase>>

Sync ==
  /\ phase = "writing" /\ synced < Len(file)
  /\ synced' = Len(file)
  /\ UNCHANGED <<file, offset, phase, added, placed>>

\* A crash of the process or of the machine leaves a prefix.
Crash ==
  /\ phase = "writing"
  /\ \E n \in synced .. Len(file) : file' = SubSeq(file, 1, n) /\ synced' = n
  /\ phase' = "closed"
  /\ UNCHANGED <<offset, added, placed>>

\* The file ends where a fragment or a trailer does.
EndsWithFragment ==
  file = <<>> \/ Last(file) = ZeroByte \/ Last(file).at = HeaderSize + Last(file).frag.len

\* Fault: the writer starts counting at the length of the file.
ReuseAtLength ==
  /\ phase = "closed" /\ \A i \in DOMAIN file : file[i] # BadByte
  /\ phase' = "writing" /\ offset' = Len(file)
  /\ placed' = (placed /\ EndsWithFragment)
  /\ UNCHANGED <<file, synced, added>>

\* A database opened with reuse_logs appends behind what it read.  Behind a
\* torn fragment that is not where the reader looks for the next one.
Reuse ==
  /\ phase = "closed" /\ \A i \in DOMAIN file : file[i] # BadByte
  /\ phase' = "writing" /\ offset' = Len(file) % BlockSize
  /\ placed' = (placed /\ EndsWithFragment)
  /\ UNCHANGED <<file, synced, added>>

\* A byte goes bad.
Corrupt ==
  /\ phase = "closed"
  /\ \A i \in DOMAIN file : file[i] # BadByte
  /\ \E i \in DOMAIN file : file' = [file EXCEPT ![i] = BadByte]
  /\ UNCHANGED <<synced, offset, phase, added, placed>>

-----------------------------------------------------------------------------
(* The reader.  Its buffer is the bytes from `at' up to `upTo' of the file,  *)
(* upTo being end_of_buffer_offset_; what is left of a record in progress is *)
(* the fragments in `scratch'.                                               *)

ReaderAt(block, initial) ==
  [at |-> block, upTo |-> block, eof |-> FALSE, resyncing |-> initial > 0, partial |-> FALSE,
   scratch |-> <<>>, out |-> <<>>, reports |-> 0, done |-> FALSE]

\* Fault: a block is skipped although a header fits behind the offset.
SkipsLastHeader(initial) ==
  LET inBlock == initial % BlockSize
  IN ReaderAt(initial - inBlock + IF inBlock >= BlockSize - HeaderSize THEN BlockSize ELSE 0, initial)

\* SkipToInitialBlock: the block of the offset, or the next one if the offset
\* is in the trailer.
ReaderStart(initial) ==
  LET inBlock == initial % BlockSize
  IN ReaderAt(initial - inBlock + IF inBlock > BlockSize - (HeaderSize - 1) THEN BlockSize ELSE 0, initial)

\* Read the next block; a short one is the last.
Refilled(rs) ==
  LET n == Min({BlockSize, Max({0, Len(file) - rs.upTo})})
  IN [rs EXCEPT !.at = rs.upTo, !.upTo = rs.upTo + n, !.eof = n < BlockSize]

Cleared(rs) == [rs EXCEPT !.at = rs.upTo]

Result(rs, type, frag) == [rs |-> rs, type |-> type, frag |-> frag]

Reported(rs) == [rs EXCEPT !.reports = @ + 1]

Bytes(from, n) == {file[from + i] : i \in 1 .. n}

\* The bytes from `from' on are the first n of fragment f.
Reads(from, f, n) == \A i \in 1 .. n : file[from + i] = [frag |-> f, at |-> i]

\* The part of ReadPhysicalRecord after the buffer holds a header.
Parsed(rs, initial) ==
  LET f     == file[rs.at + 1].frag
      size  == HeaderSize + f.len
      valid == f.rec # 0 /\ Reads(rs.at, f, HeaderSize)
      past  == [rs EXCEPT !.at = @ + size]
  IN IF valid /\ size > rs.upTo - rs.at
     THEN IF rs.eof THEN Result(Cleared(rs), "eof", f) ELSE Result(Reported(Cleared(rs)), "bad", f)
     ELSE IF Bytes(rs.at, HeaderSize) = {ZeroByte} THEN Result(Cleared(rs), "bad", f)
     ELSE IF ~valid \/ ~Reads(rs.at, f, size) THEN Result(Reported(Cleared(rs)), "bad", f)
     ELSE Result(past, IF rs.at < initial THEN "bad" ELSE f.type, f)

\* Fault: a torn header at the end of the file counts as damage.
TornHeaderIsBad(rs, initial) ==
  LET full == IF rs.upTo - rs.at < HeaderSize /\ ~rs.eof THEN Refilled(rs) ELSE rs
  IN IF full.upTo = full.at THEN Result(full, "eof", ZeroByte.frag)
     ELSE IF full.upTo - full.at < HeaderSize THEN Result(Reported(Cleared(full)), "bad", ZeroByte.frag)
     ELSE Parsed(full, initial)

\* ReadPhysicalRecord.  At most one block has to be fetched before a header is
\* there: a block that is shorter than a header is the last.
ReadPhysicalRecord(rs, initial) ==
  LET full == IF rs.upTo - rs.at < HeaderSize /\ ~rs.eof THEN Refilled(rs) ELSE rs
  IN IF full.upTo - full.at < HeaderSize THEN Result(Cleared(full), "eof", ZeroByte.frag)
     ELSE Parsed(full, initial)

\* Fault: a bad record does not end the record in progress.
OnBadKeepsPartial(rs) == rs

\* The record in progress is given up.
OnBad(rs) == IF rs.partial THEN [Reported(rs) EXCEPT !.partial = FALSE, !.scratch = <<>>] ELSE rs

\* A new record begins while one is in progress: the old one is dropped.
Begun(rs) == IF rs.partial /\ \E i \in DOMAIN rs.scratch : rs.scratch[i].len > 0 THEN Reported(rs) ELSE rs

Delivered(rs, frags) == [rs EXCEPT !.out = Append(@, frags), !.partial = FALSE, !.scratch = <<>>]

\* One turn of ReadRecord's loop.  A record that is complete is delivered and
\* the next call goes on from here.
ReaderStep(before, initial) ==
  LET p    == ReadPhysicalRecord(before, initial)
      rs   == [p.rs EXCEPT !.resyncing = @ /\ p.type = "middle"]
      skip == p.rs.resyncing /\ p.type \in {"middle", "last"}
  IN IF skip THEN rs
     ELSE CASE p.type = "full" -> Delivered(Begun(rs), <<p.frag>>)
       [] p.type = "first"   -> [Begun(rs) EXCEPT !.partial = TRUE, !.scratch = <<p.frag>>]
       [] p.type = "middle"  -> IF rs.partial THEN [rs EXCEPT !.scratch = Append(@, p.frag)] ELSE Reported(rs)
       [] p.type = "last"    -> IF rs.partial THEN Delivered(rs, Append(rs.scratch, p.frag)) ELSE Reported(rs)
       [] p.type = "bad"     -> OnBad(rs)
       [] p.type = "eof"     -> [rs EXCEPT !.done = TRUE]

\* Everything a reader that starts at `initial' finds.
ReadLog(initial) ==
  LET run[n \in 0 .. Len(file) + 2] ==
        IF n = 0 THEN ReaderStart(initial)
        ELSE LET rs == run[n - 1] IN IF rs.done THEN rs ELSE ReaderStep(rs, initial)
  IN run[Len(file) + 2]

-----------------------------------------------------------------------------
(* The specification.                                                        *)

Next ==
  \/ \E len \in Lengths : AddRecord(len) \/ AddRecordFails(len)
  \/ Sync \/ Crash \/ Reuse \/ Corrupt

Spec == Init /\ [][Next]_vars

-----------------------------------------------------------------------------
(* Properties.                                                               *)

TypeOK ==
  /\ synced \in 0 .. Len(file) /\ offset \in 0 .. BlockSize
  /\ phase \in {"writing", "closed"} /\ placed \in BOOLEAN

\* All bytes of record r are in the file, as far as its end shows.
Whole(r) ==
  LET mine == {i \in DOMAIN file : file[i].frag.rec = r}
      end  == file[Max(mine)]
  IN mine # {} /\ end.frag.type \in {"full", "last"} /\ end.at = HeaderSize + end.frag.len

BlockOf(i) == (i - 1) \div BlockSize

\* A bad byte is in a block that holds a part of record r.
Hit(r) ==
  \E i, j \in DOMAIN file : file[i] = BadByte /\ file[j].frag.rec = r /\ BlockOf(i) = BlockOf(j)

Start(r) == Min({i \in DOMAIN file : file[i].frag.rec = r}) - 1

\* The records a reader delivers, by number.
RecordsRead(initial) == [i \in DOMAIN ReadLog(initial).out |-> ReadLog(initial).out[i][1].rec]

\* The fragments of one record, from its first byte to its last.
IsRecord(frags) ==
  LET r == frags[1].rec
  IN /\ r \in DOMAIN added /\ frags[1].from = 0
     /\ Last(frags).from + Last(frags).len = added[r].len
     /\ \A k \in 2 .. Len(frags) :
          frags[k].rec = r /\ frags[k].from = frags[k - 1].from + frags[k - 1].len

\* Whatever happened to the file, a reader delivers whole records, as they were
\* added and in that order; fragments of different records never make one.
NothingInvented ==
  LET out == ReadLog(0).out
  IN /\ \A i \in DOMAIN out : IsRecord(out[i])
     /\ \A i, j \in DOMAIN out : i < j => out[i][1].rec < out[j][1].rec

\* A record that was added while the writer knew its place is read back, unless
\* a crash took its end or a byte went bad in a block it has a part in: the
\* damage is contained, also when records before and after it are lost.
DamageIsContained ==
  \A r \in DOMAIN added :
    added[r].ok /\ added[r].placed /\ Whole(r) /\ ~Hit(r) => r \in Range(RecordsRead(0))

\* A crash is not taken for a corruption: if only the last record is torn and
\* no byte is bad, nothing is reported.
CrashIsNoCorruption ==
  placed /\ (\A i \in DOMAIN file : file[i] # BadByte)
         /\ (\A i \in DOMAIN file : file[i].frag.rec \in {0, Last(file).frag.rec} \/ Whole(file[i].frag.rec))
    => ReadLog(0).reports = 0

\* A reader that starts at some offset of an undamaged file delivers exactly
\* the records that begin there or later.
StartsAtOffset ==
  placed /\ (\A i \in DOMAIN file : file[i] # BadByte) =>
    \A o \in 0 .. Len(file) :
      Range(RecordsRead(o)) = {r \in DOMAIN added : Whole(r) /\ Start(r) >= o}
=============================================================================
