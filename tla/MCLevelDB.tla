----------------------------- MODULE MCLevelDB -----------------------------
(* Small instances of LevelDB for TLC.  Of the inputs, either any few come in *)
(* any order, or those of a named course come in its order; the steps of the  *)
(* database interleave with them freely.                                      *)
EXTENDS LevelDB

CONSTANTS
  Courses,   \* the courses a run goes through
  AnyInputs  \* bound: the inputs of the course "any"

VARIABLE course

\* Writers are interchangeable.
Symmetry == Permutations(Writers)

MCRanges == {<<NoBound, NoBound>>}

Put(k) == [k |-> k, d |-> FALSE]
Del(k) == [k |-> k, d |-> TRUE]

Unsynced(batch) == [batch |-> batch, sync |-> FALSE]

AnyCalls == {Unsynced(<<Put(1)>>), [batch |-> <<Put(2), Del(1)>>, sync |-> TRUE]}

MCCalls == AnyCalls \cup {Unsynced(<<Put(2)>>), Unsynced(<<Put(1), Del(2)>>)}

PutCalls == {Unsynced(<<Put(k)>>) : k \in Keys}

Writes(batch) == \E t \in Writers : wr[t].pc = "idle" /\ wr'[t].batch = batch

Restarts ==
  /\ db.phase = "open" /\ db'.phase = "closed"
  /\ \A kind \in {"log", "man", "tab"} : \A n \in DOMAIN disk[kind] :
       disk'[kind][n].recs = disk[kind][n].recs

Compacts == cr.pc = "idle" /\ cr'.pc = "memtable"

TakesSnapshot == snaps' # snaps /\ db'.phase = "open"

\* Any few inputs come in any order, the last of them a read, a close, a crash or
\* an I/O error.
AnyHappens(i) ==
  /\ \A c \in MCCalls \ AnyCalls : ~Writes(c.batch)
  /\ i = MaxInputs => ~Compacts /\ ~TakesSnapshot /\ \A c \in AnyCalls : ~Writes(c.batch)

ManifestTears == bg.job = "flush" /\ disk' # disk /\ db'.err

\* Key 2 is flushed to a deep level, keys 1 and 3 are recovered into level 0,
\* and key 2 is written again while they are compacted.
OverlapHappens(i) ==
  \/ i \in {1, 6} /\ Writes(<<Put(2)>>)
  \/ i \in {2, 7} /\ Writes(<<Put(1)>>)
  \/ i = 3 /\ Writes(<<Put(3)>>)
  \/ i = 4 /\ Restarts
  \/ i = 5 /\ Compacts

\* Key 2 is written and compacted, and a snapshot taken of it; key 1 is written
\* and key 2 deleted, and all of it compacted; key 1 is written again and
\* compacted, with the snapshot gone or not.
BoundaryHappens(i) ==
  \/ i = 1 /\ Writes(<<Put(2)>>)
  \/ i = 3 /\ TakesSnapshot
  \/ i = 4 /\ Writes(<<Put(1), Del(2)>>)
  \/ i = 6 /\ Writes(<<Put(1)>>)
  \/ i \in {2, 5, 7} /\ Compacts

\* Key 1 is written and compacted, twice; a memtable fills up during the second
\* compaction, and its flush fails to write the manifest.
TornHappens(i) ==
  \/ i \in {1, 3, 6} /\ Writes(<<Put(1)>>)
  \/ i = 5 /\ Writes(<<Put(2), Del(1)>>)
  \/ i \in {2, 4} /\ Compacts
  \/ i = 7 /\ ManifestTears

\* The i-th input is what the course has there.
Happens(i) ==
  \/ course = "any" /\ AnyHappens(i)
  \/ course = "overlap" /\ OverlapHappens(i)
  \/ course = "boundary" /\ BoundaryHappens(i)
  \/ course = "torn" /\ TornHappens(i)

MCInit ==
  /\ Init /\ course \in Courses
  /\ left.opens = MaxOpens
  /\ left.inputs = IF course = "any" THEN AnyInputs ELSE MaxInputs

MCNext ==
  /\ Next
  /\ left'.inputs # left.inputs => Happens(MaxInputs - left'.inputs)
  /\ UNCHANGED course

MCSpec == MCInit /\ [][MCNext]_<<vars, course>>
=============================================================================
