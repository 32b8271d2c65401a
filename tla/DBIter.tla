------------------------------- MODULE DBIter -------------------------------
(* LevelDB's user-visible iterator (db/db_iter.cc) over the merging iterator *)
(* (table/merger.cc) of a memtable that writers keep inserting into, an      *)
(* immutable memtable, level-0 tables and a level of disjoint tables.        *)
(*                                                                           *)
(* One step makes at most one call on the memtable's iterator, so that an    *)
(* insert may come between any two of them: the merging iterator's change of *)
(* direction takes three steps.                                              *)
EXTENDS Table, Functions

CONSTANTS
  Databases,  \* the databases to iterate over, see TablesOf
  Targets,    \* user keys: the arguments of Seek
  Inserted,   \* user keys that writers write meanwhile
  NewSequence, \* the first sequence number they use
  MaxInserts  \* bound: how many entries they insert

VARIABLES
  tables,     \* the tables of the version and their keys, level-0 ones first
  lists,      \* the keys of mem_, and of imm_ where there is one
  sequence,   \* DBIter::sequence_
  shown,      \* history: the keys in each child that the iterator should see
  inserts,    \* how many keys were inserted since it was created
  kids,       \* MergingIterator::children_
  current,    \* MergingIterator::current_, 0 for null
  mdirection, \* MergingIterator::direction_
  turning,    \* the phase of a change of direction it is in
  db,         \* DBIter: direction, valid, ok (status_), savedKey, savedValue
  pc,         \* where DBIter is: idle between calls
  loop,       \* the locals skipping and value_type of its loops
  want        \* history: the user key that the call should end at, <<>> for none

dbVars == <<tables, lists, sequence, shown, inserts>>
mergeVars == <<kids, current, mdirection, turning>>
vars == <<dbVars, mergeVars, db, pc, loop, want>>

-----------------------------------------------------------------------------
(* MemTableIterator over SkipList::Iterator; node is <<>> for null.          *)

ListIter(l) == [kind |-> "list", list |-> l, node |-> <<>>]

\* The first (Less is KeyLess) or last key of a set, <<>> if it is empty.
FirstOf(keys) ==
  IF keys = {} THEN <<>> ELSE CHOOSE k \in keys : \A o \in keys \ {k} : KeyLess(k, o)

LastOf(keys) ==
  IF keys = {} THEN <<>> ELSE CHOOSE k \in keys : \A o \in keys \ {k} : KeyLess(o, k)

ListMove(it, keys, op, target) ==
  [it EXCEPT !.node =
     CASE op = "Seek" -> FirstOf({k \in keys : ~KeyLess(k, target)})
       [] op = "SeekToFirst" -> FirstOf(keys)
       [] op = "SeekToLast" -> LastOf(keys)
       [] op = "Next" -> FirstOf({k \in keys : KeyLess(@, k)})
       [] op = "Prev" -> LastOf({k \in keys : KeyLess(k, @)})]

-----------------------------------------------------------------------------
(* MergingIterator.                                                          *)

ChildValid(it) == IF it.kind = "list" THEN it.node # <<>> ELSE Valid(it)

ChildKey(it) == IF it.kind = "list" THEN it.node ELSE Key(it)

ChildOK(it) == it.kind = "list" \/ StatusOK(it)

Child(it, op, target) ==
  IF it.kind = "list" THEN ListMove(it, lists[it.list], op, target) ELSE Move(it, op, target)

ValidKids(ks) == {i \in DOMAIN ks : ChildValid(ks[i])}

\* The first of the children with the smallest key, 0 for null.
FindSmallest(ks) ==
  IF ValidKids(ks) = {} THEN 0
  ELSE CHOOSE i \in ValidKids(ks) : \A j \in ValidKids(ks) \ {i} :
         \/ KeyLess(ChildKey(ks[i]), ChildKey(ks[j]))
         \/ ChildKey(ks[i]) = ChildKey(ks[j]) /\ i < j

\* The last of the children with the largest key, 0 for null.
FindLargest(ks) ==
  IF ValidKids(ks) = {} THEN 0
  ELSE CHOOSE i \in ValidKids(ks) : \A j \in ValidKids(ks) \ {i} :
         \/ KeyLess(ChildKey(ks[j]), ChildKey(ks[i]))
         \/ ChildKey(ks[i]) = ChildKey(ks[j]) /\ i > j

IterValid == current # 0
IterKey == ChildKey(kids[current])

\* SeekToFirst, SeekToLast and Seek: one call on every child.
MergeSeek(op, target) ==
  /\ kids' = [i \in DOMAIN kids |-> Child(kids[i], op, target)]
  /\ current' = IF op = "SeekToLast" THEN FindLargest(kids') ELSE FindSmallest(kids')
  /\ mdirection' = IF op = "SeekToLast" THEN "reverse" ELSE "forward"
  /\ UNCHANGED turning

\* Fault: the children are not compared after the move.
MovesCurrent(op) ==
  /\ kids' = [kids EXCEPT ![current] = Child(@, op, <<>>)]
  /\ current' = current

\* The end of Next and Prev: current_ moves, and the children are compared.
MergeMove(op) ==
  /\ kids' = [kids EXCEPT ![current] = Child(@, op, <<>>)]
  /\ current' = IF op = "Next" THEN FindSmallest(kids') ELSE FindLargest(kids')

Direction(op) == IF op = "Next" THEN "forward" ELSE "reverse"

\* The first half of a turn: the children that are not current_ seek key().
TurnSeek(op) ==
  /\ kids' = [i \in DOMAIN kids |->
                IF i = current THEN kids[i] ELSE Child(kids[i], "Seek", IterKey)]
  /\ turning' = op
  /\ UNCHANGED <<current, mdirection>>

\* Next and Prev, as far as their first call on the memtable's iterator.
MergeStep(op) ==
  IF mdirection = Direction(op) THEN MergeMove(op) /\ UNCHANGED <<mdirection, turning>>
  ELSE TurnSeek(op)

\* Fault: a child without an entry from key() on stays there.
TurnedLazily(it, op) ==
  IF ChildValid(it) /\ (op = "Prev" \/ ChildKey(it) = IterKey) THEN Child(it, op, <<>>) ELSE it

\* The second half of a turn for one child: after key(), or before it.
Turned(it, op) ==
  CASE op = "Next" -> IF ChildValid(it) /\ ChildKey(it) = IterKey THEN Child(it, op, <<>>) ELSE it
    [] op = "Prev" -> Child(it, IF ChildValid(it) THEN op ELSE "SeekToLast", <<>>)

TurnFix ==
  /\ turning \in {"Next", "Prev"}
  /\ mdirection' = Direction(turning) /\ turning' = "moving"
  /\ kids' = [i \in DOMAIN kids |-> IF i = current THEN kids[i] ELSE Turned(kids[i], turning)]
  /\ UNCHANGED <<dbVars, current, db, pc, loop, want>>

TurnMove ==
  /\ turning = "moving" /\ turning' = "no"
  /\ MergeMove(IF mdirection = "forward" THEN "Next" ELSE "Prev")
  /\ UNCHANGED <<dbVars, mdirection, db, pc, loop, want>>

-----------------------------------------------------------------------------
(* What a cursor over the snapshot does.                                     *)

Versions(u) == {k \in UNION Range(shown) : ExtractUserKey(k) = u}

\* The newest entry of a user key is not a deletion.
Live(u) == Versions(u) # {} /\ TypeOf(FirstOf(Versions(u))) = kTypeValue

LiveKeys == {u \in {ExtractUserKey(k) : k \in UNION Range(shown)} : Live(u)}

\* The first or last of the live keys that pass a test.
LeastLive(Test(_)) ==
  LET us == {u \in LiveKeys : Test(u)}
  IN IF us = {} THEN <<>> ELSE CHOOSE u \in us : \A o \in us \ {u} : UserLess(u, o)

GreatestLive(Test(_)) ==
  LET us == {u \in LiveKeys : Test(u)}
  IN IF us = {} THEN <<>> ELSE CHOOSE u \in us : \A o \in us \ {u} : UserLess(o, u)

-----------------------------------------------------------------------------
(* DBIter.                                                                   *)

DBKey == IF db.direction = "forward" THEN ExtractUserKey(IterKey) ELSE db.savedKey
DBValue == IF db.direction = "forward" THEN Tag(IterKey) ELSE db.savedValue
DBStatusOK == db.ok /\ \A i \in DOMAIN kids : ChildOK(kids[i])

NoValue == -1

ClearSaved == [db EXCEPT !.savedKey = <<>>, !.savedValue = NoValue]

\* A database is [mem, imm, level0, level, bad, shut, sequence]: mem and imm
\* are sets of internal keys (imm is empty for none), level0 and level
\* sequences of such sets; bad is the <<table, block>> that cannot be read, shut
\* the tables that cannot be opened, and sequence the iterator's snapshot.
TablesOf(d) ==
  LET sets == d.level0 \o d.level
  IN [i \in DOMAIN sets |->
        [keys  |-> sets[i],
         table |-> [BuildTable(sets[i]) EXCEPT
                      !.bad = {p[2] : p \in {q \in d.bad : q[1] = i}},
                      !.readable = i \notin d.shut]]]

\* NewInternalIterator and Version::AddIterators.
InternalIters(d, ts) ==
  LET n == Len(d.level0)
  IN <<ListIter(1)>> \o (IF d.imm = {} THEN <<>> ELSE <<ListIter(2)>>)
     \o [i \in 1 .. n |-> TableIter(ts[i].table)]
     \o (IF d.level = <<>> THEN <<>>
         ELSE <<LevelIter([i \in DOMAIN d.level |->
                   [largest |-> LastOf(d.level[i]), table |-> ts[n + i].table]])>>)

\* The keys under the iterators of InternalIters.
KeysUnder(d) ==
  <<d.mem>> \o (IF d.imm = {} THEN <<>> ELSE <<d.imm>>) \o d.level0
  \o (IF d.level = <<>> THEN <<>> ELSE <<UNION Range(d.level)>>)

Init ==
  \E d \in Databases :
    /\ tables = TablesOf(d) /\ lists = <<d.mem, d.imm>>
    /\ sequence = d.sequence /\ inserts = 0
    /\ shown = LET under == KeysUnder(d)
               IN [i \in DOMAIN under |-> {k \in under[i] : SequenceOf(k) <= sequence}]
    /\ kids = InternalIters(d, tables) /\ current = 0
    /\ mdirection = "forward" /\ turning = "no"
    /\ db = [direction |-> "forward", valid |-> FALSE, ok |-> TRUE,
             savedKey |-> <<>>, savedValue |-> NoValue]
    /\ pc = "idle" /\ loop = [skipping |-> FALSE, type |-> kTypeDeletion] /\ want = <<>>

\* A call on the iterator begins; where it should end.
Begin(target) == pc = "idle" /\ want' = target /\ UNCHANGED dbVars

Seek(target) ==
  /\ Begin(LeastLive(LAMBDA u : ~UserLess(u, target)))
  /\ MergeSeek("Seek", InternalKey(target, sequence, kValueTypeForSeek))
  /\ db' = [db EXCEPT !.direction = "forward", !.savedValue = NoValue,
                      !.savedKey = InternalKey(target, sequence, kValueTypeForSeek),
                      !.valid = @ /\ current' # 0]
  /\ pc' = IF current' # 0 THEN "FindNextUserEntry" ELSE "idle"
  /\ loop' = [loop EXCEPT !.skipping = FALSE]

SeekToFirst ==
  /\ Begin(LeastLive(LAMBDA u : TRUE))
  /\ MergeSeek("SeekToFirst", <<>>)
  /\ db' = [db EXCEPT !.direction = "forward", !.savedValue = NoValue,
                      !.valid = @ /\ current' # 0]
  /\ pc' = IF current' # 0 THEN "FindNextUserEntry" ELSE "idle"
  /\ loop' = [loop EXCEPT !.skipping = FALSE]

SeekToLast ==
  /\ Begin(GreatestLive(LAMBDA u : TRUE))
  /\ MergeSeek("SeekToLast", <<>>)
  /\ db' = [db EXCEPT !.direction = "reverse", !.savedValue = NoValue]
  /\ pc' = "FindPrevUserEntry"
  /\ loop' = [loop EXCEPT !.type = kTypeDeletion]

\* The beginning of Next.  From "advanced" on the entries of key() are ahead.
DBNext ==
  /\ db.valid /\ Begin(LeastLive(LAMBDA u : UserLess(DBKey, u)))
  /\ IF db.direction = "reverse"
     THEN /\ IF IterValid THEN MergeStep("Next") ELSE MergeSeek("SeekToFirst", <<>>)
          /\ db' = [db EXCEPT !.direction = "forward"]
          /\ pc' = "advanced"
     ELSE /\ db' = [db EXCEPT !.savedKey = ExtractUserKey(IterKey)]
          /\ pc' = "FindNextUserEntry"
          /\ UNCHANGED mergeVars
  /\ loop' = [loop EXCEPT !.skipping = TRUE]

Advanced ==
  /\ pc = "advanced" /\ turning = "no"
  /\ IF IterValid THEN pc' = "FindNextUserEntry" /\ UNCHANGED db
     ELSE pc' = "idle" /\ db' = [db EXCEPT !.valid = FALSE, !.savedKey = <<>>]
  /\ UNCHANGED <<dbVars, mergeVars, loop, want>>

\* ParseKey fails.
Corrupted == TypeOf(IterKey) > kTypeValue

Seen == ~Corrupted /\ SequenceOf(IterKey) <= sequence

Hidden ==
  loop.skipping /\ ~UserLess(db.savedKey, ExtractUserKey(IterKey))

Yields == Seen /\ TypeOf(IterKey) = kTypeValue /\ ~Hidden

\* A turn of the loop of FindNextUserEntry that yields, that goes on, and its end.
FindNextUserEntry ==
  /\ pc = "FindNextUserEntry" /\ turning = "no"
  /\ CASE ~IterValid ->
            /\ db' = [db EXCEPT !.savedKey = <<>>, !.valid = FALSE]
            /\ pc' = "idle" /\ UNCHANGED <<mergeVars, loop>>
       [] IterValid /\ Yields ->
            /\ db' = [db EXCEPT !.savedKey = <<>>, !.valid = TRUE]
            /\ pc' = "idle" /\ UNCHANGED <<mergeVars, loop>>
       [] IterValid /\ ~Yields ->
            /\ db' = [db EXCEPT !.ok = @ /\ ~Corrupted,
                                !.savedKey = IF Seen /\ TypeOf(IterKey) = kTypeDeletion
                                             THEN ExtractUserKey(IterKey) ELSE @]
            /\ loop' = [loop EXCEPT !.skipping = @ \/ (Seen /\ TypeOf(IterKey) = kTypeDeletion)]
            /\ MergeStep("Next") /\ UNCHANGED pc
  /\ UNCHANGED <<dbVars, want>>

\* The beginning of Prev.  While "backing", iter_ leaves the entries of key().
DBPrev ==
  /\ db.valid /\ Begin(GreatestLive(LAMBDA u : UserLess(u, DBKey)))
  /\ IF db.direction = "forward"
     THEN /\ db' = [db EXCEPT !.savedKey = ExtractUserKey(IterKey)]
          /\ pc' = "backing" /\ MergeStep("Prev")
     ELSE pc' = "FindPrevUserEntry" /\ UNCHANGED <<db, mergeVars>>
  /\ loop' = [loop EXCEPT !.type = kTypeDeletion]

BackOut ==
  /\ pc = "backing" /\ turning = "no"
  /\ CASE ~IterValid ->
            /\ db' = [ClearSaved EXCEPT !.valid = FALSE]
            /\ pc' = "idle" /\ UNCHANGED mergeVars
       [] IterValid /\ UserLess(ExtractUserKey(IterKey), db.savedKey) ->
            /\ db' = [db EXCEPT !.direction = "reverse"]
            /\ pc' = "FindPrevUserEntry" /\ UNCHANGED mergeVars
       [] IterValid /\ ~UserLess(ExtractUserKey(IterKey), db.savedKey) ->
            MergeStep("Prev") /\ UNCHANGED <<db, pc>>
  /\ UNCHANGED <<dbVars, loop, want>>

\* Fault: the loop ends at the first value, which may be an old one.
FoundAtOnce == loop.type # kTypeDeletion

\* The loop of FindPrevUserEntry breaks: a value is held and its key is over.
Found ==
  Seen /\ loop.type # kTypeDeletion /\ UserLess(ExtractUserKey(IterKey), db.savedKey)

\* The locals and members of a turn of the loop that goes on.
Collected ==
  IF ~Seen THEN [db EXCEPT !.ok = @ /\ ~Corrupted]
  ELSE IF TypeOf(IterKey) = kTypeDeletion THEN ClearSaved
  ELSE [db EXCEPT !.savedKey = ExtractUserKey(IterKey), !.savedValue = Tag(IterKey)]

FindPrevUserEntry ==
  /\ pc = "FindPrevUserEntry" /\ turning = "no"
  /\ IF IterValid /\ ~Found
     THEN /\ db' = Collected
          /\ loop' = [loop EXCEPT !.type = IF Seen THEN TypeOf(IterKey) ELSE @]
          /\ MergeStep("Prev") /\ UNCHANGED pc
     ELSE /\ db' = IF loop.type = kTypeDeletion
                   THEN [ClearSaved EXCEPT !.valid = FALSE, !.direction = "forward"]
                   ELSE [db EXCEPT !.valid = TRUE]
          /\ pc' = "idle" /\ UNCHANGED <<mergeVars, loop>>
  /\ UNCHANGED <<dbVars, want>>

\* A writer inserts a newer entry into the memtable (MemTable::Add).
Insert(user, type) ==
  /\ inserts < MaxInserts /\ inserts' = inserts + 1
  /\ lists' = [lists EXCEPT ![1] = @ \cup
                 {InternalKey(user, NewSequence + inserts, type)}]
  /\ UNCHANGED <<tables, sequence, shown, mergeVars, db, pc, loop, want>>

Next ==
  \/ \E t \in Targets : Seek(t)
  \/ SeekToFirst \/ SeekToLast \/ DBNext \/ DBPrev
  \/ Advanced \/ FindNextUserEntry \/ BackOut \/ FindPrevUserEntry
  \/ TurnFix \/ TurnMove
  \/ \E u \in Inserted, type \in {kTypeDeletion, kTypeValue} : Insert(u, type)

Spec == Init /\ [][Next]_vars

-----------------------------------------------------------------------------
(* Properties.                                                               *)

Phases == {"idle", "advanced", "backing", "FindNextUserEntry", "FindPrevUserEntry"}

\* The parts of the state have their types, key() and the members that point to
\* a child are only used where there is one, and a valid iterator that moves
\* forward stands on an entry (the assertions of DBIter and MergingIterator).
TypeOK ==
  /\ current \in 0 .. Len(kids) /\ mdirection \in {"forward", "reverse"}
  /\ turning \in {"no", "Next", "Prev", "moving"} /\ pc \in Phases
  /\ db.valid \in BOOLEAN /\ db.ok \in BOOLEAN /\ inserts \in 0 .. MaxInserts
  /\ current # 0 => ChildValid(kids[current])
  /\ turning # "no" => current # 0
  /\ pc = "idle" /\ db.valid /\ db.direction = "forward" => IterValid
  /\ pc \in {"backing", "FindPrevUserEntry"} => turning # "Next"

\* Between calls, and unless it reports an error, the iterator stands where a
\* cursor over the snapshot would: whatever calls came before, whatever was
\* inserted meanwhile and however the keys lie in memtables and blocks
\* (DBIter::Next, Prev, Seek, SeekToFirst, SeekToLast).
CursorIsExact ==
  pc = "idle" /\ DBStatusOK =>
    /\ db.valid <=> want # <<>>
    /\ db.valid => DBKey = want /\ DBValue = Tag(FirstOf(Versions(want)))

\* "All children are positioned after key()" when the merging iterator moves
\* forward, "before key()" when it moves back: between two moves, no visible
\* key lies between key() and where a child stands (MergingIterator::Next and
\* Prev), so that none is left out of the merge.  Not while DBIter backs out of a
\* key: an insert behind a child that found nothing makes its SeekToLast go past
\* key(), and Prev then moves forward until it has backed out.
NoneLeftOut ==
  turning = "no" /\ pc # "backing" /\ current # 0 /\ DBStatusOK =>
    \A i \in DOMAIN kids \ {current} : \A k \in shown[i] :
      LET c == kids[i]
      IN IF mdirection = "forward"
         THEN KeyLess(IterKey, k) => ChildValid(c) /\ ~KeyLess(k, ChildKey(c))
         ELSE KeyLess(k, IterKey) => ChildValid(c) /\ ~KeyLess(ChildKey(c), k)

\* A lookup in a table finds the newest entry of the user key at or below the
\* sequence, with and without a filter, unless it reports an unreadable block:
\* no separator, restart point or filter hides it (Table::InternalGet).
GetFinds ==
  inserts = 0 /\ pc = "idle" /\ want = <<>> =>
    \A t \in Range(tables), filtered \in BOOLEAN :
      \A u \in Targets, s \in 0 .. NewSequence :
        LET k == InternalKey(u, s, kValueTypeForSeek)
            g == InternalGet(t.table, k, filtered)
            f == FirstOf({e \in t.keys : ExtractUserKey(e) = u /\ ~KeyLess(e, k)})
        IN IF f # <<>> THEN g.kind = "error" \/ (Valid(g) /\ Key(g) = f)
           ELSE Valid(g) => ExtractUserKey(Key(g)) # u

\* Once an unreadable block or a corrupted key was met, status() says so for
\* ever: the error outlives the block's iterator (TwoLevelIterator::SaveError).
ErrorsStick == [][~DBStatusOK => ~DBStatusOK']_vars
=============================================================================
