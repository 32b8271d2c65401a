------------------------------ MODULE MCDBIter ------------------------------
EXTENDS DBIter

\* User keys that are prefixes of each other, before and after a gap: the
\* separator of b and c is shortened to <<2>>, that of a and b is not, and
\* neither is that of b and e; the successor of f is shortened to <<4>>.
a == <<1>>
b == <<1, 1>>
e == <<2>>
c == <<3>>
f == <<3, 5>>
Users == {a, b, c}
Types == {kTypeDeletion, kTypeValue}

MCTargets == {a, b, <<1, 2>>, e, c, f, <<4>>}
MCFalse == {e}
MCCompressible == {b}
MCInserted == {b, c}

V(u, s) == InternalKey(u, s, kTypeValue)
D(u, s) == InternalKey(u, s, kTypeDeletion)
Bad(u, s) == InternalKey(u, s, kTypeValue + 1)

Database(mem, imm, level0, level, seq) ==
  [mem |-> mem, imm |-> imm, level0 |-> level0, level |-> level, sequence |-> seq,
   bad |-> {}, shut |-> {}]

\* One newer entry in the memtable, one in level 0, over a level of two files.
Layered ==
  {Database({InternalKey(u, 5, t)}, {}, <<{InternalKey(v, 4, w)}>>,
            <<{V(a, 1), V(b, 2)}, {V(c, 3)}>>, s) :
     u \in Users, t \in Types, v \in Users, w \in Types, s \in {4, 5}}

\* A table of three blocks with several versions of each key, and an immutable
\* memtable, seen from every sequence.
Tall == {V(a, 1), V(b, 2), V(c, 3), D(a, 4), V(b, 5), V(c, 6), V(b, 7)}

Deep == {Database({D(b, 9)}, {V(a, 8)}, <<Tall>>, <<>>, s) : s \in 1 .. 9}

\* One table of two, three or four blocks, cut after every third of some
\* versions of all keys: inside a key and between any two, with blocks that share
\* a filter and blocks that make two of them.
Pool == {V(a, 1), D(a, 4), V(b, 2), V(b, 5), V(e, 8), V(c, 3), V(c, 6), V(f, 7), D(f, 9)}

Cut ==
  {Database({}, {}, <<t>>, <<>>, 9) :
     t \in {s \in SUBSET Pool : Cardinality(s) \in {5, 7}} \cup {Pool \cup {V(e, 1)}}}

\* An unreadable block, a table that does not open, and a corrupted key.
Damaged ==
  {[d EXCEPT !.bad = {<<1, i>>}] : d \in Deep, i \in 1 .. 3}
  \cup {[d EXCEPT !.shut = {i}] : d \in {l \in Layered : l.sequence = 5}, i \in 1 .. 3}
  \cup {Database({V(c, 5)}, {}, <<{V(a, 1), Bad(b, 3)}>>, <<{V(b, 2)}>>, 5)}

MCDatabases == Layered \cup Deep \cup Cut \cup Damaged
=============================================================================
