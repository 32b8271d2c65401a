------------------------------ MODULE KVStore ------------------------------
(* What LevelDB promises its clients, with no files, memtables or levels:    *)
(* groups of writes that take effect at once and in order, reads that answer *)
(* with the newest write, and groups a crash may not take away.              *)
EXTENDS Integers, FiniteSets

VARIABLES
  up,    \* the database is open
  log,   \* the groups that took effect, each a set of [k, s, d]
  kept   \* those that were acknowledged as durable

store == <<up, log, kept>>

\* What a read of key k at snapshot s answers: the newest write, nothing if it
\* is a deletion.
Get(k, s) ==
  LET of == {e \in UNION log : e.k = k /\ e.s <= s}
  IN {e \in of : ~e.d /\ \A o \in of : o.s <= e.s}

Init == ~up /\ log = {} /\ kept = {}

\* Opening loses nothing and makes nothing up.
Start == ~up /\ up' /\ UNCHANGED <<log, kept>>

\* A group of writes takes effect, after all the others; it may be durable.
Commit ==
  /\ up /\ up'
  /\ \E g \in log' \ log :
       /\ log' = log \cup {g}
       /\ \A e \in g, o \in UNION log : e.s > o.s
       /\ kept' \in {kept, kept \cup {g}}

\* The database stops.  Groups that are not durable may be gone and groups on
\* their way may have made it, in each case as a whole.
Stop ==
  /\ up /\ ~up' /\ kept' = kept /\ kept \subseteq log'
  /\ \A g \in log' \ log : \A e \in g, o \in UNION log : e.s # o.s

\* A crash while the database is being opened.
Lose == ~up /\ ~up' /\ kept' = kept /\ kept \subseteq log' /\ log' \subseteq log

Spec == Init /\ [][Start \/ Commit \/ Stop \/ Lose]_store
=============================================================================
