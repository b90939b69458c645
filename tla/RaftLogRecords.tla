--------------------------- MODULE RaftLogRecords ---------------------------
(***************************************************************************)
(* The raft log of a node as data (heraclitus-raft, durable.rs): entries   *)
(* by index, the last purged one, and what a record makes of them.  An     *)
(* entry is its index and term.                                            *)
(***************************************************************************)
EXTENDS Integers, Sequences, FiniteSets

CONSTANTS
    MaxIndex,  \* bound: indices of the log
    MaxTerm    \* bound: terms

ASSUME BoundsAssumption == MaxIndex \in Nat \ {0} /\ MaxTerm \in Nat \ {0}

Indices == 0 .. MaxIndex
Terms == 1 .. MaxTerm
LogId == [index : Indices, term : Terms]
None == [index |-> -1, term |-> 0]

Insert(id)   == [kind |-> "insert", id |-> id]
Truncate(id) == [kind |-> "truncate", id |-> id]
Purge(id)    == [kind |-> "purge", id |-> id]

Empty == [entries |-> << >>, purged |-> None]

Put(f, i, t) == [j \in DOMAIN f \union {i} |-> IF j = i THEN t ELSE f[j]]
Below(f, i) == [j \in {k \in DOMAIN f : k < i} |-> f[j]]
Above(f, i) == [j \in {k \in DOMAIN f : k > i} |-> f[j]]

\* What one record makes of the entries: the match at the end of `replay`.
Applied(c, r) ==
    CASE r.kind = "insert"   -> [c EXCEPT !.entries = Put(@, r.id.index, r.id.term)]
      [] r.kind = "truncate" -> [c EXCEPT !.entries = Below(@, r.id.index)]
      [] r.kind = "purge"    -> [entries |-> Above(c.entries, r.id.index), purged |-> r.id]
      [] OTHER               -> c

AppliedAll(c, recs) ==
    LET after[n \in 0 .. Len(recs)] ==
            IF n = 0 THEN c ELSE Applied(after[n - 1], recs[n])
    IN  after[Len(recs)]

LastIndex(c) ==
    IF DOMAIN c.entries = {} THEN c.purged.index
    ELSE CHOOSE i \in DOMAIN c.entries : \A j \in DOMAIN c.entries : j <= i

=============================================================================
