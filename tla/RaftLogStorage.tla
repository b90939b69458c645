--------------------------- MODULE RaftLogStorage ---------------------------
(***************************************************************************)
(* What raft needs of the storage of a node, and what FileRaftLog promises *)
(* (heraclitus-raft, durable.rs): no files, no fsync.  A call is answered  *)
(* once it took effect.  A crash in between leaves of it some prefix of    *)
(* the records it is made of, and leaves everything answered.              *)
(***************************************************************************)
EXTENDS RaftLogRecords

VARIABLES
    log,    \* entries and last purged, as answered
    vote,   \* the vote, as answered
    call,   \* the call that has no answer: its records, its vote (0: none)
    known   \* the last entry known to be committed

vars == <<log, vote, call, known>>

NoCall == [recs |-> << >>, vote |-> 0]

Init ==
    /\ log \in {Empty, [Empty EXCEPT !.entries = [i \in 0 .. 1 |-> 1]]}
    /\ vote \in {0, 1}
    /\ call = NoCall
    /\ known \in {None, [index |-> 0, term |-> 1]}

\* No entry that is known to be committed is truncated, and a purge is of
\* committed entries or goes beyond the log.
Respects(recs) ==
    \A i \in DOMAIN recs :
        /\ recs[i].kind = "truncate" => recs[i].id.index > known.index
        /\ recs[i].kind = "purge" =>
              recs[i].id.index <= known.index \/ recs[i].id.index > LastIndex(log)

Call ==
    /\ call = NoCall
    /\ call' # NoCall
    /\ call'.vote # 0 => call'.vote > vote
    /\ Respects(call'.recs)
    /\ UNCHANGED <<log, vote, known>>

\* The answer, or a restart that finds a prefix of the records, and the vote or not.
Settle ==
    /\ \E k \in 0 .. Len(call.recs) : log' = AppliedAll(log, SubSeq(call.recs, 1, k))
    /\ vote' \in {vote} \union ({call.vote} \ {0})
    /\ call' = NoCall
    /\ known' = IF log'.purged.index > known.index THEN log'.purged ELSE known

\* More entries of the log become known to be committed.
Advance ==
    /\ known'.index >= known.index
    /\ known'.index \in DOMAIN log.entries /\ log.entries[known'.index] = known'.term
    /\ UNCHANGED <<log, vote, call>>

Next == Call \/ Settle \/ Advance

Spec == Init /\ [][Next]_vars
=============================================================================
