----------------------------- MODULE FileRaftLog -----------------------------
(***************************************************************************)
(* The durable raft log of a node (heraclitus-raft, durable.rs): a WAL of  *)
(* records that insert, truncate and purge entries, and `meta.bin` with    *)
(* the vote and the commit index.  openraft calls it, one call at a time   *)
(* under the mutex, and stops for good at the first error; a call is cut   *)
(* here at every write, fsync and rename.                                  *)
(*                                                                         *)
(* A file has what the page cache shows and what the disk is sure of: a    *)
(* kill loses neither, a power failure any part of the difference.  An     *)
(* entry is its index and term.                                            *)
(***************************************************************************)
EXTENDS RaftLogRecords

CONSTANTS
    MaxRecords,       \* bound: records in the WAL
    MaxBatch,         \* bound: entries handed to one append
    LazyBy,           \* COMMITTED_PERSISTIR_A_CADA
    MaxKills,         \* bound: process kills
    MaxPower,         \* bound: power failures
    MaxLogFaults,        \* bound: failed calls of the file system
    OrderedWriteback  \* unsynced bytes that survive a power failure are a prefix

ASSUME RaftLogAssumption ==
    /\ {MaxRecords, MaxKills, MaxPower, MaxLogFaults} \subseteq Nat
    /\ {MaxBatch, LazyBy} \subseteq Nat \ {0}
    /\ OrderedWriteback \in BOOLEAN

VARIABLES
    wal,         \* the file the next open replays: entries.v2.wal, or entries.wal before it
    sure,        \* how many of its records a power failure cannot take
    before,      \* images the directory may fall back to while a rename is not synced
    meta,        \* meta.bin
    metaBefore,  \* values meta.bin may fall back to
    mem,         \* Inner: entries and last_purged
    vote,        \* Inner: meta.vote
    committed,   \* Inner: meta.committed
    written,     \* Inner: committed_persistido
    pc,          \* the next system call of the call under way
    op,          \* its locals
    promised,    \* history: contents and vote as of the last answer
    pending,     \* history: what the unanswered call may have done
    frontier,    \* history: the last entry raft knows to be committed
    raftLogUsed         \* how much of each bound is spent

files   == <<wal, sure, before, meta, metaBefore>>
inner   == <<mem, vote, committed, written>>
history == <<promised, pending, frontier>>
raftLogVars    == <<files, inner, pc, op, history, raftLogUsed>>

-----------------------------------------------------------------------------
\* `saw_compaction`: the record leaves dead bytes in the file.
Wastes(c, r) ==
    CASE r.kind = "insert" -> r.id.index \in DOMAIN c.entries
      [] r.kind = "torn"   -> FALSE
      [] OTHER             -> DOMAIN Applied(c, r).entries # DOMAIN c.entries

Torn == [kind |-> "torn", id |-> None]

\* A record that is not whole ends the file, or `replay` refuses.
Readable(recs) == \A i \in 1 .. Len(recs) - 1 : recs[i].kind # "torn"
Replay(recs) == AppliedAll(Empty, recs)

\* What is left once the file is cut at the end of its last whole record.
Whole(recs) ==
    LET n == Len(recs)
    IN  IF n > 0 /\ recs[n].kind = "torn" THEN SubSeq(recs, 1, n - 1) ELSE recs

SawCompaction(recs) ==
    \E i \in 1 .. Len(recs) : Wastes(Replay(SubSeq(recs, 1, i - 1)), recs[i])

\* The index that n entries of f come before.
Ranked(f, n) ==
    CHOOSE i \in DOMAIN f : Cardinality({j \in DOMAIN f : j < i}) = n

\* The image rewrite_wal writes: the last purged, then the entries in order.
Compacted(c) ==
    (IF c.purged = None THEN << >> ELSE <<Purge(c.purged)>>)
        \o [n \in 1 .. Cardinality(DOMAIN c.entries) |->
               LET i == Ranked(c.entries, n - 1)
               IN  Insert([index |-> i, term |-> c.entries[i]])]

\* The check of `open`: the WAL covers the commit index of meta.bin.
Covers(c, id) ==
    \/ id = None
    \/ c.purged # None /\ (c.purged.index > id.index \/ c.purged = id)
    \/ id.index = 0 /\ c = Empty
    \/ LET start == IF c.purged # None THEN c.purged.index + 1
                    ELSE IF 0 \in DOMAIN c.entries THEN 0 ELSE 1
       IN /\ start .. id.index \subseteq DOMAIN c.entries
          /\ id.index \in DOMAIN c.entries /\ c.entries[id.index] = id.term

NoMeta == [vote |-> 0, committed |-> None]
Nothing == [recs |-> << >>, vote |-> 0]

\* A new node, or one that ran the version before, with its entries.wal.
RaftLogInit ==
    /\ \/ wal = [v2 |-> FALSE, recs |-> << >>] /\ meta = NoMeta
       \/ /\ wal = [v2 |-> FALSE, recs |-> <<Insert([index |-> 0, term |-> 1]),
                                             Insert([index |-> 1, term |-> 1])>>]
          /\ meta = [vote |-> 1, committed |-> [index |-> 0, term |-> 1]]
    /\ sure = Len(wal.recs) /\ before = {} /\ metaBefore = {}
    /\ mem = Empty /\ vote = 0 /\ committed = None /\ written = None
    /\ pc = "down" /\ op = Nothing
    /\ promised = [log |-> Replay(wal.recs), vote |-> meta.vote]
    /\ pending = Nothing
    /\ frontier = meta.committed
    /\ raftLogUsed = [kills |-> 0, power |-> 0, faults |-> 0]

RaftLogSpends(what, bound) ==
    /\ raftLogUsed[what] < bound
    /\ raftLogUsed' = [raftLogUsed EXCEPT ![what] = @ + 1]

\* The call returns Ok: openraft counts on all it did.
Answered(c, v) ==
    /\ promised' = [log |-> c, vote |-> v] /\ pending' = Nothing
    /\ frontier' = IF c.purged.index > frontier.index THEN c.purged ELSE frontier

-----------------------------------------------------------------------------
(* append_sync, truncate and purge: records, one fsync, the answer *)

BeginCall(recs) ==
    /\ pc = "idle"
    /\ Len(wal.recs) + Len(recs) <= MaxRecords
    /\ pc' = "write"
    /\ op' = [recs |-> recs, vote |-> 0]
    /\ pending' = [recs |-> recs, vote |-> 0]

\* openraft appends after the last entry, in terms that never fall.
BeginAppend(n, t) ==
    /\ LastIndex(mem) + n <= MaxIndex
    /\ t >= (IF DOMAIN mem.entries = {} THEN mem.purged.term ELSE mem.entries[LastIndex(mem)])
    /\ BeginCall([i \in 1 .. n |-> Insert([index |-> LastIndex(mem) + i, term |-> t])])
    /\ UNCHANGED <<files, inner, promised, frontier, raftLogUsed>>

\* ... truncates what conflicts with a leader, which is never committed, ...
BeginTruncate(i) ==
    /\ i \in DOMAIN mem.entries /\ i > frontier.index
    /\ BeginCall(<<Truncate([index |-> i, term |-> mem.entries[i]])>>)
    /\ UNCHANGED <<files, inner, promised, frontier, raftLogUsed>>

\* ... and purges what a snapshot holds: committed entries of this log, or,
\* once the snapshot of another node was installed, up to its last entry.
BeginPurge(id) ==
    /\ id.index > mem.purged.index
    /\ \/ /\ id.index \in DOMAIN mem.entries /\ mem.entries[id.index] = id.term
          /\ id.index <= frontier.index
       \/ /\ id.index > LastIndex(mem) /\ id.index > frontier.index
          /\ id.term >= frontier.term
    /\ BeginCall(<<Purge(id)>>)
    /\ UNCHANGED <<files, inner, promised, frontier, raftLogUsed>>

\* Insert reaches the memory at once, the other two after the fsync.
WriteRecord ==
    /\ pc = "write" /\ op.recs # << >>
    /\ wal' = [wal EXCEPT !.recs = Append(@, Head(op.recs))]
    /\ IF Head(op.recs).kind = "insert"
       THEN mem' = Applied(mem, Head(op.recs)) /\ op' = [op EXCEPT !.recs = Tail(@)]
       ELSE UNCHANGED mem /\ UNCHANGED op
    /\ pc' = IF Len(op.recs) = 1 THEN "sync" ELSE "write"
    /\ UNCHANGED <<sure, before, meta, metaBefore, vote, committed, written, history, raftLogUsed>>

\* Mutant of SyncWal: an answer before the fsync.
SyncWalSkipped ==
    /\ pc = "sync"
    /\ mem' = AppliedAll(mem, op.recs)
    /\ IF op.recs # << >> /\ Head(op.recs).kind = "purge"
       THEN pc' = "compact" /\ UNCHANGED history
       ELSE pc' = "idle" /\ Answered(mem', vote)
    /\ op' = Nothing
    /\ UNCHANGED <<files, vote, committed, written, raftLogUsed>>

SyncWal ==
    /\ pc = "sync"
    /\ sure' = Len(wal.recs)
    /\ mem' = AppliedAll(mem, op.recs)
    /\ IF op.recs # << >> /\ Head(op.recs).kind = "purge"
       THEN pc' = "compact" /\ UNCHANGED history
       ELSE pc' = "idle" /\ Answered(mem', vote)
    /\ op' = Nothing
    /\ UNCHANGED <<wal, before, meta, metaBefore, vote, committed, written, raftLogUsed>>

-----------------------------------------------------------------------------
(* rewrite_wal: the temporary file is written and synced, then renamed *)

\* Mutant of Rewrite: the compacted file has no Purge record.
RewriteForgetsPurge ==
    /\ pc \in {"compact", "openCompact"}
    /\ wal' = [v2 |-> TRUE, recs |-> Compacted([mem EXCEPT !.purged = None])]
    /\ sure' = Len(wal'.recs)
    /\ before' = before \union {wal}
    /\ pc' = IF pc = "compact" THEN "compactSync" ELSE "openCompactSync"
    /\ UNCHANGED <<meta, metaBefore, inner, op, history, raftLogUsed>>

Rewrite ==
    /\ pc \in {"compact", "openCompact"}
    /\ wal' = [v2 |-> TRUE, recs |-> Compacted(mem)]
    /\ sure' = Len(wal'.recs)
    /\ before' = before \union {wal}
    /\ pc' = IF pc = "compact" THEN "compactSync" ELSE "openCompactSync"
    /\ UNCHANGED <<meta, metaBefore, inner, op, history, raftLogUsed>>

\* fsync_dir: no rename of the directory can be undone any more.
DirSynced == before' = {} /\ metaBefore' = {}

RewriteSynced ==
    /\ pc \in {"compactSync", "openCompactSync"}
    /\ DirSynced
    /\ pc' = "idle"
    /\ Answered(mem, vote)
    /\ UNCHANGED <<wal, sure, meta, inner, op, raftLogUsed>>

-----------------------------------------------------------------------------
(* write_meta: for a vote, for the commit index, and when Inner is dropped *)

SaveVote(v) ==
    /\ pc = "idle" /\ v > vote
    /\ vote' = v
    /\ pending' = [Nothing EXCEPT !.vote = v]
    /\ pc' = "meta"
    /\ UNCHANGED <<files, mem, committed, written, op, promised, frontier, raftLogUsed>>

\* Whether one second has passed since the last write is left open.
MustWrite(new) ==
    \/ written = None /\ new # None
    \/ new.index < written.index
    \/ new.index - written.index >= LazyBy

\* What openraft calls committed is in the log, and never falls.
SaveCommitted(i) ==
    /\ pc = "idle"
    /\ i \in DOMAIN mem.entries /\ i >= frontier.index
    /\ committed' = [index |-> i, term |-> mem.entries[i]]
    /\ frontier' = committed'
    /\ \/ pc' = "meta"
       \/ ~MustWrite(committed') /\ UNCHANGED pc
    /\ UNCHANGED <<files, mem, vote, written, op, promised, pending, raftLogUsed>>

WriteMeta ==
    /\ pc \in {"meta", "drop"}
    /\ meta' = [vote |-> vote, committed |-> committed]
    /\ metaBefore' = metaBefore \union {meta}
    /\ pc' = IF pc = "meta" THEN "metaSync" ELSE "dropSync"
    /\ UNCHANGED <<wal, sure, before, inner, op, history, raftLogUsed>>

\* Mutant of MetaSynced: the rename of meta.bin is not made durable.
MetaSyncedSkipped ==
    /\ pc \in {"metaSync", "dropSync"}
    /\ written' = committed
    /\ IF pc = "metaSync"
       THEN pc' = "idle" /\ Answered(promised.log, vote)
       ELSE pc' = "down" /\ UNCHANGED history
    /\ UNCHANGED <<files, mem, vote, committed, op, raftLogUsed>>

MetaSynced ==
    /\ pc \in {"metaSync", "dropSync"}
    /\ DirSynced
    /\ written' = committed
    /\ IF pc = "metaSync"
       THEN pc' = "idle" /\ Answered(promised.log, vote)
       ELSE pc' = "down" /\ UNCHANGED history
    /\ UNCHANGED <<wal, sure, meta, mem, vote, committed, op, raftLogUsed>>

-----------------------------------------------------------------------------
(* open *)

\* The replay and the check happen before anything is changed.
OpenReads ==
    /\ pc = "down"
    /\ IF Readable(wal.recs) /\ Covers(Replay(wal.recs), meta.committed)
       THEN /\ mem' = Replay(wal.recs)
            /\ vote' = meta.vote /\ committed' = meta.committed /\ written' = meta.committed
            /\ pc' = IF wal.v2 THEN "openCut" ELSE "openMigrate"
       ELSE pc' = "refused" /\ UNCHANGED inner
    /\ op' = Nothing
    /\ UNCHANGED <<files, history, raftLogUsed>>

\* The first v2 file is the compacted image of the old one, which is kept.
OpenMigrates ==
    /\ pc = "openMigrate"
    /\ wal' = [v2 |-> TRUE, recs |-> Compacted(mem)]
    /\ sure' = Len(wal'.recs)
    /\ before' = before \union {wal}
    /\ pc' = "openSync"
    /\ UNCHANGED <<meta, metaBefore, inner, op, history, raftLogUsed>>

OpenDone(compacts) ==
    IF compacts
    THEN pc' = "openCompact" /\ UNCHANGED history
    ELSE pc' = "idle" /\ Answered(mem, vote)

OpenSynced ==
    /\ pc = "openSync"
    /\ DirSynced
    /\ OpenDone(FALSE)
    /\ UNCHANGED <<wal, sure, meta, inner, op, raftLogUsed>>

\* set_len, sync_all and fsync_dir; a file with dead records is then rewritten.
OpenCuts ==
    /\ pc = "openCut"
    /\ wal' = [wal EXCEPT !.recs = Whole(@)]
    /\ sure' = Len(wal'.recs)
    /\ DirSynced
    /\ OpenDone(SawCompaction(wal.recs))
    /\ UNCHANGED <<meta, inner, op, raftLogUsed>>

-----------------------------------------------------------------------------
(* Failures *)

\* The memory of the process is gone.
Forgotten ==
    mem' = Empty /\ vote' = 0 /\ committed' = None /\ written' = None /\ op' = Nothing

Running == pc \notin {"down", "stopped", "refused"}

\* A failed call has no effect, or wrote half a record.  openraft stops at
\* the error of a call; an error of open is reported and open is tried again.
Fails ==
    /\ Running /\ pc # "idle"
    /\ RaftLogSpends("faults", MaxLogFaults)
    /\ \/ UNCHANGED wal
       \/ pc = "write" /\ wal' = [wal EXCEPT !.recs = Append(@, Torn)]
    /\ pc' = IF pc \in {"openCut", "openMigrate", "openSync", "openCompact",
                         "openCompactSync", "drop", "dropSync"} THEN "down" ELSE "stopped"
    /\ UNCHANGED <<sure, before, meta, metaBefore, inner, op, history>>

\* The process ends in order: Inner is dropped.
Shutdown ==
    /\ pc \in {"idle", "stopped"}
    /\ pc' = IF written # committed THEN "drop" ELSE "down"
    /\ UNCHANGED <<files, inner, op, history, raftLogUsed>>

RaftLogKill ==
    /\ Running \/ pc = "stopped"
    /\ RaftLogSpends("kills", MaxKills)
    /\ \/ UNCHANGED wal
       \/ pc = "write" /\ wal' = [wal EXCEPT !.recs = Append(@, Torn)]
    /\ pc' = "down" /\ Forgotten
    /\ UNCHANGED <<sure, before, meta, metaBefore, history>>

\* What a power failure may leave of the file the directory shows.
CutShort(recs, n) ==
    {SubSeq(recs, 1, k) : k \in n .. Len(recs)}
        \union {Append(SubSeq(recs, 1, k), Torn) : k \in n .. Len(recs) - 1}

\* Out of order, a record is lost and a later one is not.
Holed(recs, n) ==
    {[i \in 1 .. Len(recs) |-> IF i = k THEN Torn ELSE recs[i]] : k \in n + 1 .. Len(recs)}

Images ==
    before \union {[v2 |-> wal.v2, recs |-> r] :
        r \in CutShort(wal.recs, sure)
              \union (IF OrderedWriteback THEN {} ELSE Holed(wal.recs, sure))}

MetaImages == metaBefore \union {meta}

PowerFails ==
    /\ RaftLogSpends("power", MaxPower)
    /\ wal' \in Images /\ meta' \in MetaImages
    /\ sure' = Len(wal'.recs)
    /\ before' = {} /\ metaBefore' = {}
    /\ pc' = "down" /\ Forgotten
    /\ UNCHANGED history

RaftLogNext ==
    \/ \E n \in 1 .. MaxBatch, t \in Terms : BeginAppend(n, t)
    \/ \E i \in Indices : BeginTruncate(i) \/ SaveCommitted(i)
    \/ \E id \in LogId : BeginPurge(id)
    \/ WriteRecord \/ SyncWal \/ Rewrite \/ RewriteSynced
    \/ \E v \in Terms : SaveVote(v)
    \/ WriteMeta \/ MetaSynced
    \/ OpenReads \/ OpenMigrates \/ OpenSynced \/ OpenCuts
    \/ Fails \/ Shutdown \/ RaftLogKill \/ PowerFails

RaftLogSpec == RaftLogInit /\ [][RaftLogNext]_raftLogVars

-----------------------------------------------------------------------------
(* Properties *)

\* Every variable has its type.
RaftLogTypeOK ==
    /\ wal.v2 \in BOOLEAN /\ sure \in 0 .. Len(wal.recs)
    /\ meta.vote \in 0 .. MaxTerm /\ vote \in 0 .. MaxTerm
    /\ {committed, written, meta.committed, frontier} \subseteq LogId \union {None}
    /\ pc \in {"down", "idle", "write", "sync", "compact", "compactSync", "meta", "metaSync",
               "drop", "dropSync", "openCut", "openMigrate", "openSync", "openCompact",
               "openCompactSync", "stopped", "refused"}
    /\ raftLogUsed \in [kills : 0 .. MaxKills, power : 0 .. MaxPower, faults : 0 .. MaxLogFaults]

\* Whatever a kill or a power failure leaves now, the next open finds what
\* every answered append, truncate and purge made of the log, and of the call
\* that was not answered at most a prefix of its records (append_sync,
\* rewrite_wal, replay).  A vote openraft was told is saved is never forgotten,
\* so that no node votes twice in a term after a crash (save_vote, write_meta).
AnsweredSurvives ==
    /\ \A image \in Images :
          /\ Readable(image.recs)
          /\ \E k \in 0 .. Len(pending.recs) :
                Replay(image.recs) = AppliedAll(promised.log, SubSeq(pending.recs, 1, k))
    /\ \A m \in MetaImages :
          m.vote \in {promised.vote, pending.vote} /\ m.vote >= promised.vote
    /\ \A image \in Images, m \in MetaImages : Covers(Replay(image.recs), m.committed)

\* What openraft asks of its storage: calls take effect whole and in order, a
\* crash keeps what was answered and at most a prefix of the call under way.
Storage == INSTANCE RaftLogStorage WITH
    log <- promised.log, vote <- promised.vote, call <- pending, known <- frontier

\* The WAL, its rewriting and meta.bin implement that storage.
KeepsContract == Storage!Spec
=============================================================================
