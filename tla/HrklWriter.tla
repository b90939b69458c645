----------------------------- MODULE HrklWriter -----------------------------
(***************************************************************************)
(* The write side of the HRKL v6 log (heraclitus-log, v6/engine.rs and     *)
(* v6/raw.rs): append, flush, seal and roll, the GroupCommit worker, the   *)
(* clean close, the process kill, the power failure, and the boot that     *)
(* recovers from them.                                                     *)
(*                                                                         *)
(* Every operation holds the one mutex of the engine (`lock_state`), so a  *)
(* second operation never interleaves with the first; a kill or a power    *)
(* failure does, between any two system calls.  `pc` is therefore the next *)
(* system call of the operation that holds the mutex.                      *)
(*                                                                         *)
(* A file keeps apart what the page cache holds and what the disk holds:   *)
(* a kill loses neither, a power failure loses the difference.  Record     *)
(* contents are write numbers; the LSN of a record is its position.        *)
(***************************************************************************)
EXTENDS Integers, Sequences, FiniteSets

CONSTANTS
    Policies,          \* the values of `always` to consider
    MaxSegs,           \* bound: segments ever opened
    MaxWrites,         \* bound: records ever written
    MaxCloses,         \* bound: clean closes
    MaxKills,          \* bound: process kills
    MaxPowerLosses,    \* bound: power failures
    MaxCrashes,        \* bound: kills and power failures together
    MaxFaults,         \* bound: failed system calls
    OrderedWriteback,  \* the unsynced bytes that survive a power failure are a prefix
    FsyncLosesPages,   \* a failed fsync drops its dirty pages (Linux)
    PowerLossExposed   \* the power may fail while what a restart adopted is unsynced

ASSUME ConstantsAssumption ==
    /\ Policies \subseteq BOOLEAN
    /\ {OrderedWriteback, FsyncLosesPages, PowerLossExposed} \subseteq BOOLEAN
    /\ MaxSegs \in Nat \ {0}
    /\ {MaxWrites, MaxCloses, MaxKills, MaxPowerLosses, MaxCrashes, MaxFaults} \subseteq Nat

Segs == 0 .. MaxSegs - 1
None == -1

VARIABLES
    always,     \* FsyncPolicy::Always, or else GroupCommit; drawn at the start
    files,      \* the segments directory, one file per segment id
    hrkm,       \* the manifest CURRENT names on disk: the range of each sealed segment
    manifest,   \* V6State.manifest
    active,     \* V6State.active: the segment being written, or None
    nextLsn,    \* V6State.next_lsn
    dirty,      \* V6State.dirty
    syncError,  \* V6State.sync_error.is_some()
    pending,    \* V6State.ativo_pendente: the segment still to be created, or None
    degraded,   \* V6State.degradado.is_some()
    poisoned,   \* RawSegmentWriter.envenenado of the active writer
    mode,       \* "up", "down", "boot", or "refused": the boot returned an error
    op,         \* the operation that holds the mutex
    pc,         \* its next system call
    target,     \* the segment it creates or seals
    resume,     \* where it continues once `target` is created
    acked,      \* history: number of records whose append returned Ok
    promised,   \* history: number of records some caller was told are durable
    used        \* how much of each bound is spent

disk    == <<files, hrkm>>
memory  == <<manifest, active, nextLsn, dirty, syncError, pending, degraded, poisoned>>
control == <<mode, op, pc, target, resume>>
answers == <<acked, promised>>
vars    == <<always, disk, memory, control, answers, used>>

-----------------------------------------------------------------------------
(* Files *)

NoFile == [name |-> "none", dname |-> "none", hdr |-> "stub", base |-> 0, recs |-> << >>,
           durable |-> 0, lost |-> 0, footer |-> "none", tail |-> "none",
           adopted |-> FALSE]

(* name   the directory entry the running system sees; dname the one on disk *)
(* hdr    "stub": shorter than a header                                       *)
(* lost   first record whose dirty page a failed fsync dropped, 0 if none     *)
(* tail   bytes after the last whole record: an interrupted write ("torn") or *)
(*        a frame that fits in the file and is not intact ("hole")            *)
(* adopted  a boot took the file over from the page cache without an fsync    *)
File == [name : {"none", "active", "raw"}, dname : {"none", "active", "raw"},
         hdr : {"stub", "cached", "durable"}, base : 0 .. MaxWrites,
         recs : UNION {[1 .. n -> 1 .. MaxWrites] : n \in 0 .. MaxWrites},
         durable : 0 .. MaxWrites, lost : 0 .. MaxWrites,
         footer : {"none", "cached", "durable"}, tail : {"none", "torn", "hole"},
         adopted : BOOLEAN]

Exists(s) == files[s].name # "none"
RangeOf(f) == [first |-> f.base, count |-> Len(f.recs)]
\* Mutant of LsnAfter: the next LSN is one past the end.
LsnAfterPlusOne(m) == IF m = << >> THEN 0 ELSE m[Len(m)].first + m[Len(m)].count + 1

LsnAfter(m) == IF m = << >> THEN 0 ELSE m[Len(m)].first + m[Len(m)].count

\* file.sync_data(): everything reaches the disk, except pages already dropped.
Synced(f) ==
    [f EXCEPT !.durable = IF f.lost = 0 THEN Len(f.recs) ELSE f.lost - 1,
              !.hdr = "durable",
              !.footer = IF @ = "none" THEN "none" ELSE "durable"]

\* A failed sync_data: nothing is known to reach the disk, and the kernel may
\* already have forgotten that the pages were dirty.
SyncFailed(f) ==
    {f} \cup IF FsyncLosesPages /\ f.lost = 0 /\ f.durable < Len(f.recs)
             THEN {[f EXCEPT !.lost = f.durable + 1]} ELSE {}

\* sync_parent_dir: every directory entry becomes durable.
DirSynced(fs) == [s \in Segs |-> [fs[s] EXCEPT !.dname = fs[s].name]]

\* A footer seals a file when the scan of its records reaches it.
Sealed(f) == f.footer # "none" /\ f.tail = "none"

Content(f) == IF f.name = "none" THEN << >> ELSE f.recs

\* LogBelow(fs)[n]: the records in the files of segments 0 .. n - 1, in LSN order.
LogBelow(fs) ==
    LET below[n \in 0 .. MaxSegs] ==
            IF n = 0 THEN << >> ELSE below[n - 1] \o Content(fs[n - 1])
    IN below

\* What a reader of the directory finds, and how much of it no power failure
\* can take.
DiskLog == LogBelow(files)[MaxSegs]
DurableLen ==
    LET upTo[s \in -1 .. MaxSegs - 1] ==
            IF s = -1 THEN 0
            ELSE upTo[s - 1] + (IF Exists(s) THEN files[s].durable ELSE 0)
    IN upTo[MaxSegs - 1]

-----------------------------------------------------------------------------
Init ==
    /\ always \in Policies
    /\ files = [s \in Segs |-> NoFile]
    /\ hrkm = << >> /\ manifest = << >>
    /\ active = None /\ nextLsn = 0
    /\ dirty = FALSE /\ syncError = FALSE
    /\ pending = None /\ degraded = FALSE /\ poisoned = FALSE
    /\ mode = "down" /\ op = "none" /\ pc = "idle" /\ target = None /\ resume = "idle"
    /\ acked = 0 /\ promised = 0
    /\ used = [writes |-> 0, closes |-> 0, kills |-> 0, powerLosses |-> 0, faults |-> 0]

Spend(what, bound) == used[what] < bound /\ used' = [used EXCEPT ![what] = @ + 1]

\* A system call of a running operation fails.
Fault == mode = "up" /\ Spend("faults", MaxFaults)
NoFault == UNCHANGED used

Goto(next) == pc' = next /\ UNCHANGED <<mode, op, target, resume>>
Return == pc' = "idle" /\ op' = "none" /\ UNCHANGED <<mode, target, resume>>

-----------------------------------------------------------------------------
(* An operation takes the mutex; lock_state refuses after a failed fsync. *)

Lock(o, first) ==
    /\ mode = "up" /\ pc = "idle" /\ ~syncError
    /\ op' = o /\ pc' = first
    /\ UNCHANGED <<disk, memory, mode, target, resume, answers, used>>

HasRecords == active # None /\ files[active].recs # << >>
MayRoll == HasRecords => active + 1 \in Segs

\* Whether the segment is full depends on the sizes of its records.
BeginAppend ==
    /\ used.writes < MaxWrites
    /\ \/ Lock("append", "write")
       \/ HasRecords /\ MayRoll /\ Lock("append", "seal")

\* After a failed fsync every call is answered with an error.
LockRefused ==
    /\ mode = "up" /\ pc = "idle" /\ syncError
    /\ UNCHANGED vars

BeginFlush == Lock("flush", "flush")
BeginSeal == MayRoll /\ Lock("seal", "seal")

-----------------------------------------------------------------------------
(* repor_ativo, then create_active and RawSegmentWriter::create *)

NeedsActive == mode = "up" /\ pc \in {"write", "flush", "seal", "sealed"} /\ active = None

RestoreRefused ==
    /\ NeedsActive
    /\ degraded \/ pending = None
    /\ Return
    /\ UNCHANGED <<disk, memory, answers, used>>

\* A leftover of an earlier attempt is removed.  It never holds a record
\* (EngineMatchesDisk), so the branch that degrades the engine is not taken.
RestoreActive ==
    /\ NeedsActive /\ ~degraded /\ pending # None
    /\ \/ /\ files' = [files EXCEPT ![pending].name = "none"]
          /\ target' = pending /\ resume' = IF pc = "sealed" THEN "idle" ELSE pc
          /\ pc' = "create" /\ UNCHANGED <<mode, op>>
          /\ NoFault
       \/ Exists(pending) /\ Fault /\ Return /\ UNCHANGED files
    /\ UNCHANGED <<hrkm, memory, answers>>

CreateNew ==
    /\ pc = "create"
    /\ \/ /\ files' = [files EXCEPT ![target] =
                [NoFile EXCEPT !.name = "active", !.dname = files[target].dname,
                               !.base = nextLsn]]
          /\ Goto("header") /\ NoFault
       \/ Fault /\ Return /\ UNCHANGED files
    /\ UNCHANGED <<hrkm, memory, answers>>

WriteHeader ==
    /\ pc = "header"
    /\ \/ files' = [files EXCEPT ![target].hdr = "cached"] /\ Goto("hsync") /\ NoFault
       \/ Fault /\ Return /\ UNCHANGED files
    /\ UNCHANGED <<hrkm, memory, answers>>

\* sync_data and sync_parent_dir; the writer exists once both returned.
SyncHeader ==
    /\ pc = "hsync"
    /\ \/ /\ files' = DirSynced([files EXCEPT ![target].hdr = "durable"])
          /\ active' = target /\ pending' = None /\ poisoned' = FALSE
          /\ mode' = "up" /\ pc' = resume /\ op' = IF resume = "idle" THEN "none" ELSE op
          /\ NoFault
          /\ UNCHANGED <<target, resume>>
       \/ /\ Fault /\ Return
          /\ files' \in {files, [files EXCEPT ![target].hdr = "durable"]}
          /\ UNCHANGED <<active, pending, poisoned>>
    /\ UNCHANGED <<hrkm, manifest, nextLsn, dirty, syncError, degraded, answers>>

-----------------------------------------------------------------------------
(* seal_active_locked and selar_e_publicar *)

\* An empty segment is discarded and created again under the same id.
SealEmpty ==
    /\ mode = "up" /\ pc = "seal" /\ active # None /\ files[active].recs = << >>
    /\ active' = None
    /\ \/ /\ files' = [files EXCEPT ![active].name = "none"]
          /\ target' = active /\ resume' = "idle" /\ pc' = "create"
          /\ UNCHANGED <<mode, op>> /\ NoFault
       \/ Fault /\ Return /\ UNCHANGED files
    /\ UNCHANGED <<hrkm, manifest, nextLsn, dirty, syncError, pending, degraded, poisoned, answers>>

\* `state.active.take()`, and the writer's refusal to seal garbage.
SealTake ==
    /\ mode = "up" /\ pc = "seal" /\ HasRecords
    /\ active' = None
    /\ degraded' = poisoned
    /\ target' = active
    /\ pc' = IF poisoned THEN "idle" ELSE "footer"
    /\ op' = IF poisoned THEN "none" ELSE op
    /\ UNCHANGED <<disk, manifest, nextLsn, dirty, syncError, pending, poisoned, mode, resume,
                   answers, used>>

\* Any failure between the take and the commit leaves the engine degraded.
SealFails ==
    /\ Fault /\ Return
    /\ degraded' = TRUE
    /\ UNCHANGED <<manifest, active, nextLsn, dirty, syncError, pending, poisoned, answers>>

SealStep(at, sealedFiles, failedFiles, next) ==
    /\ pc = at
    /\ \/ /\ files' = sealedFiles /\ Goto(next) /\ NoFault
          /\ UNCHANGED <<memory, answers>>
       \/ SealFails /\ files' \in failedFiles
    /\ UNCHANGED hrkm

WriteFooter ==
    SealStep("footer", [files EXCEPT ![target].footer = "cached"],
             {files, [files EXCEPT ![target].tail = "torn"]}, "fsync")

SyncFooter ==
    SealStep("fsync", [files EXCEPT ![target] = Synced(@)],
             {[files EXCEPT ![target] = f] : f \in SyncFailed(files[target])}, "rename")

RenameSealed ==
    SealStep("rename", [files EXCEPT ![target].name = "raw"], {files}, "dirsync")

\* Mutant of SyncSealedDir: the rename is not made durable.
SyncSealedDirSkipped == SealStep("dirsync", files, {files}, "commit")

SyncSealedDir == SealStep("dirsync", DirSynced(files), {files}, "commit")

\* ManifestStore::commit: an error may come after CURRENT was already swapped.
CommitSeal ==
    /\ pc = "commit" /\ mode = "up"
    /\ LET published == Append(manifest, RangeOf(files[target])) IN
       \/ /\ manifest' = published /\ hrkm' = published
          /\ dirty' = FALSE /\ pending' = target + 1
          /\ Goto(IF op = "append" THEN "write" ELSE "sealed") /\ NoFault
          /\ UNCHANGED <<active, nextLsn, syncError, degraded, poisoned, answers>>
       \/ SealFails /\ hrkm' \in {hrkm, published}
    /\ UNCHANGED files

-----------------------------------------------------------------------------
(* append_inner_locked: the record, then the fsync when it is due *)

WriteRefused ==
    /\ mode = "up" /\ pc = "write" /\ active # None
    /\ poisoned \/ nextLsn # files[active].base + Len(files[active].recs)
    /\ Return
    /\ UNCHANGED <<disk, memory, answers, used>>

\* Mutant of WriteRecord: a deferred fsync is not remembered in `dirty`.
WriteRecordNotDirty ==
    /\ mode = "up" /\ pc = "write" /\ active # None /\ ~poisoned
    /\ nextLsn = files[active].base + Len(files[active].recs)
    /\ Spend("writes", MaxWrites)
    /\ files' = [files EXCEPT ![active].recs = Append(@, used.writes + 1)]
    /\ nextLsn' = nextLsn + 1 /\ acked' = nextLsn + 1
    /\ Return
    /\ UNCHANGED <<hrkm, manifest, active, dirty, syncError, pending, degraded, poisoned, promised>>

WriteRecord ==
    /\ mode = "up" /\ pc = "write" /\ active # None /\ ~poisoned
    /\ nextLsn = files[active].base + Len(files[active].recs)
    /\ Spend("writes", MaxWrites)
    /\ files' = [files EXCEPT ![active].recs = Append(@, used.writes + 1)]
    /\ \/ /\ Goto("wsync")
          /\ UNCHANGED <<nextLsn, dirty, acked>>
       \/ /\ ~always
          /\ nextLsn' = nextLsn + 1 /\ dirty' = TRUE /\ acked' = nextLsn + 1
          /\ Return
    /\ UNCHANGED <<hrkm, manifest, active, syncError, pending, degraded, poisoned, promised>>

\* Mutant of WriteFails: a cut that fails does not poison the writer.
WriteFailsNotPoisoned ==
    /\ pc = "write" /\ active # None /\ ~poisoned
    /\ Fault /\ Return
    /\ files' \in {files, [files EXCEPT ![active].tail = "torn"]}
    /\ UNCHANGED <<hrkm, memory, answers>>

\* A partial write is cut back (reverter_cauda); if the cut fails too, the
\* writer refuses to write or seal until a boot repairs the tail.
WriteFails ==
    /\ pc = "write" /\ active # None /\ ~poisoned
    /\ Fault /\ Return
    /\ \/ UNCHANGED <<files, poisoned>>
       \/ files' = [files EXCEPT ![active].tail = "torn"] /\ poisoned' = TRUE
    /\ UNCHANGED <<hrkm, manifest, active, nextLsn, dirty, syncError, pending, degraded, answers>>

\* Mutant of SyncAppend: the caller is answered before the fsync.
SyncAppendAnswersFirst ==
    /\ mode = "up" /\ pc = "wsync"
    /\ nextLsn' = nextLsn + 1 /\ acked' = nextLsn + 1
    /\ promised' = IF always THEN nextLsn + 1 ELSE promised
    /\ Return
    /\ UNCHANGED <<disk, manifest, active, dirty, syncError, pending, degraded, poisoned, used>>

SyncAppend ==
    /\ mode = "up" /\ pc = "wsync"
    /\ \/ /\ files' = [files EXCEPT ![active] = Synced(@)]
          /\ dirty' = FALSE /\ nextLsn' = nextLsn + 1 /\ acked' = nextLsn + 1
          /\ promised' = IF always THEN nextLsn + 1 ELSE promised
          /\ NoFault /\ UNCHANGED syncError
       \/ /\ Fault /\ syncError' = TRUE
          /\ \E f \in SyncFailed(files[active]) : files' = [files EXCEPT ![active] = f]
          /\ UNCHANGED <<dirty, nextLsn, answers>>
    /\ Return
    /\ UNCHANGED <<hrkm, manifest, active, pending, degraded, poisoned>>

\* Mutant of SyncFlush: `dirty` is cleared and the caller answered before the fsync.
SyncFlushAnswersFirst ==
    /\ mode = "up" /\ pc = "flush" /\ active # None
    /\ dirty' = FALSE /\ promised' = nextLsn
    /\ Return
    /\ UNCHANGED <<disk, manifest, active, nextLsn, syncError, pending, degraded, poisoned,
                   acked, used>>

\* A failed fsync is returned to the caller and changes nothing else.
SyncFlush ==
    /\ mode = "up" /\ pc = "flush" /\ active # None
    /\ \/ /\ files' = [files EXCEPT ![active] = Synced(@)]
          /\ dirty' = FALSE /\ promised' = nextLsn /\ NoFault
       \/ /\ Fault
          /\ \E f \in SyncFailed(files[active]) : files' = [files EXCEPT ![active] = f]
          /\ UNCHANGED <<dirty, promised>>
    /\ Return
    /\ UNCHANGED <<hrkm, manifest, active, nextLsn, syncError, pending, degraded, poisoned, acked>>

-----------------------------------------------------------------------------
(* The hrkl-v6-fsync thread of GroupCommit, between operations *)

WorkerDue == mode = "up" /\ pc = "idle" /\ ~always /\ ~syncError /\ dirty

NothingToSync == active = None /\ (pending # None \/ degraded)

WorkerSkips ==
    /\ WorkerDue /\ NothingToSync
    /\ dirty' = FALSE
    /\ UNCHANGED <<disk, manifest, active, nextLsn, syncError, pending, degraded, poisoned,
                   control, answers, used>>

WorkerSyncs ==
    /\ WorkerDue /\ active # None
    /\ files' = [files EXCEPT ![active] = Synced(@)]
    /\ dirty' = FALSE
    /\ UNCHANGED <<hrkm, manifest, active, nextLsn, syncError, pending, degraded, poisoned,
                   control, answers, used>>

WorkerFails ==
    /\ WorkerDue /\ ~NothingToSync
    /\ IF active = None THEN UNCHANGED <<files, used>>
       ELSE /\ Fault
            /\ \E f \in SyncFailed(files[active]) : files' = [files EXCEPT ![active] = f]
    /\ syncError' = TRUE
    /\ UNCHANGED <<hrkm, manifest, active, nextLsn, dirty, pending, degraded, poisoned,
                   control, answers>>

-----------------------------------------------------------------------------
(* The end of a process *)

MemoryLost ==
    /\ manifest' = << >> /\ active' = None /\ nextLsn' = 0
    /\ dirty' = FALSE /\ syncError' = FALSE
    /\ pending' = None /\ degraded' = FALSE /\ poisoned' = FALSE
    /\ mode' = "down" /\ op' = "none" /\ pc' = "idle" /\ target' = None /\ resume' = "idle"

\* Drop: the worker runs once more, joined by the closing thread.
Close ==
    /\ mode = "up" /\ pc = "idle"
    /\ Spend("closes", MaxCloses)
    /\ \/ WorkerDue /\ active # None /\ files' = [files EXCEPT ![active] = Synced(@)]
       \/ ~(WorkerDue /\ active # None) /\ UNCHANGED files
    /\ MemoryLost
    /\ UNCHANGED <<hrkm, answers>>

\* A kill may interrupt the write it finds in flight.
Kill ==
    /\ mode \in {"up", "boot"}
    /\ Spend("kills", MaxKills)
    /\ \/ UNCHANGED files
       \/ pc = "write" /\ active # None /\ files' = [files EXCEPT ![active].tail = "torn"]
       \/ pc = "footer" /\ files' = [files EXCEPT ![target].tail = "torn"]
    /\ MemoryLost
    /\ UNCHANGED <<hrkm, answers>>

(* What the disk may hold of a file, under name n and with k records, once  *)
(* the power is back: a footer that was only cached may be gone, and bytes  *)
(* that were not synced may be cut short or, out of order, be garbage.      *)
Survivor(f, n, k, footer, tail) ==
    [f EXCEPT !.name = n, !.dname = n, !.hdr = "durable",
              !.recs = SubSeq(@, 1, k), !.durable = k, !.lost = 0,
              !.footer = footer, !.tail = tail, !.adopted = FALSE]

FooterSurvivors(f, k) ==
    IF f.footer # "cached" THEN {f.footer}
    ELSE {"none"} \cup IF k = Len(f.recs) /\ f.tail = "none" THEN {"durable"} ELSE {}

TailSurvivors(f, k, footer) ==
    IF k = Len(f.recs) /\ footer # "none" THEN {f.tail}
    ELSE IF k = Len(f.recs) THEN {"none", f.tail} \cup IF f.footer = "cached" THEN {"torn"} ELSE {}
    ELSE IF footer # "none" THEN {"hole"}
    ELSE {"none", "torn"} \cup IF OrderedWriteback /\ f.lost = 0 THEN {} ELSE {"hole"}

WithHeader(f, n) ==
    LET ks == f.durable .. IF f.lost = 0 THEN Len(f.recs) ELSE f.lost - 1
    IN UNION {{Survivor(f, n, kf[1], kf[2], t) : t \in TailSurvivors(f, kf[1], kf[2])} :
                  kf \in {x \in ks \X {"none", "durable"} : x[2] \in FooterSurvivors(f, x[1])}}

Survivors(f) ==
    UNION {IF n = "none" THEN {NoFile}
           ELSE (IF f.hdr = "durable" THEN {}
                 ELSE {[NoFile EXCEPT !.name = n, !.dname = n, !.base = f.base]})
                \cup (IF f.hdr = "stub" THEN {} ELSE WithHeader(f, n))
           : n \in {f.name, f.dname}}

OnDisk(f) ==
    /\ f.dname = f.name
    /\ f.name = "raw" => f.footer = "durable" /\ f.durable = Len(f.recs)

(* What only a restart leaves behind: a boot promotes, catalogues or        *)
(* resumes what it finds in the page cache and syncs none of it, so the     *)
(* file, its footer or its directory entry may not be on the disk.          *)
Exposed(s) == files[s].adopted /\ ~OnDisk(files[s])

PowerLoss ==
    /\ PowerLossExposed \/ \A s \in Segs : ~Exposed(s)
    /\ Spend("powerLosses", MaxPowerLosses)
    /\ files' \in {fs \in [Segs -> UNION {Survivors(files[s]) : s \in Segs}] :
                      \A s \in Segs : fs[s] \in Survivors(files[s])}
    /\ acked' = IF acked < Len(DiskLog') THEN acked ELSE Len(DiskLog')
    /\ MemoryLost
    /\ UNCHANGED <<hrkm, promised>>

\* The operating system writes such a file back in its own time.
Writeback(s) ==
    /\ Exposed(s)
    /\ files' = [files EXCEPT ![s] = [Synced(@) EXCEPT !.dname = files[s].name]]
    /\ UNCHANGED <<hrkm, memory, control, answers, used>>

-----------------------------------------------------------------------------
(* V6Log::open *)

Contiguous(m) ==
    \A i \in DOMAIN m :
        m[i].count > 0 /\ m[i].first = LsnAfter(SubSeq(m, 1, i - 1))

\* validate_catalogued_generations, restricted to the RAW generations.
CatalogueFound(m, fs) ==
    \A i \in DOMAIN m :
        /\ fs[i - 1].name = "raw" /\ fs[i - 1].footer # "none"
        /\ RangeOf(fs[i - 1]) = m[i]

Stubs == {s \in Segs : files[s].name = "active" /\ files[s].hdr = "stub"}
Tails == {s \in Segs : files[s].name = "active" /\ files[s].hdr # "stub"}

\* RAW files the catalogue does not name: renamed, but never published.
Orphans == {s \in Segs : files[s].name = "raw" /\ s >= Len(hrkm)}

\* reconcile_raw adds the orphans in the order of their ids.
Reconciled ==
    LET ids == CHOOSE ids \in [1 .. Cardinality(Orphans) -> Orphans] :
                   \A i, j \in DOMAIN ids : i < j => ids[i] < ids[j]
    IN hrkm \o [i \in DOMAIN ids |-> RangeOf(files[ids[i]])]

BootAccepts ==
    /\ Cardinality(Tails) <= 1
    /\ \A s \in Orphans : Sealed(files[s])
    /\ Contiguous(Reconciled)
    /\ CatalogueFound(Reconciled, files)

\* Stubs are removed first, then the catalogue is checked against the files.
BootScan ==
    /\ mode = "down"
    /\ files' = [s \in Segs |->
                    IF s \in Stubs THEN [files[s] EXCEPT !.name = "none"]
                    ELSE [files[s] EXCEPT !.adopted = @ \/ (s \in Orphans /\ ~OnDisk(files[s]))]]
    /\ IF BootAccepts
       THEN /\ mode' = "boot" /\ manifest' = Reconciled
            /\ pc' = IF \E s \in Tails : Sealed(files[s]) THEN "promote"
                     ELSE IF Reconciled # hrkm THEN "publish" ELSE "tail"
       ELSE mode' = "refused" /\ UNCHANGED <<manifest, pc>>
    /\ UNCHANGED <<hrkm, active, nextLsn, dirty, syncError, pending, degraded, poisoned,
                   op, target, resume, answers, used>>

\* An active file that already has its footer is renamed and catalogued.
BootPromote ==
    /\ mode = "boot" /\ pc = "promote"
    /\ \E s \in Tails :
        /\ files' = [files EXCEPT ![s].name = "raw", ![s].adopted = TRUE]
        /\ manifest' = Append(manifest, RangeOf(files[s]))
    /\ Goto("publish")
    /\ UNCHANGED <<hrkm, active, nextLsn, dirty, syncError, pending, degraded, poisoned,
                   answers, used>>

BootPublish ==
    /\ mode = "boot" /\ pc = "publish"
    /\ hrkm' = manifest
    /\ IF Contiguous(manifest) THEN Goto("tail")
       ELSE mode' = "refused" /\ UNCHANGED <<op, pc, target, resume>>
    /\ UNCHANGED <<files, memory, answers, used>>

\* repair_active_tail and resume.  Only a torn tail is cut, and only the cut
\* is followed by an fsync.
BootTail ==
    /\ mode = "boot" /\ pc = "tail"
    /\ \E s \in Tails :
        /\ IF files[s].tail # "hole" /\ files[s].base = LsnAfter(manifest)
           THEN /\ files' = [files EXCEPT ![s] =
                    [IF @.tail = "none" THEN @ ELSE [Synced(@) EXCEPT !.tail = "none"]
                     EXCEPT !.adopted = ~OnDisk(files[s])]]
                /\ active' = s
                /\ nextLsn' = files[s].base + Len(files[s].recs)
                /\ mode' = "up"
           ELSE mode' = "refused" /\ UNCHANGED <<files, active, nextLsn>>
        /\ pc' = "idle"
    /\ UNCHANGED <<hrkm, manifest, dirty, syncError, pending, degraded, poisoned,
                   op, target, resume, answers, used>>

BootCreates ==
    /\ mode = "boot" /\ pc = "tail" /\ Tails = {}
    /\ nextLsn' = LsnAfter(manifest)
    /\ target' = Len(manifest) /\ resume' = "idle" /\ pc' = "create"
    /\ UNCHANGED <<disk, manifest, active, dirty, syncError, pending, degraded, poisoned,
                   mode, op, answers, used>>

-----------------------------------------------------------------------------
Restore   == RestoreRefused \/ RestoreActive
Create    == CreateNew \/ WriteHeader \/ SyncHeader
Seal      == SealEmpty \/ SealTake \/ WriteFooter \/ SyncFooter \/ RenameSealed
                \/ SyncSealedDir \/ CommitSeal
Write     == WriteRefused \/ WriteRecord \/ WriteFails \/ SyncAppend
Operation == Restore \/ Create \/ Seal \/ Write \/ SyncFlush
Worker    == WorkerSkips \/ WorkerSyncs \/ WorkerFails
Boot      == BootScan \/ BootPromote \/ BootPublish \/ BootTail \/ BootCreates
Begin     == BeginAppend \/ BeginFlush \/ BeginSeal \/ LockRefused
Crash     == used.kills + used.powerLosses < MaxCrashes /\ (Kill \/ PowerLoss)

Next ==
    /\ UNCHANGED always
    /\ Begin \/ Operation \/ Worker \/ Boot \/ Close \/ Crash \/ \E s \in Segs : Writeback(s)

\* Whoever holds the mutex goes on, the boot goes on, and the worker wakes up.
Fairness ==
    /\ WF_vars(Operation /\ UNCHANGED always)
    /\ WF_vars(Boot /\ UNCHANGED always)
    /\ WF_vars(Worker /\ UNCHANGED always)

Spec == Init /\ [][Next]_vars
FairSpec == Spec /\ Fairness

-----------------------------------------------------------------------------
(* Properties *)

TypeOK ==
    /\ files \in [Segs -> File]
    /\ {hrkm, manifest} \subseteq Seq([first : 0 .. MaxWrites, count : 1 .. MaxWrites])
    /\ Len(hrkm) <= MaxSegs /\ Len(manifest) <= MaxSegs
    /\ active \in Segs \cup {None} /\ pending \in Segs \cup {None}
    /\ target \in Segs \cup {None}
    /\ nextLsn \in 0 .. MaxWrites
    /\ {dirty, syncError, degraded, poisoned} \subseteq BOOLEAN
    /\ mode \in {"up", "down", "boot", "refused"}
    /\ op \in {"none", "append", "flush", "seal"}
    /\ acked \in 0 .. MaxWrites /\ promised \in 0 .. MaxWrites

(* No sequence of faults, kills and power failures brings the directory to  *)
(* a state the next boot refuses.                                           *)
BootNeverRefuses == mode # "refused"

(* What the engine goes by is so on the disk.  A healthy engine hands out   *)
(* the LSN the active writer expects, and every record on the disk is below *)
(* it: no LSN can be given twice.  Garbage after the last record is known   *)
(* to the writer, which would otherwise put the next, answered, record      *)
(* after it.  The file under the pending name, which repor_ativo deletes,   *)
(* holds no record and is not a sealed one.                                 *)
EngineMatchesDisk ==
    mode = "up" =>
        /\ pc = "idle" /\ ~syncError /\ ~degraded =>
              /\ nextLsn = Len(DiskLog)
              /\ active # None => nextLsn = files[active].base + Len(files[active].recs)
        /\ active # None /\ files[active].tail # "none" => poisoned
        /\ pending # None /\ Exists(pending) =>
              files[pending].recs = << >> /\ files[pending].name = "active"

(* Without an active segment the engine either says why it refuses writes   *)
(* or can create the next segment (the doc of repor_ativo).                 *)
SomeWayForward ==
    mode = "up" /\ pc = "idle" /\ active = None => degraded \/ pending # None

(* GroupCommit: what was answered is eventually durable even if nothing     *)
(* more is written, unless the engine says that it cannot be.               *)
Halted == mode # "up" \/ syncError \/ degraded \/ poisoned
IdleTailSynced ==
    \A n \in 1 .. MaxWrites : acked >= n ~> DurableLen >= n \/ Halted

(* The same, restarts included: a restarted engine is not halted, and what  *)
(* it recovered is part of its tail.                                        *)
ReopenedTailSynced ==
    \A n \in 1 .. MaxWrites :
        acked >= n ~> DurableLen >= n \/ mode = "refused" \/ syncError \/ degraded \/ poisoned

(* The engine keeps the promises of DurableLog.                             *)
Log == INSTANCE DurableLog WITH Writes <- 1 .. MaxWrites, durable <- always,
                                log <- DiskLog, acked <- acked, promised <- promised
KeepsPromises == Log!Spec

(* What a caller was told is durable is on the disk.                        *)
PromisesHeld == Log!PromisesHeld
=============================================================================
