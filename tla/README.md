# HeraclitusDB, formally

HeraclitusDB is an event database. Everything it knows is an append-only log of
*episodes*; every index, view or answer is derived from that log and can be
rebuilt from it. If the log loses an answered episode, gives one LSN twice,
reorders, or cannot be opened after a crash, nothing above it can repair that.
These modules therefore start at the log and go outwards: the write side of the
HRKL v6 format, the life of its sealed segments, the directory of manifests
both rely on; the raft log and the replicated state machine; then what stands
on the log: derived views and their erasure, idempotent submissions, the
journal of destructive administration, approvals of tool calls, legal holds,
and the sentinel that reads the log and writes back to it.

Paths below are relative to `src/crates/`.

## 1. The system

### Components, their state, their operations

| Component | Keeps | Operations that change it | What must hold |
|---|---|---|---|
| Write side, `heraclitus-log/src/v6/{engine,raw}.rs`, `rasgo.rs` | active segment, next LSN, `dirty`, `sync_error`, `degradado`, `ativo_pendente`, the manifest in memory | append, flush, seal and roll, GroupCommit worker, close, boot | one record per LSN; an answered record survives what its answer promises; the boot accepts whatever a crash leaves |
| Sealed generations, `v6/{engine,gc,packer,receipts}.rs` | descriptor of each segment, files of its generations, receipts, pins, cache of open readers | pack, quarantine, retention, GC, read, boot | a catalogued segment always has a readable authority; a pinned file stays; files outlive the catalogue |
| Manifest store, `v6/manifest.rs` | manifest files, `CURRENT`, the next number | commit, load, prune | a boot finds the last answered manifest; `CURRENT` resolves |
| Replicated state machine, `heraclitus-raft/src/consensus.rs` | episode log, `sm_meta.bin`, `SmState`, current snapshot | apply, build and install a snapshot, open | all nodes hold prefixes of one stamped sequence; nothing is applied twice or lost |
| Legal holds, `heraclitus-compliance/src/regulatory.rs`, GC task in `heraclitus-server/src/lib.rs` | holds (in the log), flags (in the HRKM) | place, release, reconcile, GC pass | nothing under a hold is collected; the flags end up saying what the log says |
| Durable raft log, `heraclitus-raft/src/durable.rs` | WAL of inserts, truncations and purges; `meta.bin` with vote and commit index | append, truncate, purge, vote, committed, rewriting, open, migration | what was answered is read back; what was purged or truncated does not return; a crash leaves a prefix of the call under way |
| Administrative journal, `heraclitus-server/src/trusted_admin.rs` | intents and results in the log, the journal in memory | execute, retry, reconcile, recover | an effect runs at most once; an outcome told is never another later; no boot refuses its own journal |
| Submission, `heraclitus-server/src/{engine,cluster}.rs` | lock per key, attribute index, queue and permits, proposals under way | append_idempotent, submit, propose, answer, time out | one episode per key; an answer names an agreed episode |
| Derived state, `heraclitus-server/src/engine.rs`, `heraclitus-views`, `heraclitus-index-attr`, `heraclitus-crypto` | views, attribute index, their snapshots and watermarks, keys, marks | append and index, checkpoint, rebuild, three boots, crypto-shred | a checkpoint covers its watermark; nothing of a destroyed key is served; scans never abort |
| Tool calls, `heraclitus-agent/src/action.rs`, `heraclitus-agent-gateway/src/{gateway,api}.rs` | approvals in memory, evidence in the log | consume, request, decide, expire, authorise, forward, warm | an approval is for one subject and is used once; no effect without its record |
| Sentinel, `heraclitus-sentinel/src/{lib,queue,subscriber,cursor}.rs`, `state/` | queue, cursor, window of derived sources, snapshot | notify, catch up, derive, commit, capture, publish, boot | every raw row derived exactly once; a strict boot is not refused by a kill |
| B-epsilon tree, `heraclitus-btree/src/lib.rs`, and its one user, the checkpoint of the H-VM ledger (`engine.rs`, `rest.rs`, `heraclitus-log/src/vm_bridge.rs`) | pages in one file, two superblocks, free list, pages of this epoch; `hvm.tmp` and `hvm.hbt` | upsert, delete, commit, open; checkpoint | a crash opens the last committed map; no page has two roles; the checkpoint is replaced whole |
| Tier, memtable | derived or external state | demote, apply, prune, flush | nothing hot is removed before its receipt; replay is deterministic |
| Query, indexes, retrieval, analytics, GPU, HUME, case, content, forensic, CLI, clients | none of their own, or derived | — | pure functions of a snapshot of the log |

### How they interact

* All writes of one base meet in the mutex of `V6State`. Appends, seals,
  catalogue changes and the decision which generation a reader opens hold it;
  packing, unlinking and opening files do not. `packing_lock` excludes packing
  and collecting from each other.
* Every catalogue change is a commit of the manifest store. The engine puts its
  memory back when a commit fails, although the disk may already have moved on.
* Under replication the state machine is the only writer of the log: the leader
  proposes, openraft commits, every node applies through `append_replicated`.
* A legal hold is an episode, written through the same log; its flags are a
  derived copy in the catalogue, read by the collection.
* An append in the server takes the shared side of `index_gate` from its LSN
  until views and index have it; checkpoints, rebuilds and shreds take the
  exclusive side. The apply hook of a cluster does not.
* An idempotent append looks its key up in the attribute index, so it depends
  on a boot having rebuilt that index (`attr_incompleto` makes it refuse).
* Destructive administration runs inside `TrustedAdminProtocol::execute`, whose
  records are episodes; so are approvals, evidence and the sentinel's events.
  Each of these keeps a memory of what the log says and must agree with it
  after a restart.
* The boot is the meeting point of all of it: it reconciles the directory of
  segments with the manifest, repairs the tail, and refuses what it cannot
  explain.

### What is hard

Crashes and power failures between any two system calls; failed system calls
with half an effect (an fsync that fails after the write, a commit that fails
after the swap of `CURRENT`); readers and collectors outside the mutex; state
read under one lock and used under another; entries and snapshots that arrive
again after a restart; a collection racing whoever wants to keep the bytes.
`PROJECT.json` lists each at its line under `hazards`, with the property that
would catch it, or a note saying why none does yet.

## 2. The modules

| Module | Models |
|---|---|
| `DurableLog` | abstract: what the log promises its callers, no segments, no fsync |
| `HrklWriter` | the write side, system call by system call; implements `DurableLog` |
| `HrklGenerations` | packing, quarantine, retention, collection and reading of sealed segments |
| `ManifestStore` | renames, directory syncs and pruning of the manifests |
| `RaftLogRecords` | the raft log as data: what a WAL record makes of it |
| `RaftLogStorage` | abstract: what raft needs of its storage, no files |
| `FileRaftLog` | WAL and `meta.bin`, system call by system call; implements `RaftLogStorage` |
| `AgreedLog` | abstract: one agreed sequence, nodes that copy it |
| `EpisodeStateMachine` | apply, sidecar, snapshots and restarts of every node; implements `AgreedLog` |
| `LegalHolds` | officers, holds, flags and the collection task |
| `TrustedAdmin` | intent, effect, result and reconciliation of destructive administration |
| `DerivedState` | views, attribute index, checkpoints, boots and crypto-shred |
| `IdempotentAppend` | keyed appends, alone or through the consensus with a deadline |
| `ApprovalGate` | tool calls that need a person's approval, and their evidence |
| `Sentinel` | workers, queue, cursor, snapshot and boot of the sentinel |
| `ShadowPaging` | the pages of a B-epsilon tree: allocation, free list, commit, crash and open |
| `HvmCheckpoint` | the checkpoint of the H-VM ledger, from the replay to the renamed file |
| `MCFiles` | puts `HrklGenerations`, `FileRaftLog` and `HvmCheckpoint` side by side for TLC |
| `MCNode` | the same for `ManifestStore`, `TrustedAdmin`, `DerivedState`, `IdempotentAppend` and `ApprovalGate` |
| `MCWorkers` | the same for `HrklWriter`, `HrklGenerations` and `Sentinel`, with their fairness |
| `MCUpkeep` | the same for `LegalHolds` and `ShadowPaging`, with the fairness of the collection task |
| `MCEpisodeStateMachine`, `MCLegalHolds` | values and symmetry for TLC |
| `*_proofs` | the theorems about `HrklWriter` (with those about `DurableLog`), `EpisodeStateMachine` and `Sentinel`; `Files_proofs` about `HrklGenerations`, `FileRaftLog`, `HvmCheckpoint` and the three together; `Node_proofs` about `TrustedAdmin`, `ManifestStore` and `DerivedState`; `Clients_proofs` about `IdempotentAppend` and `ApprovalGate`; `MCNode_proofs` about the five together; `Upkeep_proofs` about `LegalHolds`, `ShadowPaging` and the two together |

The last four compositions put parts side by side that share no state any of their properties
looks at. A behaviour is one of a part, the others stay where they start, so the
states are the sum of the parts' and every property is about its part alone:
each part is checked exactly as under its own specification. They say nothing of
how the parts interact.

Operators named as mutants sit before the definition they alter. Each is that
definition with a plausible bug: put in its place, it makes TLC find the
property it is listed with violated, so every property says something about the
code. No specification uses them.

### State and actions against the code

**HrklWriter.** A file (`files[s]`) separates what the page cache has from what
the disk has: a kill loses neither, a power failure loses any part of the
difference. `pc` is the next system call of the operation that holds the
mutex; `op`, `target` and `resume` are its locals. `BeginAppend`, `BeginFlush`
and `BeginSeal` are the guards and early returns of `append_inner_locked`,
`flush` and `seal_active`; `WriteRecord`/`WriteFails` are `append` and
`reverter_cauda` of `raw.rs`; `SealTake` … `CommitSeal` follow
`seal_active_locked` and `selar_e_publicar`; `CreateNew`, `WriteHeader`,
`SyncHeader` follow `create_active`; `RestoreActive`/`RestoreRefused` are
`repor_ativo`; `WorkerSkips/Syncs/Fails` is one turn of the GroupCommit
thread; `Boot*` follow `V6Log::open` from the stub sweep to the resumed tail.
LSNs are positions and records are write numbers. Not there: contents, sizes
(a roll is a nondeterministic choice), the keystore and reads.

**HrklGenerations.** A segment's descriptor has the status, stamp and active
generation that the HRKM has. `PackBegin`/`PackWrite`/…/publication follow
`empacotar_da_fila` and `record_pack`; `Quarantine` is
`quarantine_generation` with its commit; `GcCommit` is `plan_gc` and
`commit_gc_manifest`, `GcUnlink` is `unlink_gc_targets`; `ReadPin`/`ReadOpen`
are the two halves of `tentar_ler`, with the cache of PACKED readers; `Kill`
and `Boot` drop the memory and redo the checks of the boot. A file is intact,
damaged or absent.

**ManifestStore.** `file` and `current` are what the directory shows, `sure` is
what a power failure cannot take back, and each commit of `manifest.rs` is cut
at its two renames and two syncs. `prune_old_manifests` runs beside them, as in
`collect_garbage`, which calls it after dropping the mutex. `HrklWriter`,
`HrklGenerations` and `LegalHolds` use one step for a whole commit and, for a
failing one, a choice between the old manifest and the new one on the disk:
`LoadsCommitted` is what justifies that step.

**EpisodeStateMachine.** openraft is external: it yields one sequence
(`Commit`), hands each node the next entries and a snapshot of another node,
and gives the entries after `last_applied` again to a restarted one.
`ApplyBegin` to `ApplyEnd` walk one call of `apply`, one entry per step;
`ApplySkip` is `skip_normals`; `ApplyEnd` writes the sidecar. `Build` and
`InstallBegin/Episode/End` are the two snapshot handlers. `Open` is
`open_durable` with its refusals, counters and cached stamp. A stamp is
`carimbo_deterministico`.

**LegalHolds.** `placed` and `released` are what a replay of the log
(`apply_range`) yields: first episode per hold counts. An officer's call is cut
where the mutex is released: flags set (`Mark`), episode appended (`Record`,
`Free`), holds read (`OfficerReads`), flags rewritten (`OfficerApplies`). The
collection task is cut the same way (`GcReads`, `GcApplies`, `GcCollects`).
A failed append may leave its record in the log all the same, a failed commit
may leave its manifest on the disk. `OfflineGc` is the command line
(`gc_v6`), which collects without reconciling. Any number of officers may be at
work: the history `missed` has, of the pass about to collect, the segments on
which some officer wrote the flags since without knowing of a hold.

**FileRaftLog.** `wal` and `meta` are what the page cache shows, `sure`,
`before` and `metaBefore` what a power failure may fall back to. `BeginAppend`,
`BeginTruncate`, `BeginPurge`, `SaveVote` and `SaveCommitted` are the calls of
the storage traits; `WriteRecord`, `SyncWal`, `Rewrite`, `RewriteSynced`,
`WriteMeta` and `MetaSynced` the system calls they are cut at; `SaveCommitted`
writes only every `LazyBy` entries. `OpenReads` to `OpenCuts` follow `open`:
replay, migration of the file before v2, compaction, cutting of a torn end, and
its refusals. `Covers` and `Wastes` are the conditions that skip or trigger a
rewrite. `KeepsContract` is the refinement: an unanswered call leaves, after
whatever crash, a prefix of its records.

**TrustedAdmin.** `execution` is the next step of the call that holds the
mutex: `AppendRecord`, `FlushRecord`, `RunEffect`, `PersistFails`, and
`EffectPanics`, which poisons the mutex. `Reconcile` is the effect of an
operation about another one. `Recover` is `recover`, with the journals it
refuses; `OthersFlush` is any other fsync of the log.

**DerivedState.** One subject is followed. `AppendLogs`, `AppendAppliesViews`
and `AppendAppliesAttr` are the steps of `append_internal` under the gate;
`CheckpointView`, `CheckpointAttr` and `AttrSaved` are the periodic checkpoint,
whose save of the attribute index runs outside the gate; `ShredMarks` to
`ShredUnflags` are `crypto_shred` and its effect in order; `BootViews(m)`,
`BootAttr` and `BootUnflags` are the boot in its three modes. A shred may start
while that save is under way, as in the code; the history `overtaken` says that
a save that began before a shred was written over the shred's own.

**IdempotentAppend.** `Lookup` is `lookup_idempotency` with its verification
in the log, under the lock of the key; `AppendAlone`, `AppendFails` and
`IndexAlone` the path of a single node; `SubmitCluster`, `TakePermit`,
`Propose`, `SubmitTimesOut` the queue, the permits, the proposal and the
deadline of `cluster.rs`. The consensus is external: `CommitEntry`,
`ApplyEntry`, and `Elect`, which may lose the end of the leader's backlog.

**ApprovalGate.** `ConsumeGranted`, `ConsumeOther` and `ConsumeNothing` are the
verdicts of `consume`, `Admit` is `request_bounded`, `Decide` is `decide`,
`Expire` the normalisation each of these begins with. `Authorize` appends the
authorisation and `Send` forwards; in enforce a failed append ends the call, in
shadow it goes on (`WithoutEvidence`). `GateStop` ends the process and boots
again: `Warm` is `warm_consumed`.

**Sentinel.** `doing` is where each worker is in `worker_loop` and
`process_until`: `LockCursor`, `Recognise` (already derived, or itself
derived), `Derive`, `FailsToDerive`, `CommitCursor`; `Capture`, `SkipCapture`
and `Publish` are the snapshot, taken while another worker may hold the cursor
(`CursorFree`). `Hear` and `Lag` are the subscriber, with a queue that drops.
`SentinelBoot`, `SentinelRefuses` and `Diverges` are
`reconcile_startup_state` and the policy. A failed cursor write still advances
the cursor in memory, as in the code. Positions count from 1.

**ShadowPaging.** The tree is a root leaf and the overflow chains of its
values. A `Pool` is what `allocate_id`, `recycle_id` and `add_to_free_list`
change: superblock in memory, pages of this epoch, pages waiting for the
commit, file. `Upsert` and `DeleteKey` are `push_msg` on a leaf; `CommitPages`
to `CommitDrain` are `commit`, cut at its two syncs; `TreeCrash` keeps, loses
or tears every page written since the last sync; `TreeOpen` is the choice of a
superblock in `open`. A value is the number of the write that gave it.

**HvmCheckpoint.** A request walks `from_map`: `LookForTmp`, `RemoveTmp`,
`OpenTmp`, `WriteGenesis`/`SyncGenesis` (the empty tree of a new file),
`Build` and `WriteSuperblock`/`SyncSuperblock` (upserts and commit),
`RenameTmp`, `SyncDirectory`, `Reopen`. `names` is what the directory shows,
`namesBack` what a power failure may bring back; a file stands for what a tree
opened on it would hold. Nothing in the code excludes two requests and all use
`hvm.tmp`, so every step of one may meet the file of another: removed, opened as
it stands, built twice (`Mixed`) or renamed by the wrong one. The history `met`
has the files more than one request had a hand in, `late` those renamed with an
older version than one already renamed.

## 3. What is checked

Twelve runs. `pass` runs finish without error; a `violation` run checks one
sentence of the code base that the code does not keep.

| Run | Module, configuration | Shows |
|---|---|---|
| `writer` | `HrklWriter`, `HrklWriter.cfg` | under `Always` and under GroupCommit the engine implements `DurableLog` (`KeepsPromises`), no boot refuses, and what the engine goes by is so on the disk (`EngineMatchesDisk`) |
| `writer_flush` | `HrklWriter`, `HrklWriterFlush.cfg` | **violation**: a flush retried after a failed fsync is answered Ok over lost pages |
| `files` | `MCFiles`, `MCFiles.cfg` | sealed segments: every segment keeps its authority in memory and on disk, a pinned file stays, files outlive the catalogue, no boot refuses. Raft log: refinement of `RaftLogStorage`, answers survive and open never refuses what is left. Checkpoint: with two requests that overlap, an `hvm.hbt` that one of them made is one whole version, and none but a slower request puts an older one back, through kills, power failures and failed calls |
| `raft` | `MCEpisodeStateMachine`, `EpisodeStateMachine.cfg` | refinement of `AgreedLog`; answers name their episode; snapshots hold what they say; a node that stays up catches up |
| `raft_build_restart` | same, `EpisodeStateMachineRestart.cfg` | **violation**: a snapshot built right after a restart is mislabelled and its receiver applies entries twice |
| `raft_older_snapshot` | same, `EpisodeStateMachineOlder.cfg` | **violation**: a shorter snapshot over a half-installed longer one makes a node apply entries twice |
| `upkeep` | `MCUpkeep`, `MCUpkeep.cfg` | holds: with two officers a pass respects every hold recorded before it, but where the stale read of an officer wrote the flags in between; the flags converge to the log. Tree: a crash at any step opens the last answered map or the one being committed, and every page has one role |
| `holds_race` | `MCLegalHolds`, `LegalHoldsRace.cfg` | **violation**: a hold answered while a pass is between reading and writing loses its flag and its segment |
| `node` | `MCNode`, `MCNode.cfg` | manifests: a boot loads the last answered manifest or a later attempt. Journal: an effect once, outcomes stand, no boot refused. Derived state: snapshots match their watermark, what is served is whole and no scan aborts, nothing of a destroyed key is left without the marker, but in an index whose older checkpoint was written over the shred's, holds are respected by a shred. Submissions: one episode per key but in the two cases named, and answers stand. Approvals: every effect has its own grant, once, and its record |
| `shred_overlap` | `DerivedState`, `DerivedShred.cfg` | **violation**: a shred beside a checkpoint that is saving the attribute index leaves the index of before on the disk and takes the marker away |
| `workers` | `MCWorkers`, `MCWorkers.cfg` | liveness: an idle tail is synced or the engine says why not; one damaged segment does not starve the packing queue; the sentinel catches up. Safety: every raw row is derived exactly once, and a strict boot is refused only for a cause |
| `sentinel_power` | `Sentinel`, `SentinelPower.cfg` | **violation**: under GroupCommit the cursor is durable before the event it vouches for; a power failure in between loses the event for good |

### Bounds, and why they are enough

Bounds are constants, named in each module next to the event they bound.

* Writer: three writes in three segments let one segment be sealed, one be
  under way and one be created; two kills let the second hit the recovery of
  the first; one power failure with one failed call reach every pair of
  (partial effect, loss).
* Generations: one segment, two profiles, one reader, two packs, one failed
  commit, one kill: enough for pack, quarantine or hold, repack under another
  profile, collect and read in every order. The proofs remove the bounds. In
  `workers` there are two segments, one of which may be damaged.
* Manifests: five commits (numbers, gaps after failures and reuse after a
  kill), two prunes, one of each fault. `keep_manifests` is the code's
  default, 3.
* Raft log: two indices and two terms (an entry overwritten by another term),
  four WAL records (enough for an insert, a truncation, an insert and a purge),
  a commit index written every second entry, one kill, one power failure and
  one failed call: any of them may hit the recovery from another.
* Replication: two nodes, three entries of three kinds in batches of two, one
  kill, one failed call anywhere. The leader's clock never runs ahead of the
  last stamp (`MaxClock = 0`): stamps then always come from the predecessor,
  the branch where a stale cached stamp shows.
* Holds: two holds over one segment in `upkeep`, so that releasing either must
  not unprotect what the other holds, and two officers, so that each may act on
  what the other changed since; flags are per segment, and a second segment
  with a hold of its own is in `holds_race`. One failing call, one kill.
* Journal: two keys, one of which may reconcile the other, one fault and two
  crashes. Derived state: two views, two appenders, three episodes, one shred
  and one end of the process; a second key of the subject needs an episode, a
  shred and another episode, and a third episode may be a hold. Submissions:
  three calls of one key with two payloads, a queue and permits of one, one
  change of leader. Approvals: one request with two contents, two attempts at
  once, two approvals, of which one expires, one fault, one end.
* Tree: one key, values of no page, one or two, four writes, three commits
  (both superblocks are overwritten), one crash anywhere, a superblock that
  holds one free id, so that the chain in the file is used. Checkpoint: two
  requests that overlap, alike for TLC (symmetry), two versions, three files at
  a time, and two events in any combination, where an event is a kill, a power
  failure, a failed call, or a request that finds the file of another.
* Sentinel: two workers, a queue of one, batches and a window of two, two raw
  rows, and two troubles (failed appends, evaluations and writes, ends of the
  process, damaged files) in any combination. The real window has 262144
  sources.

### Assumed of the environment

Each is a constant of the module, so a run can drop it. Dropped, the named
property fails; these are behaviours of the code a maintainer should know, kept
out of the passing runs so that the rest can be checked. A second table has the
interleavings that are not kept out: the runs go through them, and a property
excepts exactly what they do.

| Assumption (value in the passing runs) | Without it |
|---|---|
| `OrderedWriteback = TRUE`: unsynced bytes that survive a power failure are a prefix | `HrklWriter.cfg` with `FALSE` violates `BootNeverRefuses`: a hole before the last frame reads as damage, not as an interrupted write, and the boot refuses (`rasgo.rs`). `FileRaftLog` with `FALSE` violates `AnsweredSurvives` |
| `PowerLossExposed = FALSE`: power does not fail again before what a boot adopted is synced | `HrklWriter.cfg` with `TRUE`: the boot promotes and publishes a sealed active file without an fsync of file or directory, and the catalogue may name a file that is not there |
| `FsyncLosesPages = FALSE`: a failed fsync keeps the pages dirty | run `writer_flush` |
| `MaxKills = 0` for the writer in `workers` | with 1, `ReopenedTailSynced` is violated: a boot starts with `dirty = false`, so a recovered tail waits for the next write |
| `BuildsAnytime = FALSE`: no snapshot is built between a restart or an installation and its end | `EpisodeStateMachine.cfg` with `TRUE` violates `SnapshotsWhole` (installation holds no mutex); run `raft_build_restart` |
| `OlderSnapshots = FALSE` | run `raft_older_snapshot` |
| `Keep = 3` with one fault | `Keep = 1` or `2`, or `MaxManifestFaults = 2`, and a prune unlinks what `CURRENT` names: the commits that fit between its look at `CURRENT` and its listing push that manifest out of the kept ones |
| grace longer than a pass (guard of `GraceEnds`) | a segment sealed after a pass wrote the flags could be collected by that pass without a flag |
| `Replicated = FALSE` in `DerivedState` | with `TRUE`, `ServedWhole` is violated: the apply hook of the consensus does not take `index_gate`, and a rebuild counts an episode twice |
| `TailExposed = FALSE` in `workers`: the log is fsynced as it is written | run `sentinel_power` |
| `ReopensSpilled = FALSE` in `ShadowPaging`: a file whose free list has pages of its own is not written to after it was opened again | with `TRUE`, `EachPageOnce` is violated: `allocate_id` gives out the page at the head of the durable chain, and after a crash before the next commit the superblock still points at it, now with other content (the header of the file names "CoW estrito para a FreeList"). `from_map`, the only builder in the repository, always starts a new file |
| `DerivedWindow` holds the sources a lost cursor comes back to | with `DerivedWindow = 1` and a damaged cursor `DerivedExactlyOnce` is violated; the server's idempotency index would still recognise the retry, when it is whole |

| Exception | What happens |
|---|---|
| `missed` in `EarlierHoldsHold` | two officers at once: one reads the holds, the other places its hold, reconciles and is answered, a pass of the collection reads the hold and writes its flag; then the first writes the flags it computed before, and the pass collects the segment. Without the exception `EarlierHoldsHold` is violated with two officers, and holds with one |
| `overtaken` in `ErasedUnlessOvertaken` | a shred starts while `checkpoint_attr` saves the index outside the gate, and the older save lands on the shred's: run `shred_overlap` (`ErasedOrFlagged` has no exception) |
| `met` in `CheckpointWhole` | two `POST /hvm/checkpoint` (`rest.rs`, `engine.rs`), both with `hvm.tmp`: the second removes the tree the first has finished and makes a new file, and the first renames that to `hvm.hbt` and answers ok. Without the exception TLC finds 14 states, with `MaxVersions = 1` and nothing failing |
| `late` in `CheckpointWhole` | a request replays the ledger and is slow, another replays a longer one, renames and answers, then the first puts its version in its place. Without the exception TLC finds 22 states, nothing failing and no file shared |
| "in doubt" in `KeyedOnceUnlessInDoubt` | the plain `KeyedOnce`, which `append_idempotent` promises ("Exactly-once lógico para produtores externos"), is violated even with `MaxElections = 0`: a submission times out (`SubmitTimeouts = TRUE`), its lock is freed, its entry commits later, and a retry that looked before writes the episode again |

Three further invariants are stated in the modules, hold of no run, and
describe narrow behaviours: `SomeWayForward` (`HrklWriter.cfg`: a failing call
while an empty segment is discarded leaves neither `degradado` nor
`ativo_pendente`, so writes are refused without a reason until a restart),
`NoStaleReader` (`MCFiles.cfg` with `MaxReads = 2`: after the
newest generation was quarantined and collected its number is reused and a
cached reader serves the unlinked file; only a caller of the library that
collects quarantined generations of a running engine gets there), and
`OpenNeverRefuses` of `EpisodeStateMachine`, which fails for a node killed
during its very first batch: the log has episodes and no sidecar yet.

Other behaviours met on the way, stated by no property:

* One row whose evaluation always fails holds back all rows after it and is
  retried for ever: `CaughtUp` bounds the failures.
* Publishing a sentinel snapshot moves the old one away first, so a kill in
  between leaves none; the boot then rebuilds.
* In shadow mode a call that needs an approval and has no JSON-RPC id is
  answered 400, although a comment of `gateway.rs` says shadow never blocks.
* The verdict of `consume` and the request that follows it are two critical
  sections: a person may be asked twice for one subject and a second grant runs
  it twice. `ExecutedOnce` makes an exception for this.
* `ViewRegistry::rebuild` that fails half way does not raise
  `nao_materializado`, and `checkpoint_views` does not flush the log first.
* Three rolls between a read's look at the active path and its open fail the
  read; `verify_segment` opens files it did not pin.

### Fairness

Safety runs use a specification without fairness. Liveness uses weak fairness
of steps that one running thread takes without waiting for anybody: the holder
of the engine's mutex, the boot and the worker's timer (`HrklWriter`); the
thread that packs, once its pass began (`HrklGenerations`); openraft handing
committed entries to a running node and its worker going on
(`EpisodeStateMachine`); the interval task of the collection while the server
is up (`LegalHolds`); and, for the sentinel, only that some worker steps while
one can: not that each worker gets its turn. Nothing assumes that a client
calls again, that a killed process is restarted or that a call stops failing
beyond its bound. In `workers` the fairness of a part is restricted to the
behaviours of that part.

Deadlock is checked where the system cannot stop. The configurations that turn
it off say so because the bounded events run out or because a boot that refuses
or a failed worker is an end.

## 4. What is proved

TLAPS proves, for every value of the constants that satisfies the assumptions
named in the modules:

| Module | Theorems | Argument |
|---|---|---|
| `Files_proofs` (`HrklGenerations`) | `TypeCorrect`, `Invariant`, `AuthorityIsOnDisk`, `BootIsAccepted`, `PinsProtect`, `UnlinkedAfterForgotten` | `AuthorityOnDisk` alone is not inductive: a collection plans from memory, a kill falls back on the disk, and after a commit that failed past the swap of `CURRENT` the two differ. `IInv` adds that every generation either catalogue has is a file that exists (`WholeCatalogue`), that what a collection is about to unlink is out of both (`DoomedAreForgotten`), that the packing lock and the job agree and a written target stays (`JobHoldsLock`), and that what a reader pinned is still catalogued (`PinnedAreCatalogued`). Lemmas say what packing, quarantine and collection make of one descriptor; the step proof has one case per action |
| `Files_proofs` (`FileRaftLog`) | `AnsweredIsKept`, `ContractIsKept`, `FilesTypes` | under the hypothesis `OrderedWriteback = TRUE`, which the table of section 3 shows cannot be dropped. `AnsweredSurvives` speaks of the files only and is not inductive: what a call appends is computed from the memory. `RaftInv`: every state of the file that a crash may leave, the old and the new one during a rewrite, replays to what was answered followed by a prefix of the call under way (`FilesHave`), and every log so found has no hole (`LogOK`); the memory is what the file replays to, and at each system call the file and the records still to be written make up the call (`CallFits`); a `meta.bin` that may be found has the vote answered or the one being saved, and before a new one is written the one in memory (`VotesFit`); what it calls committed is in every log that may be found, or purged from it (`CommittedKept`), which is why the check of `open` never refuses. Lemmas say what replaying one record, a prefix and a compacted image gives (`InsertFits`, `TruncateFits`, `PurgeFits`, `ImageReplays`); replay is a recursive function, and its values for logs of any length come from a smallest counterexample, as for `HrklWriter`. The refinement: openraft's log is what was answered; `SyncWal`, the end of a rewrite or of an open, and `MetaSynced` are the storage's answer, `BeginCall` and `SaveVote` its call, `SaveCommitted` moves what it knows, and every other step, failures, kills and power failures included, changes nothing openraft can see. `FilesTypes` composes the parts: a behaviour of `MCFiles` is one of each of the three |
| `Files_proofs` (`HvmCheckpoint`) | `CheckpointsAreWhole`, `HvmTypeCorrect` | for any number of requests, with no hypothesis. `CheckpointWhole` speaks of a file with its final name and is not inductive: what makes it good happens before it has that name, in a file that other requests may open, remove or rename. `HvmInv`: two requests with one file have met (`Alone`); a file that only its builder had a hand in has, call by call, the tree of that builder, synced before the rename, and no directory that a power failure may bring back calls it `hvm.hbt` (`BuilderInv`), so no builder alone ever changes the checkpoint; what a request renamed is good for its version in the directory shown and, once it synced that, in every directory that may come back (`RenamerInv`), which is what it needs to answer; and every such directory calls `hvm.hbt` a file that is good for all that was answered (`Checkpoints`) |
| `EpisodeStateMachine_proofs` | `MachineTypeOK`, `AnswersNamed`, `SnapshotsHold`, `NeverDiverges`, `MachineImplementsAgreedLog` | under the hypothesis `Undisturbed` (`BuildsAnytime` and `OlderSnapshots` are `FALSE`), which the runs `raft_build_restart` and `raft_older_snapshot` show cannot be dropped. `MachineInv`: the entry at an index adds one to the count of its predecessor if it carries an episode, and that episode is the agreed one at that place, its stamp computed from the one before (`HistoryFits`); every log is a prefix of the agreed sequence; sidecar, counters and snapshots say what the entries up to their index add up to (`CountsFit`); what is to be skipped is exactly what the log has beyond the count, and the cached stamp is unread or the last one of the log (`StateFits`). Hence the episode a node stamps is the agreed one (`StampedIsAgreed`), and each node step leaves the log alone or copies the next episode (`Copies`), which is the refinement. `MachineInv` says nothing of a node that stopped; `MachineTypes` adds what its records may still hold, and both give the types |
| `Upkeep_proofs` (`LegalHolds`) | `TypeCorrect`, `Invariant`, `EarlierHoldsAreKept` | for any number of officers, with no hypothesis. `PassInv`: the pass knows only recorded holds; what it may still collect it saw when it wrote the flags; and a segment it saw that a hold it read still covers has its flag, unless an officer who did not know of a hold on it wrote the flags since (`FlagsOfPass`). The last is not a matter of the pass alone: an officer's `Mark` and `Apply` write between its two steps, an officer's `Free` removes a hold, a failed commit takes some of the flags back, and only an `Apply` from a read that has every active hold of the pass (`DerivedKeeps`) leaves it true without the exception |
| `Upkeep_proofs` (`ShadowPaging`) | `CommittedIsFound`, `PagesHaveOneRole` | both under the hypothesis `~ReopensSpilled`: with `TRUE`, the row of section 3 shows pages of the durable free list overwritten before the next commit, and what `allocate_id` reads after a crash is then no free page. `OpensCommitted` speaks of the page a superblock reaches, which says nothing of the next allocation. `ShadowInv` names, beside the state, the pages `X` of the chain of the free list, those of each value of the open tree (`chains`) and those of each value the durable superblock reaches (`onDisk`), since the model, as the code, finds them by following the file. It says that the free list has no page twice and its chain no cycle (`FreeOK`), that each value's pages are a chain of its own (`TreeIs`), that what may be given out, now or after the chain is followed (`FreeIn`), is neither waiting nor in the epoch nor in the open or in the durable tree (`Apart`), that pages of the epoch are not in the durable tree, that what the active superblock reaches is as it was synced and the other superblock is older, or is the one being written after everything it reaches was synced (`ActiveFits`, `CommitFits`); and of a closed tree that what was committed is on the disk (`Durable`). Then a write touches only what the durable tree does not reach; before the sync of the superblock a crash finds the old one or the new one, each with its tree whole (`CrashLeaves`); and only then are the pages of the old one freed. Lemmas say what allocating, giving back and draining any number of pages do to the roles (`Takes`, `GivesAway`, `Writes`); the chains and the pools are recursive functions, their values for any length by a smallest counterexample. `PagesHaveOneRole` (`EachPageOnce`) asks also that no page is lost before the first crash: every page below the next new one is in the tree, may be given out, or waits (`Whole`), and each operation hands a page on to exactly one of these; what the superblock's chain and each value's chain are, computed from the file, are the lists the invariant names (`SpillFound`, `ChainFound`) |
| `Upkeep_proofs` (`MCUpkeep`) | `UpkeepTypes`, `PartsKeepTheirSpecs` | a behaviour of the two parts side by side is one of each, so `TypeCorrect` and `PagesHaveOneRole` give the types of the whole; under `~ReopensSpilled` again |
| `HrklWriter_proofs` | `TypeCorrect`, `BootAlwaysOpens`, `EngineAgrees`, `Refinement`, `PromisesAreHeld` | under the hypothesis `Environment` (`OrderedWriteback`, no `FsyncLosesPages`, no `PowerLossExposed`), which the table of section 3 and the run `writer_flush` show cannot be dropped. `PromisesAreHeld` follows from the refinement and a lemma about `DurableLog`. A crash forgets the memory, so what the disk holds has to be good by itself: `GoodDisk` says that the catalogue names the first segments, adjacent and with their final names on the disk, that at most one more file follows them, starting where the catalogue ends, and that no file has garbage, records without a header and a name, or a durable footer over records that are not (`FileOK`). `AnswersInv` ties what callers were told to the catalogue and to that last file. `BootInv`, `CreateInv`, `WriterInv`, `SealInv` say, system call by system call, what the operation under way may rely on, `PendingInv` and `FreeInv` what a failed seal leaves behind. A power failure is one lemma about one file (`SurvivorOK`), lifted to the directory (`DiskSurvives`). The refinement: the log on the disk is read off the files (`DiskLog`); `WriteRecord` records or accepts, `SyncAppend` and `SyncFlush` acknowledge, `PowerLoss` loses a suffix nobody was promised, and every other step leaves `DiskLog` alone (`QuietStutters`). The sum of the segments is a recursive function; what it is for the catalogue of any length is proved by a smallest counterexample (`SmallestExists`, `UpTo`), since the induction theorems of the library cannot be instantiated |
| `Node_proofs` (`TrustedAdmin`) | `AdminTypes`, `AtMostOneEffect`, `BootNeverRefused`, `OutcomesStand` | an effect that ran has a flushed intent (`EffectsLogged`), the journal in memory has every key the log has (`JournalCovers`), so a key is executed only when the log knows nothing of it, and `PhaseInv` says what each step of the call under way may rely on. Then every prefix of the diary, which is what a crash leaves, is one `recover` accepts (`Recoverable`): a result never precedes its intent and never comes twice. `OutcomeInv`: what the journal answers and what a client was told is a record that no crash of this behaviour takes (`Kept`), and a diary that `recover` accepts has one result of a key, so the answer never changes. A reconciliation may believe any record it reads because its own intent was flushed after it |
| `Node_proofs` (`ManifestStore`) | `ManifestsLoad`, `ManifestTyped` | the first under the hypothesis `Keep > MaxManifestFaults + 1`, which the row `Keep = 3` of section 3 shows to be as weak as it can be. `ManifestInv`: a commit numbers its file above all others, in this process and the next (`NumbersInv`); what `CURRENT` says, now and after a power failure, is in the directory, now and after it, and was answered or is being tried (`CurrentInv`); and, which is the point, when a collection began `CURRENT` named the highest file, so that until it ends only files of failed calls and the one in flight are above what `CURRENT` names (`PruneInv`): fewer than `Keep`, hence what `CURRENT` names when the directory is listed is not doomed, although it was read before and is not locked (`PruneListsKeeps`). `ManifestTyped` has no hypothesis and needs little of this: what is on the disk, in the memory and in the commit under way is numbered by the attempts (`StoreTypes`), since the next generation is one above the highest file, or the one after the last manifest this process renamed |
| `Node_proofs` (`DerivedState`) | `HoldsAreRespected`, `WholeIsServed`, `SnapshotsAreFaithful`, `ErasuresHold`, `DerivedTyped` | the first four under the hypothesis that the node is not a replica (`~Replicated`): the row of section 3 shows what happens without it. None of the four is inductive: they speak of a node at rest or of a file, and what makes them so is in flight. `HeldInv`: who holds the gate exclusively is alone, and an LSN belongs to one appender. `ViewsInv` and `IndexInv`: what is derived is all of the log but the LSNs in flight (`SeenByViews`, `SeenByIndex`), once, and none above the watermark, so that with the gate free it is the whole log (`ViewsAreSaved`); in LOG_ONLY it is only faithful to its watermark. `SealInv`: a subject without a mark, or marked only by the shred under way, has no record that its key does not open, and a record that is being applied opens. `VetoInv`: from the check of the holds to the end of the key nothing is logged (`HeldIsQuiet`). Erasure, with shreds and saves that overlap in any way: once nothing has a lost record in clear, no step brings one back, unless it writes a checkpoint captured before (`ContentsBecome`, `CleanStays`); so what is left to prove is the way from the end of the key (`KeyDestroyed`) to clean views, snapshots and index, stage by stage, in this process or, after a stop, in the next boot (`MarkerInv`, `ViewsErased`, `IndexErased`). The views are saved under the gate and need no exception; the index has one from the moment the older save lands until a boot with the marker, or the next shred, saves a whole one, since it can land only between the two steps in which the shred saves and installs its own (`IndexErasedKeeps`, `OvertakenStays`). `DerivedTyped` holds on a replica too: `DerivedBounds` says only that a key was made for an episode and that a watermark or an LSN in hand is one of the log's |
| `Clients_proofs` (`IdempotentAppend`) | `AnswersHold`, `KeysOnce`, `SubmissionsBounded` | `AnswerInv`: an episode in the log or in the backlog is the one its call asked for and that call has handed it over (`EntriesOfCalls`), what is queued was handed over (`QueuedHanded`), what is being indexed is in the log. `KeyInv` adds the lock (`Excluded`), that no call writes twice (`OncePerCall`), and the reason why "not found" means "not there": alone, the index misses only what is being indexed under the lock of its key (`AloneInv`); in a cluster, until the leader changes, only the leader's own calls write, an answered one is in its index, and the episodes of the key that a lookup cannot see belong to calls that gave up (`FirstTerm`). `SubmissionsBounded`, for any finite set of calls: a call is queued only where there is room and takes a permit only where one is free, and is told an LSN of the log, which only grows (`SubmitBounds`, `LsnOnward`) |
| `Clients_proofs` (`ApprovalGate`) | `EffectsGranted`, `EffectsRecorded`, `SubjectsOnce`, `PendingIsBounded` | what is in hand in enforce has a grant of its own subject, taken at a time before it expired, that no other attempt has and nothing sent has used (`InHandOwn`, `ExecutedOwn`); a grant is spent only once because a record leaves `granted` for good (`Taken`), and a fresh approval id collides with none (`AbsentFresh`). What was sent is in the log unless a power failure took it (`RecordInv`), and from the log `warm_consumed` takes what must not run again. So `OnceInv`: an approval in memory, and a call between its grant and its effect, was asked for in this process, and asked for only while everything executed of its subject had been asked for in this process too, or was lost (`Settled`); all three end with the process. `PendingIsBounded`: only a request adds one to the pending approvals, and both limits are compared before it does (`GateBounds`) |
| `MCNode_proofs` (`MCNode`) | `NodeTypes` | a behaviour of the five parts side by side is one of each (`NodePartsBehave`), so the types of the whole are the theorems `ManifestTyped`, `AdminTypes`, `DerivedTyped`, `SubmissionsBounded` and `PendingIsBounded` |
| `Sentinel_proofs` | `PositionsOrdered`, `StrictBootNeedsCause`, `DerivedOnce` | unless something was lost, snapshot <= cursor file <= head. Not inductive alone: a captured snapshot is not ahead of the file because the mutex was free when it was captured (`OneHolds`, `Level`), and the cursor is ahead of the file by exactly the row being committed (`Ordered`). `DerivedOnce` is under two hypotheses, `~TailExposed` and `MaxRaw <= DerivedWindow`: the run `sentinel_power` and the row `DerivedWindow` of section 3 show that neither can be dropped. `OnceInv`: what the rows derive from is, row for row, in the window in memory (`MemoryOf`), and in a snapshot as far as its position (`SnapshotOf`), so that what a boot reads again makes the window whole, whichever files are left (`RestoredHas`); each source is in the window once, hence there is room (`Remembers`, `FewSources`); and the raw rows below the cursor, in memory and in its file, have their event (`DerivedBelow`) |

Every invariant, action property and refinement that a passing run checks has a
theorem. Only model-checked: all liveness (`IdleTailSynced`, `OthersArePacked`,
`CatchesUp`, `FlagsConverge`, `CaughtUp`), which is beyond the prover, as are
`ENABLED` and induction over data.

## 5. What is left out

* Bytes: record, block and PACKED encodings, Merkle trees, checksums and
  cryptography. A file is intact, torn or damaged.
* openraft: elections, replication and its own protocol. Its promise is
  `Commit` and the guards of `ApplyBegin` and `InstallBegin` in
  `EpisodeStateMachine`, what `Respects` allows it to ask of its storage in
  `RaftLogStorage`, and `CommitEntry` and `Elect` in `IdempotentAppend`. The
  transport only carries its messages.
* Reads of the active segment, whole-log scans and `verify_segment`.
* In `DerivedState`: what the views compute, the memtable, `watermarks.json`,
  evidence of the agent plane, power failures, shreds made before the mark
  existed, and vetoes other than holds.
* In `IdempotentAppend`: keys that share a lock shard, the sentinel's exception
  for a partial index, power failures, submissions lost when a leader's process
  ends, and the refusals of LOG_ONLY.
* In `ApprovalGate`: the rest of the policy, parsing of MCP, the upstream.
* In `Sentinel`: rows the normaliser rejects, signals and incidents, and the
  detectors' state in the snapshot.
* In `ShadowPaging`: inner nodes, splits, cascades, merges and message buffers,
  the page cache, Bloom filters, prefix compression, and `save`.
* Everything that is a function of a snapshot of the log: queries, retrieval,
  analytics, indexes as data structures, content and case views, numerical and
  GPU code; and front ends, tools that run on a stopped base, and formats before
  v6. `components` in `PROJECT.json` gives the reason for each part.

## 6. Plan

Done, in this order: `DurableLog`, `HrklWriter` and the refinement between
them; `HrklGenerations` and its inductive invariant; `AgreedLog`,
`EpisodeStateMachine` and the refinement, proved; `LegalHolds`; `ManifestStore`;
`FileRaftLog` against `RaftLogStorage`; `TrustedAdmin`; `IdempotentAppend`;
`DerivedState`; `ApprovalGate`; `Sentinel`; `ShadowPaging` and `HvmCheckpoint`.

Left to model, most useful first: readers of the active segment during a roll,
scans and `verify_segment` (extending `HrklGenerations`); inner
nodes of the B-epsilon tree (splits and cascades); demotion to the cold tier; `EpisodeStateMachine`
over `FileRaftLog`, so that "committed entries come again" is derived instead
of assumed.

Left to prove: nothing that the prover can do of what the runs check; liveness
stays with TLC.

## 7. Running it

`tlc -config <configuration> <module>` for a run of section 3,
`tlapm <module>_proofs.tla` for the proofs. The longest runs are `node`,
`workers` and `raft`, two to four minutes each on two workers.
