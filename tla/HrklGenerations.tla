--------------------------- MODULE HrklGenerations ---------------------------
(***************************************************************************)
(* The life of a sealed segment of the HRKL v6 log (heraclitus-log,        *)
(* v6/engine.rs, v6/manifest.rs, v6/gc.rs, v6/packer.rs, v6/receipts.rs).  *)
(* A segment is catalogued with its RAW generation, packed into a PACKED   *)
(* one, quarantined and packed again when a generation turns out damaged,  *)
(* and its superseded generations are collected.                           *)
(*                                                                         *)
(* Every change of the catalogue holds the state mutex and commits a new   *)
(* HRKM; packing and collecting also hold the packing lock, across steps   *)
(* that release the mutex.  Readers pin the generation they choose under   *)
(* the mutex and open its file after releasing it.  The process may be     *)
(* killed between any two steps.                                           *)
(***************************************************************************)
EXTENDS Integers, FiniteSets

CONSTANTS
    Segments,        \* the sealed segments
    Readers,         \* threads that read sealed segments
    Profiles,        \* packing profiles: the PACKED bytes depend on the profile
    NoProfile,       \* no receipt was written
    MaxGen,          \* bound: generation numbers of a segment
    Copies,          \* the values an operator gives to min_verified_copies
    Grace,           \* gc_grace_seconds, in clock ticks
    CacheLimit,      \* readers the cache of PACKED readers holds (32 in the code)
    MaxClock,        \* bound: clock ticks
    MaxPacks,        \* bound: passes over the packing queue
    MaxReads,        \* bound: reads
    MaxRetentions,   \* bound: changes of a retention policy
    MaxRots,         \* bound: files damaged on the disk
    MaxFaults,       \* bound: failed system calls
    MaxCrashes       \* bound: process kills

ASSUME ConstantsAssumption ==
    /\ NoProfile \notin Profiles
    /\ MaxGen \in Nat /\ Grace \in Nat /\ CacheLimit \in Nat
    /\ MaxClock \in Nat \ {0}
    /\ Copies \subseteq Nat
    /\ MaxPacks \in 0 .. MaxGen

Raw == 0
Gens == 0 .. MaxGen
Packed == Gens \ {Raw}

VARIABLES
    manifest,   \* V6State.manifest: the descriptor of each segment
    hrkm,       \* the manifest that CURRENT names on the disk
    file,       \* the file of each generation: "none", "ok" or "bad"
    receipts,   \* the profile recorded in the pack receipt of each generation
    lock,       \* who holds packing_lock: "free", "pack" or "gc"
    queue,      \* segments the pass over the packing queue has yet to visit
    job,        \* the segment being packed
    doomed,     \* generations out of the catalogue whose files are still to be unlinked
    reader,     \* what each reader does
    cache,      \* packed_readers: "none", "current", or "unlinked" once its file is gone
    degraded,   \* V6State.degradado: a seal failed part way
    mode,       \* "up", "down", or "refused": the boot returned an error
    clock,
    used        \* how much of each bound is spent

disk   == <<hrkm, file, receipts>>
worker == <<lock, queue, job, doomed>>
reads  == <<reader, cache>>
vars   == <<manifest, disk, worker, reads, degraded, mode, clock, used>>

-----------------------------------------------------------------------------
(* Descriptors *)

Status == {"none", "active", "superseded", "quarantined"}

\* since: superseded_hlc, 0 when the generation carries no stamp.
Descriptor == [status : [Gens -> Status], since : [Gens -> 0 .. MaxClock], active : Gens,
               hold : BOOLEAN, copies : Nat]

NotCatalogued == [status |-> [g \in Gens |-> "none"], since |-> [g \in Gens |-> 0],
                  active |-> Raw, hold |-> FALSE, copies |-> 1]

Has(d, g) == d.status[g] # "none"
Catalogued(d) == \E g \in Gens : Has(d, g)
Authority(d, g) == d.status[g] \in {"active", "superseded"}

SealedRaw == [NotCatalogued EXCEPT !.status = [@ EXCEPT ![Raw] = "active"]]

\* record_pack: the target becomes active, its source is superseded.
WithPack(d, t, now) ==
    LET kept == d.status[Raw] \in {"none", "quarantined"} IN
    [d EXCEPT
        !.status = [@ EXCEPT ![t] = "active",
                             ![Raw] = IF kept THEN d.status[Raw] ELSE "superseded"],
        !.since = [@ EXCEPT ![t] = 0, ![Raw] = IF kept THEN d.since[Raw] ELSE now],
        !.active = t]

Without(d, gone) ==
    [d EXCEPT !.status = [g \in Gens |-> IF g \in gone THEN "none" ELSE @[g]],
              !.since = [g \in Gens |-> IF g \in gone THEN 0 ELSE @[g]]]

\* The best authority once g is gone: PACKED before RAW, then the newest.
Best(d, g, b) ==
    /\ b # g /\ Authority(d, b)
    /\ \A h \in Gens \ {g} : Authority(d, h) => h <= b

\* Mutant of WithQuarantine: the stamp is one tick ahead of the clock.
WithQuarantineStampedLate(d, g, b, now) ==
    [d EXCEPT !.status = [@ EXCEPT ![g] = "quarantined", ![b] = "active"],
              !.since = [@ EXCEPT ![g] = now + 1, ![b] = 0],
              !.active = b]

\* Mutant of WithQuarantine: the reactivated generation stays superseded.
WithQuarantineNotReset(d, g, b, now) ==
    [d EXCEPT !.status = [@ EXCEPT ![g] = "quarantined"],
              !.since = [@ EXCEPT ![g] = now],
              !.active = b]

WithQuarantine(d, g, b, now) ==
    [d EXCEPT !.status = [@ EXCEPT ![g] = "quarantined", ![b] = "active"],
              !.since = [@ EXCEPT ![g] = now, ![b] = 0],
              !.active = b]

-----------------------------------------------------------------------------
Idle == [at |-> "idle"]
Job == {Idle} \cup [at : {"between"}, profile : Profiles]
           \cup [at : {"picked", "written", "receipted"}, profile : Profiles,
                 seg : Segments, target : Packed]
Reader == {Idle} \cup [at : {"pinned", "open"}, seg : Segments, gen : Gens, stale : BOOLEAN]

Init ==
    /\ manifest = [s \in Segments |-> NotCatalogued]
    /\ hrkm = manifest
    /\ file = [s \in Segments |-> [g \in Gens |-> "none"]]
    /\ receipts = [s \in Segments |-> [g \in Gens |-> NoProfile]]
    /\ lock = "free" /\ queue = {} /\ job = Idle /\ doomed = {}
    /\ reader = [r \in Readers |-> Idle]
    /\ cache = [s \in Segments |-> [g \in Gens |-> "none"]]
    /\ degraded = FALSE /\ mode = "up" /\ clock = 1
    /\ used = [packs |-> 0, reads |-> 0, retentions |-> 0, rots |-> 0, faults |-> 0, crashes |-> 0]

Spend(what, bound) == used[what] < bound /\ used' = [used EXCEPT ![what] = @ + 1]

\* ManifestStore::commit of a changed copy of the manifest.
Commit(m) == manifest' = m /\ hrkm' = m

\* An error of `commit` leaves the old manifest in memory, and may come after
\* CURRENT was already swapped.
CommitFails(m) ==
    /\ Spend("faults", MaxFaults)
    /\ hrkm' \in {hrkm, m}
    /\ UNCHANGED manifest

Change(s, d) == [manifest EXCEPT ![s] = d]

-----------------------------------------------------------------------------
(* The writer seals a segment (HrklWriter has the steps of it) *)

Seal(s) ==
    /\ mode = "up" /\ ~degraded /\ file[s][Raw] = "none" /\ ~Catalogued(manifest[s])
    /\ file' = [file EXCEPT ![s][Raw] = "ok"]
    /\ \/ Commit(Change(s, SealedRaw)) /\ UNCHANGED <<degraded, used>>
       \/ CommitFails(Change(s, SealedRaw)) /\ degraded' = TRUE
    /\ UNCHANGED <<receipts, worker, reads, mode, clock>>

-----------------------------------------------------------------------------
(* pack_pending and empacotar_da_fila, under packing_lock *)

InQueue(d) ==
    /\ Authority(d, Raw)
    /\ \A g \in Packed : ~Authority(d, g)

PackBegin(p) ==
    /\ mode = "up" /\ lock = "free"
    /\ queue' = {s \in Segments : InQueue(manifest[s])}
    /\ queue' # {}
    /\ lock' = "pack" /\ job' = [at |-> "between", profile |-> p]
    /\ Spend("packs", MaxPacks)
    /\ UNCHANGED <<manifest, disk, doomed, reads, degraded, mode, clock>>

\* next_physical_generation: one past every number catalogued or on the disk.
Taken(s, g) == Has(manifest[s], g) \/ (g \in Packed /\ file[s][g] # "none")
NextGeneration(s, t) ==
    /\ t - 1 \in Gens /\ Taken(s, t - 1)
    /\ \A g \in Gens : Taken(s, g) => g < t

PackPick(s, t) ==
    /\ job.at = "between" /\ s \in queue
    /\ NextGeneration(s, t)
    /\ queue' = queue \ {s}
    /\ job' = [at |-> "picked", profile |-> job.profile, seg |-> s, target |-> t]
    /\ UNCHANGED <<manifest, disk, lock, doomed, reads, degraded, mode, clock, used>>

\* The failure of one segment is recorded and the pass goes on.
JobEnds == job' = [at |-> "between", profile |-> job.profile]

JobAt(at) == job.at = at /\ UNCHANGED <<lock, queue, doomed, reads, degraded, mode, clock>>

\* Mutant of PackWrite: a damaged segment aborts the pass (the bug B6 fixed).
PackWriteAborts ==
    /\ job.at = "picked"
    /\ \/ /\ file[job.seg][Raw] = "ok"
          /\ file' = [file EXCEPT ![job.seg][job.target] = "ok"]
          /\ job' = [job EXCEPT !.at = "written"] /\ UNCHANGED queue
       \/ file[job.seg][Raw] # "ok" /\ JobEnds /\ queue' = {} /\ UNCHANGED file
    /\ UNCHANGED <<manifest, hrkm, receipts, lock, doomed, reads, degraded, mode, clock, used>>

\* pack_segment: a damaged source is refused.  Any other error may leave the
\* file of the target behind, never catalogued.
PackWrite ==
    /\ JobAt("picked")
    /\ \/ /\ file[job.seg][Raw] = "ok"
          /\ file' = [file EXCEPT ![job.seg][job.target] = "ok"]
          /\ job' = [job EXCEPT !.at = "written"] /\ UNCHANGED used
       \/ file[job.seg][Raw] # "ok" /\ JobEnds /\ UNCHANGED <<file, used>>
       \/ Spend("faults", MaxFaults) /\ JobEnds /\ UNCHANGED file
    /\ UNCHANGED <<manifest, hrkm, receipts>>

\* persist_pack_receipt: a receipt is never replaced by different evidence.
PackReceipt ==
    /\ JobAt("written")
    /\ IF receipts[job.seg][job.target] \in {NoProfile, job.profile}
       THEN /\ receipts' = [receipts EXCEPT ![job.seg][job.target] = job.profile]
            /\ job' = [job EXCEPT !.at = "receipted"]
       ELSE JobEnds /\ UNCHANGED receipts
    /\ UNCHANGED <<manifest, hrkm, file, used>>

\* The code checks again that the source is catalogued and the target is not;
\* only a collection could have changed that, and packing_lock excludes it.
PackPublish ==
    /\ JobAt("receipted")
    /\ Has(manifest[job.seg], Raw) /\ ~Has(manifest[job.seg], job.target)
    /\ LET m == Change(job.seg, WithPack(manifest[job.seg], job.target, clock)) IN
       (Commit(m) /\ UNCHANGED used) \/ CommitFails(m)
    /\ JobEnds
    /\ UNCHANGED <<file, receipts>>

PackEnd ==
    /\ job.at = "between" /\ queue = {}
    /\ lock' = "free" /\ job' = Idle
    /\ UNCHANGED <<manifest, disk, queue, doomed, reads, degraded, mode, clock, used>>

-----------------------------------------------------------------------------
(* quarantine_generation and set_retention, under the state mutex alone *)

Quarantine(s, g) ==
    /\ mode = "up" /\ Has(manifest[s], g)
    /\ \E b \in Gens :
        /\ Best(manifest[s], g, b)
        /\ LET m == Change(s, WithQuarantine(manifest[s], g, b, clock)) IN
           (Commit(m) /\ UNCHANGED used) \/ CommitFails(m)
    /\ UNCHANGED <<file, receipts, worker, reads, degraded, mode, clock>>

SetRetention(s, hold, copies) ==
    /\ mode = "up" /\ Catalogued(manifest[s])
    /\ LET m == Change(s, [manifest[s] EXCEPT !.hold = hold, !.copies = copies]) IN
       (Commit(m) /\ Spend("retentions", MaxRetentions)) \/ CommitFails(m)
    /\ UNCHANGED <<file, receipts, worker, reads, degraded, mode, clock>>

-----------------------------------------------------------------------------
(* plan_gc and collect_garbage *)

\* Mutant of Pinned: the pin is taken when the file is opened.
PinnedOnceOpen(s, g) ==
    \E r \in Readers : reader[r].at = "open" /\ reader[r].seg = s /\ reader[r].gen = g

Pinned(s, g) == \E r \in Readers : reader[r].at # "idle" /\ reader[r].seg = s /\ reader[r].gen = g

OtherAuthority(d, g) == \E h \in Gens \ {g} : Authority(d, h)

\* Without a stamp nobody can say that the time has passed.
GraceOver(d, g) == d.since[g] # 0 /\ clock - d.since[g] >= Grace

\* melhor_contagem: every authority was verified once, when it was made.
VerifiedCopies(d, g) == IF OtherAuthority(d, g) THEN 1 ELSE 0

Collectable(s, g, quarantined) ==
    LET d == manifest[s] IN
    /\ g # d.active
    /\ d.status[g] = "superseded" \/ (d.status[g] = "quarantined" /\ quarantined)
    /\ ~d.hold
    /\ Authority(d, g) => OtherAuthority(d, g)
    /\ ~Pinned(s, g)
    /\ GraceOver(d, g)
    /\ VerifiedCopies(d, g) >= d.copies

Plan(quarantined) ==
    {sg \in Segments \X Gens : Collectable(sg[1], sg[2], quarantined)}

Of(plan, s) == {g \in Gens : <<s, g>> \in plan}

\* assert_gc_invariant: a plan never removes the last authority of a segment.
PlanIsSafe(plan) ==
    \A s \in Segments :
        (\E g \in Gens : Authority(manifest[s], g))
            => \E g \in Gens \ Of(plan, s) : Authority(manifest[s], g)

\* Mutant of GcCommit: the files are unlinked although the commit failed.
GcCommitIgnoresError(quarantined) ==
    /\ mode = "up" /\ lock = "free"
    /\ LET plan == Plan(quarantined)
           m == [s \in Segments |-> Without(manifest[s], Of(plan, s))] IN
       /\ plan # {} /\ PlanIsSafe(plan)
       /\ (Commit(m) /\ UNCHANGED used) \/ CommitFails(m)
       /\ lock' = "gc" /\ doomed' = plan
    /\ UNCHANGED <<file, receipts, queue, job, reads, degraded, mode, clock>>

\* The catalogue forgets the generations first; the files go afterwards.
GcCommit(quarantined) ==
    /\ mode = "up" /\ lock = "free"
    /\ LET plan == Plan(quarantined)
           m == [s \in Segments |-> Without(manifest[s], Of(plan, s))] IN
       /\ plan # {} /\ PlanIsSafe(plan)
       /\ \/ Commit(m) /\ lock' = "gc" /\ doomed' = plan /\ UNCHANGED used
          \/ CommitFails(m) /\ UNCHANGED <<lock, doomed>>
    /\ UNCHANGED <<file, receipts, queue, job, reads, degraded, mode, clock>>

\* unlink_gc_targets, one file at a time; a file that cannot be unlinked stays
\* as an orphan.
GcUnlink(s, g) ==
    /\ lock = "gc" /\ <<s, g>> \in doomed
    /\ doomed' = doomed \ {<<s, g>>}
    /\ \/ /\ file' = [file EXCEPT ![s][g] = "none"]
          /\ cache' = [cache EXCEPT ![s][g] = IF @ = "current" THEN "unlinked" ELSE @]
          /\ UNCHANGED used
       \/ Spend("faults", MaxFaults) /\ UNCHANGED <<file, cache>>
    /\ UNCHANGED <<manifest, hrkm, receipts, lock, queue, job, reader, degraded, mode, clock>>

GcEnd ==
    /\ lock = "gc" /\ doomed = {}
    /\ lock' = "free"
    /\ UNCHANGED <<manifest, disk, queue, job, doomed, reads, degraded, mode, clock, used>>

-----------------------------------------------------------------------------
(* tentar_ler: the generation is chosen and pinned under the mutex *)

ReadPin(r, s) ==
    /\ mode = "up" /\ reader[r].at = "idle"
    /\ Has(manifest[s], manifest[s].active)
    /\ Spend("reads", MaxReads)
    /\ reader' = [reader EXCEPT ![r] = [at |-> "pinned", seg |-> s, gen |-> manifest[s].active,
                                        stale |-> FALSE]]
    /\ UNCHANGED <<manifest, disk, worker, cache, degraded, mode, clock>>

Cached == {sg \in Segments \X Packed : cache[sg[1]][sg[2]] # "none"}
EmptyCache == [s \in Segments |-> [g \in Gens |-> "none"]]

Opens(r, stale) == reader' = [reader EXCEPT ![r].at = "open", ![r].stale = stale]

\* A PACKED file is opened once and its reader is kept by path (packed_reader).
ReadOpen(r) ==
    /\ reader[r].at = "pinned"
    /\ LET s == reader[r].seg
           g == reader[r].gen IN
       \/ /\ cache[s][g] # "none"
          /\ Opens(r, cache[s][g] = "unlinked")
          /\ UNCHANGED cache
       \/ /\ g \in Packed /\ cache[s][g] = "none" /\ file[s][g] # "none"
          /\ Opens(r, FALSE)
          /\ cache' = IF Cardinality(Cached) >= CacheLimit
                      THEN [EmptyCache EXCEPT ![s][g] = "current"]
                      ELSE [cache EXCEPT ![s][g] = "current"]
       \/ /\ g = Raw /\ file[s][g] # "none"
          /\ Opens(r, FALSE)
          /\ UNCHANGED cache
    /\ UNCHANGED <<manifest, disk, worker, degraded, mode, clock, used>>

ReadEnd(r) ==
    /\ reader[r].at = "open"
    /\ reader' = [reader EXCEPT ![r] = Idle]
    /\ UNCHANGED <<manifest, disk, worker, cache, degraded, mode, clock, used>>

-----------------------------------------------------------------------------
(* Time, damage, the end of the process and the next boot *)

Tick ==
    /\ clock < MaxClock
    /\ clock' = clock + 1
    /\ UNCHANGED <<manifest, disk, worker, reads, degraded, mode, used>>

\* A record of a catalogued file rots: its header and footer, which is all a
\* boot reads, stay intact.
Rot(s, g) ==
    /\ mode = "up" /\ file[s][g] = "ok"
    /\ Has(manifest[s], g) /\ Catalogued(hrkm[s])
    /\ Spend("rots", MaxRots)
    /\ file' = [file EXCEPT ![s][g] = "bad"]
    /\ UNCHANGED <<manifest, hrkm, receipts, worker, reads, degraded, mode, clock>>

Kill ==
    /\ mode = "up"
    /\ Spend("crashes", MaxCrashes)
    /\ mode' = "down" /\ degraded' = FALSE
    /\ manifest' = [s \in Segments |-> NotCatalogued]
    /\ lock' = "free" /\ queue' = {} /\ job' = Idle /\ doomed' = {}
    /\ reader' = [r \in Readers |-> Idle] /\ cache' = EmptyCache
    /\ UNCHANGED <<disk, clock>>

\* reconcile_raw: a RAW file no commit named is catalogued, whatever the
\* catalogue lost.
Reconciled ==
    [s \in Segments |-> IF ~Catalogued(hrkm[s]) /\ file[s][Raw] # "none"
                        THEN SealedRaw ELSE hrkm[s]]

(* What a boot insists on: a RAW file that its segment's descriptor does    *)
(* not name is tolerated only next to an active PACKED authority; one that  *)
(* is to be catalogued must be intact; and every generation that is not     *)
(* quarantined has its file.                                                *)
BootAccepts ==
    /\ \A s \in Segments : file[s][Raw] # "none" =>
          IF Catalogued(hrkm[s])
          THEN \/ Has(hrkm[s], Raw)
               \/ hrkm[s].active \in Packed /\ Authority(hrkm[s], hrkm[s].active)
          ELSE file[s][Raw] = "ok"
    /\ \A s \in Segments, g \in Gens : Authority(Reconciled[s], g) => file[s][g] # "none"

Boot ==
    /\ mode = "down"
    /\ IF BootAccepts
       THEN Commit(Reconciled) /\ mode' = "up"
       ELSE UNCHANGED <<manifest, hrkm>> /\ mode' = "refused"
    /\ UNCHANGED <<file, receipts, worker, reads, degraded, clock, used>>

-----------------------------------------------------------------------------
PackStep == (\E s \in Segments, t \in Packed : PackPick(s, t)) \/ PackWrite \/ PackReceipt
                \/ PackPublish \/ PackEnd
GcStep   == (\E s \in Segments, g \in Gens : GcUnlink(s, g)) \/ GcEnd
ReadStep == \E r \in Readers : ReadOpen(r) \/ ReadEnd(r)

Next ==
    \/ \E s \in Segments : Seal(s)
    \/ \E p \in Profiles : PackBegin(p)
    \/ \E s \in Segments, g \in Gens : Quarantine(s, g) \/ Rot(s, g)
    \/ \E s \in Segments, hold \in BOOLEAN, copies \in Copies : SetRetention(s, hold, copies)
    \/ \E quarantined \in BOOLEAN : GcCommit(quarantined)
    \/ \E r \in Readers, s \in Segments : ReadPin(r, s)
    \/ PackStep \/ GcStep \/ ReadStep
    \/ Tick \/ Kill \/ Boot

\* The thread that packs goes on until its pass is over.
Fairness == WF_vars(PackStep)

Spec == Init /\ [][Next]_vars
FairSpec == Spec /\ Fairness

-----------------------------------------------------------------------------
(* Properties *)

TypeOK ==
    /\ manifest \in [Segments -> Descriptor] /\ hrkm \in [Segments -> Descriptor]
    /\ file \in [Segments -> [Gens -> {"none", "ok", "bad"}]]
    /\ receipts \in [Segments -> [Gens -> Profiles \cup {NoProfile}]]
    /\ lock \in {"free", "pack", "gc"} /\ queue \subseteq Segments /\ job \in Job
    /\ doomed \subseteq Segments \X Gens
    /\ reader \in [Readers -> Reader]
    /\ cache \in [Segments -> [Gens -> {"none", "current", "unlinked"}]]
    /\ degraded \in BOOLEAN /\ mode \in {"up", "down", "refused"}
    /\ clock \in 0 .. MaxClock
    /\ used \in [packs : Nat, reads : Nat, retentions : Nat, rots : Nat, faults : Nat,
                 crashes : Nat]

(* The active generation of every catalogued segment has its file and is    *)
(* not quarantined, in memory and on the disk, whatever was collected,      *)
(* published half way or interrupted (gc.rs: metadata first, files later).  *)
ActiveIsThere(m) ==
    \A s \in Segments : Catalogued(m[s]) =>
        /\ m[s].status[m[s].active] = "active"
        /\ file[s][m[s].active] # "none"
AuthorityOnDisk == ActiveIsThere(manifest) /\ ActiveIsThere(hrkm)

(* No interleaving of seal, pack, quarantine, collection, failed commit and *)
(* kill leaves a directory and an HRKM that the next boot refuses.          *)
BootNeverRefuses == mode # "refused"

(* A reader finds the file of the generation it pinned, although it opens   *)
(* it after the mutex is released and a collection may be unlinking files.  *)
PinnedFileStays ==
    \A r \in Readers : reader[r].at = "pinned" => file[reader[r].seg][reader[r].gen] # "none"

(* A generation number names one file for ever (runtime.rs: a location is   *)
(* never overwritten), so a reader kept by path reads the catalogued file.  *)
NoStaleReader == \A r \in Readers : reader[r].at = "open" => ~reader[r].stale

(* A file is unlinked only once the catalogue in memory and the one on the  *)
(* disk both forgot its generation: a kill in between wastes space and      *)
(* loses nothing (the order of commit_gc).                                  *)
FilesOutliveCatalogue ==
    [][\A s \in Segments, g \in Gens : file[s][g] # "none" /\ file'[s][g] = "none"
           => ~Has(manifest[s], g) /\ ~Has(hrkm[s], g)]_vars

(* A damaged segment does not keep the others from being packed (B6): every *)
(* intact segment that a pass is to visit ends up packed.                   *)
OthersArePacked ==
    \A s \in Segments :
        s \in queue /\ file[s][Raw] = "ok" ~>
            \/ \E g \in Packed : Has(manifest[s], g)
            \/ file[s][Raw] = "bad"
=============================================================================
