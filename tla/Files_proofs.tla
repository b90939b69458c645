---------------------------- MODULE Files_proofs ----------------------------
(***************************************************************************)
(* The safety of HrklGenerations, of FileRaftLog and of HvmCheckpoint, for *)
(* every set of segments, readers, profiles and requests and every bound,  *)
(* and of the three side by side.                                          *)
(*                                                                         *)
(* AuthorityOnDisk alone is not inductive.  A collection works from the    *)
(* manifest in memory and a kill falls back on the one on the disk, which  *)
(* may differ after a commit that failed past the swap of CURRENT: so both *)
(* must be whole, and what a collection is about to unlink must be out of  *)
(* both.  What a packing has written must stay there until it is           *)
(* published, which packing_lock guarantees: so the lock and the job must  *)
(* agree.                                                                  *)
(*                                                                         *)
(* Nor is AnsweredSurvives.  The next record goes to the end of a file, so *)
(* what every shorter file replays to must be a log openraft may find (see *)
(* FilesHave); it is made from the memory, so the memory must agree with   *)
(* the file at every point of a call or of an open (CallFits); and an open *)
(* that fails or is killed leaves the old file or the new one, so either   *)
(* must do.  VotesFit says the same of meta.bin, and CommittedKept that    *)
(* the entry it calls committed is in whatever is found of the log.        *)
(*                                                                         *)
(* CheckpointWhole is about the file under the name hvm.hbt, but a request *)
(* makes the file long before it has that name.  So Alone says that a file *)
(* of two builders is one that two met in, BuilderInv what a file of one   *)
(* holds at every step of its making, RenamerInv what a renamed one holds  *)
(* until its request has told; no bound on the requests is in them.        *)
(***************************************************************************)
EXTENDS MCFiles, FiniteSetTheorems, NaturalsInduction, WellFoundedInduction,
        SequenceTheorems, TLAPS

-----------------------------------------------------------------------------
(* The inductive invariant of HrklGenerations *)

\* Every catalogued segment has an active generation, every catalogued
\* generation has its file, and no damaged RAW file is out of the catalogue.
WholeAt(d, f) ==
    /\ Catalogued(d) => d.status[d.active] = "active"
    /\ \A g \in Gens : Has(d, g) => f[g] # "none"
    /\ f[Raw] = "bad" => Catalogued(d)

WholeCatalogue(m, f) == \A s \in Segments : WholeAt(m[s], f[s])

UpOrEmpty ==
    /\ mode # "refused"
    /\ mode = "up" => WholeCatalogue(manifest, file)
    /\ mode # "up" =>
        /\ manifest = [s \in Segments |-> NotCatalogued]
        /\ lock = "free"
        /\ reader = [r \in Readers |-> Idle]

DoomedAreForgotten ==
    /\ lock # "gc" => doomed = {}
    /\ \A s \in Segments, g \in Gens : <<s, g>> \in doomed =>
        Catalogued(manifest[s]) /\ ~Has(manifest[s], g) /\ ~Has(hrkm[s], g)

JobHoldsLock ==
    /\ lock = "pack" <=> job # Idle
    /\ job.at \in {"written", "receipted"} => file[job.seg][job.target] # "none"

PinnedAreCatalogued ==
    \A r \in Readers : reader[r].at # "idle" => Has(manifest[reader[r].seg], reader[r].gen)

IInv ==
    /\ TypeOK
    /\ WholeCatalogue(hrkm, file)
    /\ UpOrEmpty
    /\ DoomedAreForgotten
    /\ JobHoldsLock
    /\ PinnedAreCatalogued

-----------------------------------------------------------------------------
(* Descriptors *)

LEMMA EmptyDescriptor ==
    /\ NotCatalogued \in Descriptor
    /\ ~Catalogued(NotCatalogued)
    /\ \A g \in Gens : ~Has(NotCatalogued, g)
  BY ConstantsAssumption DEF NotCatalogued, Descriptor, Status, Catalogued, Has, Gens, Raw

LEMMA RawDescriptor ==
    /\ SealedRaw \in Descriptor
    /\ SealedRaw.active = Raw
    /\ SealedRaw.status[Raw] = "active"
    /\ Catalogued(SealedRaw)
    /\ \A g \in Gens : Has(SealedRaw, g) => g = Raw
<1> DEFINE st == [NotCatalogued.status EXCEPT ![Raw] = "active"]
<1>1. Raw \in Gens
  BY ConstantsAssumption DEF Gens, Raw
<1>2. NotCatalogued.status = [g \in Gens |-> "none"] /\ NotCatalogued.active = Raw
  BY DEF NotCatalogued
<1>3. /\ st \in [Gens -> Status] /\ st[Raw] = "active"
      /\ \A g \in Gens : st[g] # "none" => g = Raw
  BY <1>1, <1>2 DEF Status
<1>4. SealedRaw = [NotCatalogued EXCEPT !.status = st]
  BY DEF SealedRaw
<1> HIDE DEF st
<1>5. SealedRaw \in Descriptor /\ SealedRaw.status = st /\ SealedRaw.active = Raw
  BY <1>2, <1>3, <1>4, EmptyDescriptor DEF Descriptor
<1> QED
  BY <1>1, <1>3, <1>5 DEF Catalogued, Has

LEMMA PackDescriptor ==
    ASSUME NEW d \in Descriptor, NEW t \in Packed, NEW now \in 0 .. MaxClock
    PROVE  /\ WithPack(d, t, now) \in Descriptor
           /\ WithPack(d, t, now).active = t
           /\ WithPack(d, t, now).status[t] = "active"
           /\ \A g \in Gens : Has(d, g) => Has(WithPack(d, t, now), g)
           /\ \A g \in Gens : Has(WithPack(d, t, now), g) => g = t \/ Has(d, g)
<1> DEFINE kept == d.status[Raw] \in {"none", "quarantined"}
           st == [d.status EXCEPT ![t] = "active",
                                  ![Raw] = IF kept THEN d.status[Raw] ELSE "superseded"]
           si == [d.since EXCEPT ![t] = 0, ![Raw] = IF kept THEN d.since[Raw] ELSE now]
<1>1. Raw \in Gens /\ t \in Gens /\ t # Raw
  BY ConstantsAssumption DEF Gens, Packed, Raw
<1>2. /\ d.status \in [Gens -> Status] /\ d.since \in [Gens -> 0 .. MaxClock]
      /\ d.hold \in BOOLEAN /\ d.copies \in Nat
  BY DEF Descriptor
<1>3. /\ st \in [Gens -> Status] /\ st[t] = "active"
      /\ \A g \in Gens : st[g] # "none" <=> g = t \/ d.status[g] # "none"
  BY <1>1, <1>2 DEF Status
<1>4. si \in [Gens -> 0 .. MaxClock]
  BY <1>1, <1>2, ConstantsAssumption
<1>5. WithPack(d, t, now) = [d EXCEPT !.status = st, !.since = si, !.active = t]
  BY DEF WithPack
<1> HIDE DEF st, si
<1>6. /\ WithPack(d, t, now) \in Descriptor
      /\ WithPack(d, t, now).status = st
      /\ WithPack(d, t, now).active = t
  BY <1>1, <1>3, <1>4, <1>5 DEF Descriptor
<1> QED
  BY <1>3, <1>6 DEF Has

LEMMA QuarantineDescriptor ==
    ASSUME NEW d \in Descriptor, NEW g \in Gens, NEW b \in Gens, NEW now \in 0 .. MaxClock,
           Has(d, g), Best(d, g, b)
    PROVE  /\ WithQuarantine(d, g, b, now) \in Descriptor
           /\ WithQuarantine(d, g, b, now).active = b
           /\ WithQuarantine(d, g, b, now).status[b] = "active"
           /\ \A h \in Gens : Has(d, h) <=> Has(WithQuarantine(d, g, b, now), h)
<1> DEFINE st == [d.status EXCEPT ![g] = "quarantined", ![b] = "active"]
           si == [d.since EXCEPT ![g] = now, ![b] = 0]
<1>1. d.status \in [Gens -> Status] /\ d.since \in [Gens -> 0 .. MaxClock]
  BY DEF Descriptor
<1>2. /\ st \in [Gens -> Status] /\ st[b] = "active"
      /\ \A h \in Gens : st[h] # "none" <=> d.status[h] # "none"
  BY <1>1 DEF Status, Best, Authority, Has
<1>3. si \in [Gens -> 0 .. MaxClock]
  BY <1>1, ConstantsAssumption
<1>4. WithQuarantine(d, g, b, now) = [d EXCEPT !.status = st, !.since = si, !.active = b]
  BY DEF WithQuarantine
<1> HIDE DEF st, si
<1>5. /\ WithQuarantine(d, g, b, now) \in Descriptor
      /\ WithQuarantine(d, g, b, now).status = st
      /\ WithQuarantine(d, g, b, now).active = b
  BY <1>2, <1>3, <1>4 DEF Descriptor
<1> QED
  BY <1>2, <1>5 DEF Has

LEMMA CollectedDescriptor ==
    ASSUME NEW d \in Descriptor, NEW gone, d.active \notin gone
    PROVE  /\ Without(d, gone) \in Descriptor
           /\ Without(d, gone).active = d.active
           /\ Without(d, gone).status[d.active] = d.status[d.active]
           /\ \A g \in Gens : Has(Without(d, gone), g) <=> Has(d, g) /\ g \notin gone
<1> DEFINE st == [g \in Gens |-> IF g \in gone THEN "none" ELSE d.status[g]]
           si == [g \in Gens |-> IF g \in gone THEN 0 ELSE d.since[g]]
<1>1. /\ d.status \in [Gens -> Status] /\ d.since \in [Gens -> 0 .. MaxClock]
      /\ d.active \in Gens
  BY DEF Descriptor
<1>2. /\ st \in [Gens -> Status] /\ st[d.active] = d.status[d.active]
      /\ \A g \in Gens : st[g] # "none" <=> d.status[g] # "none" /\ g \notin gone
  BY <1>1 DEF Status
<1>3. si \in [Gens -> 0 .. MaxClock]
  BY <1>1, ConstantsAssumption
<1>4. Without(d, gone) = [d EXCEPT !.status = st, !.since = si]
  BY DEF Without
<1> HIDE DEF st, si
<1>5. /\ Without(d, gone) \in Descriptor
      /\ Without(d, gone).status = st
      /\ Without(d, gone).active = d.active
  BY <1>2, <1>3, <1>4 DEF Descriptor
<1> QED
  BY <1>2, <1>5 DEF Has

LEMMA RetainedDescriptor ==
    ASSUME NEW d \in Descriptor, NEW hold \in BOOLEAN, NEW copies \in Nat
    PROVE  /\ [d EXCEPT !.hold = hold, !.copies = copies] \in Descriptor
           /\ [d EXCEPT !.hold = hold, !.copies = copies].active = d.active
           /\ [d EXCEPT !.hold = hold, !.copies = copies].status = d.status
  BY DEF Descriptor

-----------------------------------------------------------------------------
(* Types *)

LEMMA SpendCounts ==
    ASSUME TypeOK, NEW bound,
           NEW what \in {"packs", "reads", "retentions", "rots", "faults", "crashes"},
           Spend(what, bound)
    PROVE  used' \in [packs : Nat, reads : Nat, retentions : Nat, rots : Nat, faults : Nat,
                      crashes : Nat]
  BY DEF Spend, TypeOK

LEMMA CommitTypes ==
    ASSUME TypeOK, NEW m \in [Segments -> Descriptor],
           (Commit(m) /\ UNCHANGED used) \/ CommitFails(m)
    PROVE  /\ manifest' \in [Segments -> Descriptor] /\ hrkm' \in [Segments -> Descriptor]
           /\ used' \in [packs : Nat, reads : Nat, retentions : Nat, rots : Nat,
                         faults : Nat, crashes : Nat]
  BY SpendCounts DEF Commit, CommitFails, TypeOK

LEMMA ChangeTypes ==
    ASSUME TypeOK, NEW s \in Segments, NEW d \in Descriptor
    PROVE  /\ Change(s, d) \in [Segments -> Descriptor]
           /\ Change(s, d)[s] = d
           /\ \A t \in Segments \ {s} : Change(s, d)[t] = manifest[t]
  BY DEF Change, TypeOK

LEMMA WorkingJob ==
    ASSUME NEW j \in Job, j.at \in {"picked", "written", "receipted"}
    PROVE  /\ j.profile \in Profiles /\ j.seg \in Segments
           /\ j.target \in Packed /\ j.target \in Gens
           /\ [j EXCEPT !.at = "written"] \in Job
           /\ [j EXCEPT !.at = "receipted"] \in Job
           /\ [at |-> "between", profile |-> j.profile] \in Job
<1>1. j \in [at : {"picked", "written", "receipted"}, profile : Profiles,
             seg : Segments, target : Packed]
  BY DEF Job, Idle
<1>2. /\ [j EXCEPT !.at = "written"] \in [at : {"picked", "written", "receipted"},
              profile : Profiles, seg : Segments, target : Packed]
      /\ [j EXCEPT !.at = "receipted"] \in [at : {"picked", "written", "receipted"},
              profile : Profiles, seg : Segments, target : Packed]
  BY <1>1
<1>3. [at |-> "between", profile |-> j.profile] \in [at : {"between"}, profile : Profiles]
  BY <1>1
<1> QED
  BY <1>1, <1>2, <1>3 DEF Job, Packed

LEMMA BusyReader ==
    ASSUME NEW x \in Reader, x.at # "idle"
    PROVE  /\ x.seg \in Segments /\ x.gen \in Gens
           /\ \A stale \in BOOLEAN : [[x EXCEPT !.at = "open"] EXCEPT !.stale = stale] \in Reader
<1>1. x \in [at : {"pinned", "open"}, seg : Segments, gen : Gens, stale : BOOLEAN]
  BY DEF Reader, Idle
<1> QED
  BY <1>1 DEF Reader

LEMMA InitTypes == Init => TypeOK
<1> SUFFICES ASSUME Init PROVE TypeOK
  OBVIOUS
<1>1. /\ manifest \in [Segments -> Descriptor] /\ hrkm \in [Segments -> Descriptor]
      /\ clock \in 0 .. MaxClock
  BY EmptyDescriptor, ConstantsAssumption DEF Init
<1>2. /\ job \in Job /\ reader \in [Readers -> Reader]
      /\ doomed \subseteq Segments \X Gens /\ queue \subseteq Segments
  BY DEF Init, Job, Reader
<1>3. used \in [packs : Nat, reads : Nat, retentions : Nat, rots : Nat, faults : Nat,
                crashes : Nat]
  BY DEF Init
<1>4. /\ file \in [Segments -> [Gens -> {"none", "ok", "bad"}]]
      /\ receipts \in [Segments -> [Gens -> Profiles \cup {NoProfile}]]
      /\ cache \in [Segments -> [Gens -> {"none", "current", "unlinked"}]]
  BY DEF Init
<1> QED
  BY <1>1, <1>2, <1>3, <1>4 DEF Init, TypeOK

LEMMA PackTypes == TypeOK /\ (PackStep \/ \E p \in Profiles : PackBegin(p)) => TypeOK'
<1> SUFFICES ASSUME TypeOK, PackStep \/ \E p \in Profiles : PackBegin(p) PROVE TypeOK'
  OBVIOUS
<1> USE DEF disk, worker, reads
<1>1. ASSUME NEW p \in Profiles, PackBegin(p) PROVE TypeOK'
  BY <1>1, SpendCounts DEF PackBegin, TypeOK, Job
<1>2. ASSUME NEW s \in Segments, NEW t \in Packed, PackPick(s, t) PROVE TypeOK'
  BY <1>2 DEF PackPick, TypeOK, Job, Idle
<1>3. job \in Job
  BY DEF TypeOK
<1>4. CASE PackWrite
  <2>1. job' \in Job
    BY <1>3, <1>4, WorkingJob DEF PackWrite, JobAt, JobEnds
  <2>2. used' \in [packs : Nat, reads : Nat, retentions : Nat, rots : Nat, faults : Nat,
                   crashes : Nat]
    BY <1>4, SpendCounts DEF PackWrite, TypeOK
  <2>3. file' \in [Segments -> [Gens -> {"none", "ok", "bad"}]]
    <3>1. job.seg \in Segments /\ job.target \in Gens
      BY <1>3, <1>4, WorkingJob DEF PackWrite, JobAt
    <3>2. file' = [file EXCEPT ![job.seg][job.target] = "ok"] \/ UNCHANGED file
      BY <1>4 DEF PackWrite
    <3>3. file \in [Segments -> [Gens -> {"none", "ok", "bad"}]]
      BY DEF TypeOK
    <3> QED
      BY <3>1, <3>2, <3>3
  <2> QED
    BY <1>4, <2>1, <2>2, <2>3 DEF PackWrite, JobAt, TypeOK
<1>5. CASE PackReceipt
  <2>1. job' \in Job
    BY <1>3, <1>5, WorkingJob DEF PackReceipt, JobAt, JobEnds
  <2>2. receipts' \in [Segments -> [Gens -> Profiles \cup {NoProfile}]]
    <3>1. job.seg \in Segments /\ job.target \in Gens /\ job.profile \in Profiles
      BY <1>3, <1>5, WorkingJob DEF PackReceipt, JobAt
    <3>2. \/ receipts' = [receipts EXCEPT ![job.seg][job.target] = job.profile]
          \/ UNCHANGED receipts
      BY <1>5 DEF PackReceipt
    <3>3. receipts \in [Segments -> [Gens -> Profiles \cup {NoProfile}]]
      BY DEF TypeOK
    <3> QED
      BY <3>1, <3>2, <3>3
  <2> QED
    BY <1>5, <2>1, <2>2 DEF PackReceipt, JobAt, TypeOK
<1>6. CASE PackPublish
  <2> DEFINE m == Change(job.seg, WithPack(manifest[job.seg], job.target, clock))
  <2>1. m \in [Segments -> Descriptor]
    <3>1. job.seg \in Segments /\ job.target \in Packed
      BY <1>3, <1>6, WorkingJob DEF PackPublish, JobAt
    <3>2. manifest[job.seg] \in Descriptor /\ clock \in 0 .. MaxClock
      BY <3>1 DEF TypeOK
    <3>3. WithPack(manifest[job.seg], job.target, clock) \in Descriptor
      BY <3>1, <3>2, PackDescriptor
    <3> QED
      BY <3>1, <3>3, ChangeTypes
  <2>2. (Commit(m) /\ UNCHANGED used) \/ CommitFails(m)
    BY <1>6 DEF PackPublish
  <2> HIDE DEF m
  <2>3. job' \in Job
    BY <1>3, <1>6, WorkingJob DEF PackPublish, JobAt, JobEnds
  <2> QED
    BY <1>6, <2>1, <2>2, <2>3, CommitTypes DEF PackPublish, JobAt, TypeOK
<1>7. CASE PackEnd
  BY <1>7 DEF PackEnd, TypeOK, Job
<1> QED
  BY <1>1, <1>2, <1>4, <1>5, <1>6, <1>7 DEF PackStep

LEMMA CatalogueTypes ==
    ASSUME TypeOK,
           \/ \E s \in Segments : Seal(s)
           \/ \E s \in Segments, g \in Gens : Quarantine(s, g)
           \/ \E s \in Segments, hold \in BOOLEAN, copies \in Copies : SetRetention(s, hold, copies)
           \/ \E quarantined \in BOOLEAN : GcCommit(quarantined)
    PROVE  TypeOK'
<1> USE DEF disk, worker, reads
<1>1. ASSUME NEW s \in Segments, Seal(s) PROVE TypeOK'
  <2>1. Change(s, SealedRaw) \in [Segments -> Descriptor]
    BY RawDescriptor, ChangeTypes
  <2>2. file' \in [Segments -> [Gens -> {"none", "ok", "bad"}]] /\ degraded' \in BOOLEAN
    BY <1>1 DEF Seal, TypeOK
  <2>3. (Commit(Change(s, SealedRaw)) /\ UNCHANGED used) \/ CommitFails(Change(s, SealedRaw))
    BY <1>1 DEF Seal
  <2> QED
    BY <1>1, <2>1, <2>2, <2>3, CommitTypes DEF Seal, TypeOK
<1>2. ASSUME NEW s \in Segments, NEW g \in Gens, Quarantine(s, g) PROVE TypeOK'
  <2>1. PICK b \in Gens :
          /\ Best(manifest[s], g, b)
          /\ \/ Commit(Change(s, WithQuarantine(manifest[s], g, b, clock))) /\ UNCHANGED used
             \/ CommitFails(Change(s, WithQuarantine(manifest[s], g, b, clock)))
    BY <1>2 DEF Quarantine
  <2>2. Change(s, WithQuarantine(manifest[s], g, b, clock)) \in [Segments -> Descriptor]
    BY <1>2, <2>1, QuarantineDescriptor, ChangeTypes DEF Quarantine, TypeOK
  <2> QED
    BY <1>2, <2>1, <2>2, CommitTypes DEF Quarantine, TypeOK
<1>3. ASSUME NEW s \in Segments, NEW hold \in BOOLEAN, NEW copies \in Copies,
             SetRetention(s, hold, copies)
      PROVE TypeOK'
  <2> DEFINE m == Change(s, [manifest[s] EXCEPT !.hold = hold, !.copies = copies])
  <2>1. m \in [Segments -> Descriptor]
    BY RetainedDescriptor, ChangeTypes, ConstantsAssumption DEF TypeOK
  <2>2. \/ Commit(m) /\ Spend("retentions", MaxRetentions)
        \/ CommitFails(m)
    BY <1>3 DEF SetRetention
  <2> HIDE DEF m
  <2>3. manifest' \in [Segments -> Descriptor] /\ hrkm' \in [Segments -> Descriptor]
    BY <2>1, <2>2 DEF Commit, CommitFails, TypeOK
  <2>4. used' \in [packs : Nat, reads : Nat, retentions : Nat, rots : Nat, faults : Nat,
                   crashes : Nat]
    BY <2>2, SpendCounts DEF CommitFails
  <2> QED
    BY <1>3, <2>3, <2>4 DEF SetRetention, TypeOK
<1>4. ASSUME NEW quarantined \in BOOLEAN, GcCommit(quarantined) PROVE TypeOK'
  <2> DEFINE m == [s \in Segments |-> Without(manifest[s], Of(Plan(quarantined), s))]
  <2>1. m \in [Segments -> Descriptor]
    <3> SUFFICES ASSUME NEW s \in Segments
                 PROVE  Without(manifest[s], Of(Plan(quarantined), s)) \in Descriptor
      OBVIOUS
    <3>1. manifest[s].active \notin Of(Plan(quarantined), s)
      BY DEF Of, Plan, Collectable
    <3> QED
      BY <3>1, CollectedDescriptor DEF TypeOK
  <2>2. (Commit(m) /\ UNCHANGED used) \/ CommitFails(m)
    BY <1>4 DEF GcCommit
  <2>3. Plan(quarantined) \subseteq Segments \X Gens
    BY DEF Plan
  <2> HIDE DEF m
  <2>4. lock' \in {"free", "pack", "gc"} /\ doomed' \subseteq Segments \X Gens
    BY <1>4, <2>3 DEF GcCommit, TypeOK
  <2> QED
    BY <1>4, <2>1, <2>2, <2>4, CommitTypes DEF GcCommit, TypeOK
<1> QED
  BY <1>1, <1>2, <1>3, <1>4

LEMMA OtherTypes ==
    ASSUME TypeOK,
           \/ \E s \in Segments, g \in Gens : Rot(s, g)
           \/ \E r \in Readers, s \in Segments : ReadPin(r, s)
           \/ GcStep \/ ReadStep \/ Tick \/ Kill \/ Boot
    PROVE  TypeOK'
<1> USE DEF disk, worker, reads
<1>1. ASSUME NEW s \in Segments, NEW g \in Gens, Rot(s, g) PROVE TypeOK'
  BY <1>1, SpendCounts DEF Rot, TypeOK
<1>2. ASSUME NEW r \in Readers, NEW s \in Segments, ReadPin(r, s) PROVE TypeOK'
  BY <1>2, SpendCounts DEF ReadPin, TypeOK, Reader, Descriptor
<1>3. ASSUME NEW s \in Segments, NEW g \in Gens, GcUnlink(s, g) PROVE TypeOK'
  <2>1. file' \in [Segments -> [Gens -> {"none", "ok", "bad"}]]
    <3>1. file' = [file EXCEPT ![s][g] = "none"] \/ UNCHANGED file
      BY <1>3 DEF GcUnlink
    <3>2. file \in [Segments -> [Gens -> {"none", "ok", "bad"}]]
      BY DEF TypeOK
    <3> QED
      BY <3>1, <3>2
  <2>2. cache' \in [Segments -> [Gens -> {"none", "current", "unlinked"}]]
    <3> DEFINE c == IF cache[s][g] = "current" THEN "unlinked" ELSE cache[s][g]
    <3>1. cache' = [cache EXCEPT ![s][g] = c] \/ UNCHANGED cache
      BY <1>3 DEF GcUnlink
    <3>2. cache \in [Segments -> [Gens -> {"none", "current", "unlinked"}]]
      BY DEF TypeOK
    <3>3. c \in {"none", "current", "unlinked"}
      BY <3>2
    <3> HIDE DEF c
    <3> QED
      BY <3>1, <3>2, <3>3
  <2>3. used' \in [packs : Nat, reads : Nat, retentions : Nat, rots : Nat, faults : Nat,
                   crashes : Nat]
    BY <1>3, SpendCounts DEF GcUnlink, TypeOK
  <2> QED
    BY <1>3, <2>1, <2>2, <2>3 DEF GcUnlink, TypeOK
<1>4. CASE GcEnd
  BY <1>4 DEF GcEnd, TypeOK
<1>5. ASSUME NEW r \in Readers, ReadOpen(r) PROVE TypeOK'
  <2>1. reader[r] \in Reader /\ reader[r].at # "idle"
    BY <1>5 DEF ReadOpen, TypeOK
  <2>2. PICK stale \in BOOLEAN : Opens(r, stale)
    BY <1>5 DEF ReadOpen
  <2>3. reader' \in [Readers -> Reader]
    <3>1. reader' = [reader EXCEPT ![r] = [[reader[r] EXCEPT !.at = "open"] EXCEPT !.stale = stale]]
      BY <2>1, <2>2 DEF Opens, TypeOK
    <3> QED
      BY <2>1, <3>1, BusyReader DEF TypeOK
  <2>4. cache' \in [Segments -> [Gens -> {"none", "current", "unlinked"}]]
    <3>1. EmptyCache \in [Segments -> [Gens -> {"none", "current", "unlinked"}]]
      BY DEF EmptyCache
    <3>2. reader[r].seg \in Segments /\ reader[r].gen \in Gens
      BY <2>1, BusyReader
    <3>3. \/ UNCHANGED cache
          \/ cache' = [EmptyCache EXCEPT ![reader[r].seg][reader[r].gen] = "current"]
          \/ cache' = [cache EXCEPT ![reader[r].seg][reader[r].gen] = "current"]
      BY <1>5 DEF ReadOpen
    <3>4. cache \in [Segments -> [Gens -> {"none", "current", "unlinked"}]]
      BY DEF TypeOK
    <3>5. CASE cache' = [EmptyCache EXCEPT ![reader[r].seg][reader[r].gen] = "current"]
      BY <3>1, <3>2, <3>5
    <3>6. CASE cache' = [cache EXCEPT ![reader[r].seg][reader[r].gen] = "current"]
      BY <3>2, <3>4, <3>6
    <3> QED
      BY <3>3, <3>4, <3>5, <3>6
  <2> QED
    BY <1>5, <2>3, <2>4 DEF ReadOpen, TypeOK
<1>6. ASSUME NEW r \in Readers, ReadEnd(r) PROVE TypeOK'
  BY <1>6 DEF ReadEnd, TypeOK, Reader
<1>7. CASE Tick
  BY <1>7, ConstantsAssumption DEF Tick, TypeOK
<1>8. CASE Kill
  BY <1>8, EmptyDescriptor, SpendCounts DEF Kill, TypeOK, Job, Reader, EmptyCache
<1>9. CASE Boot
  BY <1>9, RawDescriptor DEF Boot, Commit, Reconciled, TypeOK
<1> QED
  BY <1>1, <1>2, <1>3, <1>4, <1>5, <1>6, <1>7, <1>8, <1>9 DEF GcStep, ReadStep

LEMMA TypesKept == TypeOK /\ [Next]_vars => TypeOK'
<1>1. TypeOK /\ UNCHANGED vars => TypeOK'
  BY DEF TypeOK, vars, disk, worker, reads
<1> QED
  BY <1>1, PackTypes, CatalogueTypes, OtherTypes DEF Next

\* Every variable keeps its type: in particular a collection, a packing or a
\* quarantine makes a well-formed descriptor of a well-formed one.
THEOREM TypeCorrect == Spec => []TypeOK
  BY InitTypes, TypesKept, PTL DEF Spec

-----------------------------------------------------------------------------
(* The inductive invariant *)

LEMMA ChangeIsWhole ==
    ASSUME TypeOK, NEW f, WholeCatalogue(manifest, f),
           NEW s \in Segments, NEW d \in Descriptor, WholeAt(d, f[s])
    PROVE  WholeCatalogue(Change(s, d), f)
  BY ChangeTypes DEF WholeCatalogue

LEMMA CommitIsWhole ==
    ASSUME NEW f, WholeCatalogue(manifest, f), WholeCatalogue(hrkm, f), NEW m, WholeCatalogue(m, f),
           Commit(m) \/ CommitFails(m)
    PROVE  WholeCatalogue(manifest', f) /\ WholeCatalogue(hrkm', f)
  BY DEF Commit, CommitFails

LEMMA MoreFilesAreWhole ==
    ASSUME NEW m, WholeCatalogue(m, file),
           \A s \in Segments, g \in Gens : file[s][g] # "none" => file'[s][g] # "none",
           \A s \in Segments : file'[s][Raw] = "bad" => file[s][Raw] = "bad"
    PROVE  WholeCatalogue(m, file')
  BY DEF WholeCatalogue, WholeAt

LEMMA InitInvariant == Init => IInv
<1> SUFFICES ASSUME Init PROVE IInv
  OBVIOUS
<1>1. TypeOK
  BY InitTypes
<1>2. Raw \in Gens
  BY ConstantsAssumption DEF Gens, Raw
<1>3. \A s \in Segments : WholeAt(NotCatalogued, file[s])
  BY <1>2, EmptyDescriptor DEF WholeAt, Init
<1>4. WholeCatalogue(manifest, file) /\ WholeCatalogue(hrkm, file)
  BY <1>3 DEF Init, WholeCatalogue
<1> QED
  BY <1>1, <1>4 DEF Init, IInv, UpOrEmpty, DoomedAreForgotten, JobHoldsLock,
                    PinnedAreCatalogued, Idle

LEMMA SealKeepsInvariant ==
    ASSUME IInv, TypeOK', NEW s \in Segments, Seal(s)
    PROVE  IInv'
<1> USE DEF IInv, worker, reads
<1>1. /\ mode = "up" /\ mode' = "up"
      /\ ~Catalogued(manifest[s]) /\ UNCHANGED <<lock, queue, job, doomed, reader>>
      /\ Commit(Change(s, SealedRaw)) \/ CommitFails(Change(s, SealedRaw))
  BY DEF Seal
<1>2. Raw \in Gens
  BY ConstantsAssumption DEF Gens, Raw
<1>3. /\ file'[s][Raw] = "ok"
      /\ \A t \in Segments, g \in Gens : <<t, g>> # <<s, Raw>> => file'[t][g] = file[t][g]
  BY <1>2 DEF Seal, TypeOK
<1>4. WholeCatalogue(manifest, file') /\ WholeCatalogue(hrkm, file')
  BY <1>1, <1>2, <1>3, MoreFilesAreWhole DEF UpOrEmpty
<1>5. WholeAt(SealedRaw, file'[s])
  BY <1>3, RawDescriptor DEF WholeAt
<1>6. WholeCatalogue(Change(s, SealedRaw), file')
  BY <1>4, <1>5, ChangeIsWhole, RawDescriptor
<1>7. WholeCatalogue(manifest', file') /\ WholeCatalogue(hrkm', file')
  BY <1>1, <1>4, <1>6, CommitIsWhole
<1>8. \A t \in Segments \ {s} : manifest'[t] = manifest[t] /\ (hrkm'[t] = hrkm[t] \/ hrkm'[t] = manifest[t])
  BY <1>1, ChangeTypes, RawDescriptor DEF Commit, CommitFails
<1>9. \A g \in Gens : ~Has(manifest[s], g)
  BY <1>1 DEF Catalogued
<1>10. DoomedAreForgotten'
  <2>1. ASSUME NEW t \in Segments, NEW g \in Gens, <<t, g>> \in doomed
        PROVE  Catalogued(manifest'[t]) /\ ~Has(manifest'[t], g) /\ ~Has(hrkm'[t], g)
    <3>1. Catalogued(manifest[t]) /\ ~Has(manifest[t], g) /\ ~Has(hrkm[t], g)
      BY <2>1 DEF DoomedAreForgotten
    <3>2. t # s
      BY <1>1, <3>1
    <3>3. manifest'[t] = manifest[t] /\ (hrkm'[t] = hrkm[t] \/ hrkm'[t] = manifest[t])
      BY <1>8, <3>2
    <3> QED
      BY <3>1, <3>3
  <2> QED
    BY <1>1, <2>1 DEF DoomedAreForgotten
<1>11. JobHoldsLock'
  <2>1. lock' = "pack" <=> job' # Idle
    BY <1>1 DEF JobHoldsLock
  <2>2. ASSUME job.at \in {"written", "receipted"} PROVE file'[job.seg][job.target] # "none"
    <3>1. job \in Job
      BY DEF TypeOK
    <3>2. job.seg \in Segments /\ job.target \in Gens
      BY <2>2, <3>1, WorkingJob
    <3>3. file[job.seg][job.target] # "none"
      BY <2>2 DEF JobHoldsLock
    <3> QED
      BY <1>3, <3>2, <3>3
  <2> QED
    BY <1>1, <2>1, <2>2 DEF JobHoldsLock
<1>12. PinnedAreCatalogued'
  BY <1>1, <1>8, <1>9, BusyReader DEF PinnedAreCatalogued, TypeOK
<1> QED
  BY <1>1, <1>7, <1>10, <1>11, <1>12 DEF UpOrEmpty

\* A change of one catalogued segment that forgets no generation.
LEMMA AmendKeepsInvariant ==
    ASSUME IInv, TypeOK', mode = "up", NEW s \in Segments, NEW d \in Descriptor,
           Catalogued(manifest[s]),
           WholeAt(d, file[s]),
           \A g \in Gens : Has(manifest[s], g) => Has(d, g),
           \A g \in Gens : Has(d, g) => Has(manifest[s], g) \/ <<s, g>> \notin doomed,
           Commit(Change(s, d)) \/ CommitFails(Change(s, d)),
           UNCHANGED <<file, lock, doomed, reader, mode>>,
           lock' = "pack" <=> job' # Idle,
           job'.at \notin {"written", "receipted"} \/ UNCHANGED job
    PROVE  IInv'
<1> USE DEF IInv
<1>1. WholeCatalogue(manifest', file) /\ WholeCatalogue(hrkm', file)
  BY ChangeIsWhole, CommitIsWhole DEF UpOrEmpty
<1>2. /\ \A t \in Segments : manifest'[t] = manifest[t] \/ (t = s /\ manifest'[t] = d)
      /\ \A t \in Segments : hrkm'[t] \in {hrkm[t], manifest[t]} \/ (t = s /\ hrkm'[t] = d)
  <2> DEFINE m == Change(s, d)
  <2>1. m[s] = d /\ \A t \in Segments \ {s} : m[t] = manifest[t]
    BY ChangeTypes
  <2>2. manifest' \in {manifest, m} /\ hrkm' \in {hrkm, m}
    BY DEF Commit, CommitFails
  <2> HIDE DEF m
  <2> QED
    BY <2>1, <2>2
<1>3. Catalogued(d)
  BY DEF Catalogued
<1>4. DoomedAreForgotten'
  <2>1. ASSUME NEW t \in Segments, NEW g \in Gens, <<t, g>> \in doomed
        PROVE  Catalogued(manifest'[t]) /\ ~Has(manifest'[t], g) /\ ~Has(hrkm'[t], g)
    <3>1. Catalogued(manifest[t]) /\ ~Has(manifest[t], g) /\ ~Has(hrkm[t], g)
      BY <2>1 DEF DoomedAreForgotten
    <3>2. t = s => ~Has(d, g)
      BY <2>1, <3>1
    <3>3. Catalogued(manifest'[t]) /\ ~Has(manifest'[t], g)
      BY <1>2, <1>3, <3>1, <3>2
    <3>4. hrkm'[t] = hrkm[t] \/ hrkm'[t] = manifest[t] \/ (t = s /\ hrkm'[t] = d)
      BY <1>2
    <3> QED
      BY <3>1, <3>2, <3>3, <3>4
  <2> QED
    BY <2>1 DEF DoomedAreForgotten
<1>5. JobHoldsLock'
  BY DEF JobHoldsLock
<1>6. PinnedAreCatalogued'
  <2> SUFFICES ASSUME NEW r \in Readers, reader[r].at # "idle"
               PROVE  Has(manifest'[reader[r].seg], reader[r].gen)
    BY DEF PinnedAreCatalogued
  <2>1. reader[r].seg \in Segments /\ reader[r].gen \in Gens
    BY BusyReader DEF TypeOK
  <2>2. Has(manifest[reader[r].seg], reader[r].gen)
    BY DEF PinnedAreCatalogued
  <2> QED
    BY <1>2, <2>1, <2>2
<1> QED
  BY <1>1, <1>4, <1>5, <1>6 DEF UpOrEmpty

LEMMA PublishKeepsInvariant == IInv /\ TypeOK' /\ PackPublish => IInv'
<1> SUFFICES ASSUME IInv, TypeOK', PackPublish PROVE IInv'
  OBVIOUS
<1> USE DEF IInv
<1> DEFINE s == job.seg
           t == job.target
           d == WithPack(manifest[s], t, clock)
<1>1. /\ job \in Job /\ job.at = "receipted" /\ clock \in 0 .. MaxClock
      /\ manifest \in [Segments -> Descriptor]
  BY DEF PackPublish, JobAt, TypeOK
<1>2. s \in Segments /\ t \in Packed /\ t \in Gens /\ lock = "pack" /\ mode = "up"
  <2>1. job # Idle
    BY <1>1 DEF Idle
  <2>2. lock = "pack" /\ mode = "up"
    BY <2>1 DEF JobHoldsLock, UpOrEmpty, TypeOK
  <2> QED
    BY <1>1, <2>2, WorkingJob
<1>4. Has(manifest[s], Raw) /\ (Commit(Change(s, d)) \/ CommitFails(Change(s, d)))
  BY DEF PackPublish
<1>5. /\ d \in Descriptor /\ d.active = t /\ d.status[t] = "active"
      /\ \A g \in Gens : Has(manifest[s], g) => Has(d, g)
      /\ \A g \in Gens : Has(d, g) => g = t \/ Has(manifest[s], g)
  BY <1>1, <1>2, PackDescriptor
<1>6. file[s][t] # "none" /\ WholeCatalogue(manifest, file) /\ doomed = {}
  BY <1>1, <1>2 DEF JobHoldsLock, UpOrEmpty, DoomedAreForgotten
<1>7. Catalogued(manifest[s])
  BY <1>4, ConstantsAssumption DEF Catalogued, Gens, Raw
<1> HIDE DEF d
<1>8. Catalogued(d)
  BY <1>5, <1>7 DEF Catalogued
<1>9. WholeAt(d, file[s])
  BY <1>2, <1>5, <1>6, <1>8 DEF WholeCatalogue, WholeAt
<1>10. /\ UNCHANGED <<file, lock, doomed, reader, mode>>
       /\ job' # Idle /\ job'.at = "between"
  BY DEF PackPublish, JobAt, JobEnds, reads, Idle
<1> HIDE DEF s, t
<1> QED
  BY <1>2, <1>4, <1>5, <1>6, <1>7, <1>9, <1>10, AmendKeepsInvariant

LEMMA QuarantineKeepsInvariant ==
    ASSUME IInv, TypeOK', NEW s \in Segments, NEW g \in Gens, Quarantine(s, g)
    PROVE  IInv'
<1> USE DEF IInv
<1>1. PICK b \in Gens :
        /\ Best(manifest[s], g, b)
        /\ \/ Commit(Change(s, WithQuarantine(manifest[s], g, b, clock)))
           \/ CommitFails(Change(s, WithQuarantine(manifest[s], g, b, clock)))
  BY DEF Quarantine
<1> DEFINE d == WithQuarantine(manifest[s], g, b, clock)
<1>2. /\ mode = "up" /\ Has(manifest[s], g) /\ WholeCatalogue(manifest, file)
      /\ UNCHANGED <<file, lock, doomed, reader, mode, job>>
  BY DEF Quarantine, worker, reads, UpOrEmpty
<1>3. /\ d \in Descriptor /\ d.active = b /\ d.status[b] = "active"
      /\ \A h \in Gens : Has(manifest[s], h) <=> Has(d, h)
  BY <1>1, <1>2, QuarantineDescriptor DEF TypeOK
<1>4. Commit(Change(s, d)) \/ CommitFails(Change(s, d))
  BY <1>1
<1> HIDE DEF d
<1>5. Catalogued(manifest[s]) /\ Catalogued(d)
  BY <1>2, <1>3 DEF Catalogued
<1>6. WholeAt(d, file[s])
  BY <1>2, <1>3, <1>5 DEF WholeCatalogue, WholeAt
<1>7. lock' = "pack" <=> job' # Idle
  BY <1>2 DEF JobHoldsLock
<1> QED
  BY <1>2, <1>3, <1>4, <1>5, <1>6, <1>7, AmendKeepsInvariant

LEMMA RetentionKeepsInvariant ==
    ASSUME IInv, TypeOK', NEW s \in Segments, NEW hold \in BOOLEAN, NEW copies \in Copies,
           SetRetention(s, hold, copies)
    PROVE  IInv'
<1> USE DEF IInv
<1> DEFINE d == [manifest[s] EXCEPT !.hold = hold, !.copies = copies]
<1>1. /\ mode = "up" /\ Catalogued(manifest[s]) /\ WholeCatalogue(manifest, file)
      /\ UNCHANGED <<file, lock, doomed, reader, mode, job>>
  BY DEF SetRetention, worker, reads, UpOrEmpty
<1>2. d \in Descriptor /\ d.active = manifest[s].active /\ d.status = manifest[s].status
  <2>1. manifest[s] \in Descriptor /\ copies \in Nat
    BY ConstantsAssumption DEF TypeOK
  <2> QED
    BY <2>1 DEF Descriptor
<1>3. Commit(Change(s, d)) \/ CommitFails(Change(s, d))
  BY DEF SetRetention
<1> HIDE DEF d
<1>4. \A g \in Gens : Has(manifest[s], g) <=> Has(d, g)
  BY <1>2 DEF Has
<1>5. Catalogued(d)
  BY <1>1, <1>4 DEF Catalogued
<1>6. WholeAt(d, file[s])
  BY <1>1, <1>2, <1>4, <1>5 DEF WholeCatalogue, WholeAt
<1>7. lock' = "pack" <=> job' # Idle
  BY <1>1 DEF JobHoldsLock
<1> QED
  BY <1>1, <1>2, <1>3, <1>4, <1>6, <1>7, AmendKeepsInvariant

LEMMA CollectionKeepsInvariant ==
    ASSUME IInv, TypeOK', NEW quarantined \in BOOLEAN, GcCommit(quarantined)
    PROVE  IInv'
<1> USE DEF IInv
<1> DEFINE plan == Plan(quarantined)
           m == [s \in Segments |-> Without(manifest[s], Of(plan, s))]
<1>1. /\ mode = "up" /\ lock = "free" /\ UNCHANGED <<file, job, reader, mode>>
      /\ \/ Commit(m) /\ lock' = "gc" /\ doomed' = plan
         \/ CommitFails(m) /\ UNCHANGED <<lock, doomed>>
  BY DEF GcCommit, reads
<1>2. ASSUME NEW s \in Segments
      PROVE  /\ manifest[s].active \notin Of(plan, s)
             /\ \A g \in Gens : g \in Of(plan, s) <=> <<s, g>> \in plan
             /\ \A g \in Gens : <<s, g>> \in plan => ~Pinned(s, g)
  BY DEF Of, Plan, Collectable
<1> HIDE DEF plan
<1>3. ASSUME NEW s \in Segments
      PROVE  /\ m[s].active = manifest[s].active
             /\ m[s].status[m[s].active] = manifest[s].status[manifest[s].active]
             /\ \A g \in Gens : Has(m[s], g) <=> Has(manifest[s], g) /\ <<s, g>> \notin plan
  <2>1. manifest[s] \in Descriptor
    BY DEF TypeOK
  <2>2. m[s] = Without(manifest[s], Of(plan, s))
    OBVIOUS
  <2> HIDE DEF m
  <2> QED
    BY <1>2, <2>1, <2>2, CollectedDescriptor
<1> HIDE DEF m
<1>4. ASSUME NEW s \in Segments PROVE Catalogued(m[s]) <=> Catalogued(manifest[s])
  <2>1. Catalogued(m[s]) => Catalogued(manifest[s])
    BY <1>3 DEF Catalogued
  <2>2. ASSUME Catalogued(manifest[s]) PROVE Catalogued(m[s])
    <3>1. manifest[s].status[manifest[s].active] = "active"
      BY <1>1, <2>2 DEF UpOrEmpty, WholeCatalogue, WholeAt
    <3>2. m[s].active \in Gens
      BY <1>3 DEF TypeOK, Descriptor
    <3> QED
      BY <1>3, <3>1, <3>2 DEF Catalogued, Has
  <2> QED
    BY <2>1, <2>2
<1>5. WholeCatalogue(manifest, file)
  BY <1>1 DEF UpOrEmpty
<1>6. WholeCatalogue(m, file)
  BY <1>3, <1>4, <1>5 DEF WholeCatalogue, WholeAt
<1>7. WholeCatalogue(manifest', file) /\ WholeCatalogue(hrkm', file)
  BY <1>1, <1>5, <1>6, CommitIsWhole
<1>8. DoomedAreForgotten'
  <2>1. CASE Commit(m) /\ lock' = "gc" /\ doomed' = plan
    <3>1. ASSUME NEW s \in Segments, NEW g \in Gens, <<s, g>> \in plan
          PROVE  Catalogued(m[s]) /\ ~Has(m[s], g)
      <4>1. Has(manifest[s], g)
        BY <3>1 DEF plan, Plan, Collectable, Has
      <4> QED
        BY <1>3, <1>4, <3>1, <4>1 DEF Catalogued
    <3> QED
      BY <2>1, <3>1 DEF Commit, DoomedAreForgotten
  <2>2. CASE CommitFails(m) /\ UNCHANGED <<lock, doomed>>
    BY <1>1, <2>2 DEF DoomedAreForgotten
  <2> QED
    BY <1>1, <2>1, <2>2
<1>9. JobHoldsLock'
  BY <1>1 DEF JobHoldsLock
<1>10. PinnedAreCatalogued'
  <2>1. ASSUME NEW r \in Readers, reader[r].at # "idle"
        PROVE  Has(manifest'[reader[r].seg], reader[r].gen)
    <3>1. reader[r].seg \in Segments /\ reader[r].gen \in Gens
      BY <2>1, BusyReader DEF TypeOK
    <3>2. Has(manifest[reader[r].seg], reader[r].gen)
      BY <2>1 DEF PinnedAreCatalogued
    <3>3. <<reader[r].seg, reader[r].gen>> \notin plan
      BY <1>2, <2>1, <3>1 DEF Pinned
    <3>4. Has(m[reader[r].seg], reader[r].gen)
      BY <1>3, <3>1, <3>2, <3>3
    <3> QED
      BY <1>1, <3>2, <3>4 DEF Commit, CommitFails
  <2> QED
    BY <1>1, <2>1 DEF PinnedAreCatalogued
<1> QED
  BY <1>1, <1>7, <1>8, <1>9, <1>10 DEF UpOrEmpty

LEMMA UnlinkKeepsInvariant ==
    ASSUME IInv, TypeOK', NEW s \in Segments, NEW g \in Gens, GcUnlink(s, g)
    PROVE  IInv'
<1> USE DEF IInv
<1>1. /\ lock = "gc" /\ <<s, g>> \in doomed /\ doomed' = doomed \ {<<s, g>>}
      /\ UNCHANGED <<manifest, hrkm, lock, job, reader, mode>>
      /\ file' = [file EXCEPT ![s][g] = "none"] \/ UNCHANGED file
  BY DEF GcUnlink
<1>2. mode = "up" /\ WholeCatalogue(manifest, file) /\ ~Has(manifest[s], g) /\ ~Has(hrkm[s], g)
  BY <1>1 DEF UpOrEmpty, DoomedAreForgotten
<1>3. \A t \in Segments, h \in Gens :
         file'[t][h] = file[t][h] \/ (t = s /\ h = g /\ file'[t][h] = "none")
  <2>1. file \in [Segments -> [Gens -> {"none", "ok", "bad"}]]
    BY DEF TypeOK
  <2> QED
    BY <1>1, <2>1
<1>4. Raw \in Gens
  BY ConstantsAssumption DEF Gens, Raw
<1>5. WholeCatalogue(manifest, file') /\ WholeCatalogue(hrkm, file')
  BY <1>2, <1>3, <1>4 DEF WholeCatalogue, WholeAt
<1>6. DoomedAreForgotten'
  BY <1>1 DEF DoomedAreForgotten
<1>7. job = Idle /\ job' = Idle /\ lock' # "pack"
  BY <1>1 DEF JobHoldsLock
<1>8. JobHoldsLock'
  BY <1>7 DEF JobHoldsLock, Idle
<1>9. PinnedAreCatalogued'
  BY <1>1 DEF PinnedAreCatalogued
<1> QED
  BY <1>1, <1>2, <1>5, <1>6, <1>8, <1>9 DEF UpOrEmpty

\* Steps that change neither catalogue and remove no file.
LEMMA QuietKeepsInvariant ==
    ASSUME IInv, TypeOK',
           UNCHANGED <<manifest, hrkm, doomed, reader, mode>>,
           lock' = "pack" <=> job' # Idle,
           lock' = "gc" <=> lock = "gc",
           mode # "up" => UNCHANGED lock,
           \A s \in Segments, g \in Gens : file[s][g] # "none" => file'[s][g] # "none",
           \A s \in Segments : file'[s][Raw] = "bad" =>
               file[s][Raw] = "bad" \/ (Catalogued(manifest[s]) /\ Catalogued(hrkm[s])),
           job'.at \in {"written", "receipted"} => file'[job'.seg][job'.target] # "none"
    PROVE  IInv'
<1> USE DEF IInv
<1>1. WholeCatalogue(hrkm, file') /\ (mode = "up" => WholeCatalogue(manifest, file'))
  BY DEF UpOrEmpty, WholeCatalogue, WholeAt
<1>2. UpOrEmpty'
  BY <1>1 DEF UpOrEmpty
<1>3. DoomedAreForgotten'
  BY DEF DoomedAreForgotten
<1>4. JobHoldsLock' /\ PinnedAreCatalogued'
  BY DEF JobHoldsLock, PinnedAreCatalogued
<1> QED
  BY <1>1, <1>2, <1>3, <1>4

LEMMA PackKeepsInvariant ==
    ASSUME IInv, TypeOK',
           PackStep \/ \E p \in Profiles : PackBegin(p)
    PROVE  IInv'
<1> USE DEF worker, reads, disk
<1>1. job \in Job /\ job' \in Job /\ TypeOK /\ JobHoldsLock
  BY DEF IInv, TypeOK
<1>2. CASE \E p \in Profiles : PackBegin(p)
  <2>1. /\ UNCHANGED <<manifest, hrkm, file, doomed, reader, mode>>
        /\ mode = "up" /\ lock = "free" /\ lock' = "pack"
        /\ job'.at = "between"
    BY <1>2 DEF PackBegin
  <2>2. job' # Idle
    BY <2>1 DEF Idle
  <2> QED
    BY <2>1, <2>2, QuietKeepsInvariant
<1>3. CASE \E s \in Segments, t \in Packed : PackPick(s, t)
  <2>1. /\ UNCHANGED <<manifest, hrkm, file, lock, doomed, reader, mode>>
        /\ job.at = "between" /\ job'.at = "picked"
    BY <1>3 DEF PackPick
  <2>2. job # Idle /\ job' # Idle
    BY <2>1 DEF Idle
  <2>3. lock = "pack" /\ lock' = "pack"
    BY <1>1, <2>1, <2>2 DEF JobHoldsLock
  <2> QED
    BY <2>1, <2>2, <2>3, QuietKeepsInvariant
<1>4. CASE PackWrite
  <2>1. /\ UNCHANGED <<manifest, hrkm, lock, doomed, reader, mode>>
        /\ job.at = "picked"
        /\ \/ job' = [job EXCEPT !.at = "written"]
              /\ file' = [file EXCEPT ![job.seg][job.target] = "ok"]
           \/ job'.at = "between" /\ UNCHANGED file
    BY <1>4 DEF PackWrite, JobAt, JobEnds
  <2>2. /\ job.seg \in Segments /\ job.target \in Gens /\ job.target # Raw
        /\ file \in [Segments -> [Gens -> {"none", "ok", "bad"}]]
    BY <1>1, <2>1, WorkingJob DEF TypeOK, Packed
  <2>3. job'.at \in {"written", "between"} /\ job # Idle /\ job' # Idle
    <3>1. CASE job' = [job EXCEPT !.at = "written"]
      <4>1. job \in [at : {"picked", "written", "receipted"}, profile : Profiles,
                     seg : Segments, target : Packed]
        BY <1>1, <2>1 DEF Job, Idle
      <4>2. job'.at = "written"
        BY <3>1, <4>1
      <4> QED
        BY <2>1, <4>2 DEF Idle
    <3>2. CASE job'.at = "between"
      BY <2>1, <3>2 DEF Idle
    <3> QED
      BY <2>1, <3>1, <3>2
  <2>4. lock = "pack" /\ lock' = "pack"
    BY <1>1, <2>1, <2>3 DEF JobHoldsLock
  <2>5. /\ \A s \in Segments, g \in Gens : file[s][g] # "none" => file'[s][g] # "none"
        /\ \A s \in Segments : file'[s][Raw] = "bad" => file[s][Raw] = "bad"
    <3>1. \A s \in Segments, g \in Gens : file'[s][g] = file[s][g] \/ file'[s][g] = "ok"
      BY <2>1, <2>2
    <3>2. Raw \in Gens
      BY ConstantsAssumption DEF Gens, Raw
    <3> QED
      BY <3>1, <3>2
  <2>6. job'.at = "written" => file'[job'.seg][job'.target] # "none"
    <3>1. CASE job' = [job EXCEPT !.at = "written"]
               /\ file' = [file EXCEPT ![job.seg][job.target] = "ok"]
      <4>1. job'.seg = job.seg /\ job'.target = job.target
        <5>1. job \in [at : {"picked", "written", "receipted"}, profile : Profiles,
                       seg : Segments, target : Packed]
          BY <1>1, <2>1 DEF Job, Idle
        <5> QED
          BY <3>1, <5>1
      <4> QED
        BY <2>2, <3>1, <4>1
    <3> QED
      BY <2>1, <3>1
  <2> QED
    BY <2>1, <2>3, <2>4, <2>5, <2>6, QuietKeepsInvariant
<1>5. CASE PackReceipt
  <2>1. /\ UNCHANGED <<manifest, hrkm, file, lock, doomed, reader, mode>>
        /\ job.at = "written"
        /\ job' = [job EXCEPT !.at = "receipted"] \/ job'.at = "between"
    BY <1>5 DEF PackReceipt, JobAt, JobEnds
  <2>2. job \in [at : {"picked", "written", "receipted"}, profile : Profiles,
                 seg : Segments, target : Packed]
    BY <1>1, <2>1 DEF Job, Idle
  <2>3. /\ job'.at \in {"receipted", "between"}
        /\ job'.at = "receipted" => job'.seg = job.seg /\ job'.target = job.target
    BY <2>1, <2>2
  <2>4. job # Idle /\ job' # Idle
    BY <2>1, <2>3 DEF Idle
  <2>5. lock = "pack" /\ file[job.seg][job.target] # "none"
    BY <1>1, <2>1, <2>4 DEF JobHoldsLock
  <2> QED
    BY <2>1, <2>3, <2>4, <2>5, QuietKeepsInvariant
<1>6. CASE PackEnd
  <2>1. /\ UNCHANGED <<manifest, hrkm, file, doomed, reader, mode>>
        /\ job.at = "between" /\ job' = Idle /\ lock' = "free"
    BY <1>6 DEF PackEnd
  <2>2. lock = "pack"
    BY <1>1, <2>1 DEF JobHoldsLock, Idle
  <2>3. mode = "up"
    BY <2>2 DEF IInv, UpOrEmpty, TypeOK
  <2>4. job'.at = "idle"
    BY <2>1 DEF Idle
  <2> QED
    BY <2>1, <2>2, <2>3, <2>4, QuietKeepsInvariant
<1> QED
  BY <1>2, <1>3, <1>4, <1>5, <1>6, PublishKeepsInvariant DEF PackStep

LEMMA OthersKeepInvariant ==
    ASSUME IInv, TypeOK',
           \/ \E s \in Segments, g \in Gens : Rot(s, g)
           \/ \E r \in Readers, s \in Segments : ReadPin(r, s)
           \/ GcEnd \/ ReadStep \/ Tick \/ Kill \/ Boot
    PROVE  IInv'
<1> USE DEF worker, reads, disk
<1>1. /\ TypeOK /\ WholeCatalogue(hrkm, file) /\ UpOrEmpty /\ DoomedAreForgotten /\ JobHoldsLock
      /\ PinnedAreCatalogued
  BY DEF IInv
<1>2. Raw \in Gens
  BY ConstantsAssumption DEF Gens, Raw
<1>3. ASSUME NEW s \in Segments, NEW g \in Gens, Rot(s, g) PROVE IInv'
  <2>1. /\ UNCHANGED <<manifest, hrkm, lock, job, doomed, reader, mode>>
        /\ file[s][g] = "ok" /\ file' = [file EXCEPT ![s][g] = "bad"]
        /\ Has(manifest[s], g) /\ Catalogued(hrkm[s])
    BY <1>3 DEF Rot
  <2>2. file \in [Segments -> [Gens -> {"none", "ok", "bad"}]]
    BY <1>1 DEF TypeOK
  <2>3. \A t \in Segments, h \in Gens :
           file'[t][h] = file[t][h] \/ (t = s /\ h = g /\ file'[t][h] = "bad")
    BY <2>1, <2>2
  <2>4. Catalogued(manifest[s])
    BY <2>1 DEF Catalogued
  <2>5. /\ \A t \in Segments, h \in Gens : file[t][h] # "none" => file'[t][h] # "none"
        /\ \A t \in Segments : file'[t][Raw] = "bad" =>
             file[t][Raw] = "bad" \/ (Catalogued(manifest[t]) /\ Catalogued(hrkm[t]))
    BY <1>2, <2>1, <2>3, <2>4
  <2>6. job.at \in {"written", "receipted"} => file'[job.seg][job.target] # "none"
    BY <1>1, <2>5, WorkingJob DEF JobHoldsLock, TypeOK
  <2>7. lock = "pack" <=> job # Idle
    BY <1>1 DEF JobHoldsLock
  <2> QED
    BY <2>1, <2>5, <2>6, <2>7, QuietKeepsInvariant
<1>4. ASSUME NEW r \in Readers, NEW s \in Segments, ReadPin(r, s) PROVE IInv'
  <2>1. /\ UNCHANGED <<manifest, hrkm, file, lock, job, doomed, mode>>
        /\ mode = "up" /\ Has(manifest[s], manifest[s].active)
        /\ reader' = [reader EXCEPT ![r] = [at |-> "pinned", seg |-> s,
                                            gen |-> manifest[s].active, stale |-> FALSE]]
    BY <1>4 DEF ReadPin
  <2>2. PinnedAreCatalogued'
    BY <1>1, <2>1 DEF PinnedAreCatalogued, TypeOK
  <2> QED
    BY <1>1, <2>1, <2>2 DEF IInv, UpOrEmpty, DoomedAreForgotten, JobHoldsLock
<1>5. CASE GcEnd
  <2>1. /\ UNCHANGED <<manifest, hrkm, file, job, reader, mode>>
        /\ lock = "gc" /\ lock' = "free" /\ doomed = {} /\ doomed' = {}
    BY <1>5 DEF GcEnd
  <2>2. UpOrEmpty' /\ JobHoldsLock'
    BY <1>1, <2>1 DEF UpOrEmpty, JobHoldsLock
  <2>3. DoomedAreForgotten' /\ PinnedAreCatalogued'
    BY <1>1, <2>1 DEF DoomedAreForgotten, PinnedAreCatalogued
  <2> QED
    BY <1>1, <2>1, <2>2, <2>3 DEF IInv
<1>6. ASSUME NEW r \in Readers, ReadOpen(r) \/ ReadEnd(r) PROVE IInv'
  <2>1. /\ UNCHANGED <<manifest, hrkm, file, lock, job, doomed, mode>>
        /\ reader[r].at # "idle"
        /\ \/ \E stale \in BOOLEAN : Opens(r, stale)
           \/ reader' = [reader EXCEPT ![r] = Idle]
    BY <1>6 DEF ReadOpen, ReadEnd
  <2>2. mode = "up"
    BY <1>1, <2>1 DEF UpOrEmpty, TypeOK, Idle
  <2>3. ASSUME NEW q \in Readers, reader'[q].at # "idle"
        PROVE  Has(manifest[reader'[q].seg], reader'[q].gen)
    <3>1. reader \in [Readers -> Reader]
      BY <1>1 DEF TypeOK
    <3>2. CASE reader' = [reader EXCEPT ![r] = Idle]
      <4>1. q # r /\ reader'[q] = reader[q]
        BY <2>3, <3>1, <3>2 DEF Idle
      <4> QED
        BY <1>1, <2>3, <4>1 DEF PinnedAreCatalogued
    <3>3. ASSUME NEW stale \in BOOLEAN, Opens(r, stale)
          PROVE  Has(manifest[reader'[q].seg], reader'[q].gen)
      <4>1. reader[r] \in [at : {"pinned", "open"}, seg : Segments, gen : Gens,
                           stale : BOOLEAN]
        BY <2>1, <3>1 DEF Reader, Idle
      <4>2. reader' = [reader EXCEPT ![r] = [[reader[r] EXCEPT !.at = "open"]
                                                EXCEPT !.stale = stale]]
        BY <3>1, <3>3 DEF Opens
      <4>3. CASE q = r
        <5>1. reader'[q].seg = reader[r].seg /\ reader'[q].gen = reader[r].gen
          BY <3>1, <4>1, <4>2, <4>3
        <5> QED
          BY <1>1, <2>1, <5>1 DEF PinnedAreCatalogued
      <4>4. CASE q # r
        <5>1. reader'[q] = reader[q]
          BY <3>1, <4>2, <4>4
        <5> QED
          BY <1>1, <2>3, <5>1 DEF PinnedAreCatalogued
      <4> QED
        BY <4>3, <4>4
    <3> QED
      BY <2>1, <3>2, <3>3
  <2>4. PinnedAreCatalogued'
    BY <2>1, <2>3 DEF PinnedAreCatalogued
  <2> QED
    BY <1>1, <2>1, <2>2, <2>4 DEF IInv, UpOrEmpty, DoomedAreForgotten, JobHoldsLock
<1>7. CASE Tick
  BY <1>1, <1>7 DEF Tick, IInv, UpOrEmpty, DoomedAreForgotten, JobHoldsLock,
                    PinnedAreCatalogued
<1>8. CASE Kill
  <2>1. /\ mode' = "down" /\ lock' = "free" /\ job' = Idle /\ doomed' = {}
        /\ manifest' = [s \in Segments |-> NotCatalogued]
        /\ reader' = [r \in Readers |-> Idle]
        /\ UNCHANGED <<hrkm, file>>
    BY <1>8 DEF Kill
  <2>2. UpOrEmpty' /\ DoomedAreForgotten' /\ JobHoldsLock' /\ PinnedAreCatalogued'
    BY <2>1 DEF UpOrEmpty, DoomedAreForgotten, JobHoldsLock, PinnedAreCatalogued, Idle
  <2> QED
    BY <1>1, <2>1, <2>2 DEF IInv
<1>9. CASE Boot
  <2>1. /\ mode = "down" /\ UNCHANGED <<file, lock, job, doomed, reader>>
        /\ IF BootAccepts THEN Commit(Reconciled) /\ mode' = "up"
                          ELSE UNCHANGED <<manifest, hrkm>> /\ mode' = "refused"
    BY <1>9 DEF Boot
  <2>2. doomed = {} /\ reader = [r \in Readers |-> Idle]
    BY <1>1, <2>1 DEF UpOrEmpty, DoomedAreForgotten
  <2>3. ASSUME NEW s \in Segments PROVE WholeAt(Reconciled[s], file[s])
    <3>1. WholeAt(hrkm[s], file[s])
      BY <1>1 DEF WholeCatalogue
    <3>2. CASE ~Catalogued(hrkm[s]) /\ file[s][Raw] # "none"
      BY <3>1, <3>2, RawDescriptor DEF Reconciled, WholeAt
    <3>3. CASE ~(~Catalogued(hrkm[s]) /\ file[s][Raw] # "none")
      BY <3>1, <3>3 DEF Reconciled
    <3> QED
      BY <3>2, <3>3
  <2>4. BootAccepts
    <3>1. ASSUME NEW s \in Segments, file[s][Raw] # "none", Catalogued(hrkm[s])
          PROVE  \/ Has(hrkm[s], Raw)
                 \/ hrkm[s].active \in Packed /\ Authority(hrkm[s], hrkm[s].active)
      <4>1. hrkm[s].status[hrkm[s].active] = "active" /\ hrkm[s].active \in Gens
        BY <1>1, <3>1 DEF WholeCatalogue, WholeAt, TypeOK, Descriptor
      <4> QED
        BY <4>1 DEF Has, Authority, Packed
    <3>2. ASSUME NEW s \in Segments, file[s][Raw] # "none", ~Catalogued(hrkm[s])
          PROVE  file[s][Raw] = "ok"
      <4>1. file[s][Raw] \in {"none", "ok", "bad"}
        BY <1>1, <1>2 DEF TypeOK
      <4>2. file[s][Raw] # "bad"
        BY <1>1, <3>2 DEF WholeCatalogue, WholeAt
      <4> QED
        BY <3>2, <4>1, <4>2
    <3>3. ASSUME NEW s \in Segments, NEW g \in Gens, Authority(Reconciled[s], g)
          PROVE  file[s][g] # "none"
      BY <2>3, <3>3 DEF WholeAt, Authority, Has
    <3> QED
      BY <3>1, <3>2, <3>3 DEF BootAccepts
  <2>5. manifest' = Reconciled /\ hrkm' = Reconciled /\ mode' = "up"
    BY <2>1, <2>4 DEF Commit
  <2>6. WholeCatalogue(manifest', file) /\ WholeCatalogue(hrkm', file)
    BY <2>3, <2>5 DEF WholeCatalogue
  <2>7. DoomedAreForgotten' /\ PinnedAreCatalogued' /\ JobHoldsLock'
    BY <1>1, <2>1, <2>2 DEF DoomedAreForgotten, PinnedAreCatalogued, JobHoldsLock, Idle
  <2> QED
    BY <2>1, <2>5, <2>6, <2>7 DEF IInv, UpOrEmpty
<1> QED
  BY <1>3, <1>4, <1>5, <1>6, <1>7, <1>8, <1>9 DEF ReadStep

LEMMA InvariantKept == IInv /\ [Next]_vars => IInv'
<1> SUFFICES ASSUME IInv, [Next]_vars PROVE IInv'
  OBVIOUS
<1>1. TypeOK'
  BY TypesKept DEF IInv
<1>2. CASE UNCHANGED vars
  BY <1>1, <1>2 DEF vars, disk, worker, reads, IInv, UpOrEmpty, DoomedAreForgotten,
                    JobHoldsLock, PinnedAreCatalogued
<1>3. CASE Next
  BY <1>1, <1>3, SealKeepsInvariant, PackKeepsInvariant, QuarantineKeepsInvariant,
     RetentionKeepsInvariant, CollectionKeepsInvariant, UnlinkKeepsInvariant,
     OthersKeepInvariant DEF Next, GcStep
<1> QED
  BY <1>2, <1>3

\* The inductive invariant holds of every state.
THEOREM Invariant == Spec => []IInv
  BY InitInvariant, InvariantKept, PTL DEF Spec

-----------------------------------------------------------------------------
(* What follows from it *)

\* Whatever was collected, published half way, failed or interrupted, every
\* catalogued segment has an active generation whose file is there.
THEOREM AuthorityIsOnDisk == Spec => []AuthorityOnDisk
<1>1. IInv => AuthorityOnDisk
  <2> SUFFICES ASSUME IInv PROVE AuthorityOnDisk
    OBVIOUS
  <2>1. ASSUME NEW m \in [Segments -> Descriptor], WholeCatalogue(m, file) PROVE ActiveIsThere(m)
    BY <2>1 DEF WholeCatalogue, WholeAt, ActiveIsThere, Descriptor, Has
  <2>0. /\ manifest \in [Segments -> Descriptor] /\ hrkm \in [Segments -> Descriptor]
        /\ WholeCatalogue(hrkm, file)
    BY DEF IInv, TypeOK
  <2>2. ActiveIsThere(hrkm)
    BY <2>0, <2>1, Zenon
  <2>3. ASSUME mode = "up" PROVE ActiveIsThere(manifest)
    <3>1. WholeCatalogue(manifest, file)
      BY <2>3 DEF IInv, UpOrEmpty
    <3> QED
      BY <2>0, <2>1, <3>1, Zenon
  <2>4. ASSUME mode # "up" PROVE ActiveIsThere(manifest)
    BY <2>4, EmptyDescriptor DEF IInv, UpOrEmpty, ActiveIsThere
  <2> QED
    BY <2>2, <2>3, <2>4 DEF AuthorityOnDisk
<1> QED
  BY <1>1, Invariant, PTL

\* No interleaving of seals, packs, quarantines, collections, failed commits
\* and kills leaves a directory that the next boot refuses.
THEOREM BootIsAccepted == Spec => []BootNeverRefuses
<1>1. IInv => BootNeverRefuses
  BY DEF IInv, UpOrEmpty, BootNeverRefuses
<1> QED
  BY <1>1, Invariant, PTL

\* The file a reader pinned under the mutex is there when the reader opens it.
THEOREM PinsProtect == Spec => []PinnedFileStays
<1>1. IInv => PinnedFileStays
  <2> SUFFICES ASSUME IInv, NEW r \in Readers, reader[r].at = "pinned"
               PROVE  file[reader[r].seg][reader[r].gen] # "none"
    BY DEF PinnedFileStays
  <2>1. mode = "up" /\ Has(manifest[reader[r].seg], reader[r].gen)
    BY DEF IInv, UpOrEmpty, TypeOK, PinnedAreCatalogued, Idle
  <2>2. reader[r].seg \in Segments /\ reader[r].gen \in Gens
    BY BusyReader DEF IInv, TypeOK
  <2> QED
    BY <2>1, <2>2 DEF IInv, UpOrEmpty, WholeCatalogue, WholeAt
<1> QED
  BY <1>1, Invariant, PTL

\* A file is unlinked only once both catalogues forgot its generation.
THEOREM UnlinkedAfterForgotten == Spec => FilesOutliveCatalogue
<1> DEFINE A == \A s \in Segments, g \in Gens : file[s][g] # "none" /\ file'[s][g] = "none"
                   => ~Has(manifest[s], g) /\ ~Has(hrkm[s], g)
<1>1. IInv /\ [Next]_vars => [A]_vars
  <2> SUFFICES ASSUME IInv, Next, NEW s \in Segments, NEW g \in Gens,
                      file[s][g] # "none", file'[s][g] = "none"
               PROVE  ~Has(manifest[s], g) /\ ~Has(hrkm[s], g)
    BY DEF vars
  <2> USE DEF disk, worker, reads
  <2>1. file \in [Segments -> [Gens -> {"none", "ok", "bad"}]] /\ job \in Job
    BY DEF IInv, TypeOK
  <2>2. ~UNCHANGED file
    OBVIOUS
  <2>3. ASSUME NEW t \in Segments, Seal(t) PROVE FALSE
    <3>1. file' = [file EXCEPT ![t][Raw] = "ok"]
      BY <2>3 DEF Seal
    <3> QED
      BY <2>1, <3>1
  <2>4. ASSUME PackWrite PROVE FALSE
    <3>1. job.seg \in Segments /\ job.target \in Gens
      BY <2>1, <2>4, WorkingJob DEF PackWrite, JobAt
    <3>2. file' = [file EXCEPT ![job.seg][job.target] = "ok"]
      BY <2>2, <2>4 DEF PackWrite
    <3> QED
      BY <2>1, <3>1, <3>2
  <2>5. ASSUME NEW t \in Segments, NEW h \in Gens, Rot(t, h) PROVE FALSE
    <3>1. file' = [file EXCEPT ![t][h] = "bad"]
      BY <2>5 DEF Rot
    <3> QED
      BY <2>1, <3>1
  <2>6. \E t \in Segments, h \in Gens : GcUnlink(t, h)
    BY <2>2, <2>3, <2>4, <2>5
       DEF Next, PackStep, GcStep, ReadStep, PackBegin, PackPick, PackReceipt, PackPublish,
           PackEnd, Quarantine, SetRetention, GcCommit, GcEnd, ReadPin, ReadOpen, ReadEnd,
           Tick, Kill, Boot
  <2>7. PICK t \in Segments, h \in Gens : GcUnlink(t, h)
    BY <2>6
  <2>8. file' = [file EXCEPT ![t][h] = "none"] /\ <<t, h>> \in doomed
    BY <2>2, <2>7 DEF GcUnlink
  <2>9. s = t /\ g = h
    BY <2>1, <2>8
  <2> QED
    BY <2>8, <2>9 DEF IInv, DoomedAreForgotten
<1> QED
  BY <1>1, Invariant, PTL DEF Spec, FilesOutliveCatalogue

-----------------------------------------------------------------------------
(* The inductive invariant of FileRaftLog *)

Ids == LogId \union {None}
Record == [kind : {"insert", "truncate", "purge", "torn"}, id : Ids]
File == [v2 : BOOLEAN, recs : Seq(Record)]
Meta == [vote : 0 .. MaxTerm, committed : Ids]

\* The entries follow the last one purged without a gap.
LogOK(c) ==
    /\ c = [entries |-> c.entries, purged |-> c.purged]
    /\ c.purged \in Ids
    /\ \E last \in c.purged.index .. MaxIndex :
          c.entries \in [c.purged.index + 1 .. last -> Terms]

\* The entry id is in the log, or was purged from it.
Holds(c, id) ==
    \/ id = None
    \/ c.purged # None /\ (c.purged.index > id.index \/ c.purged = id)
    \/ id.index \in DOMAIN c.entries /\ c.entries[id.index] = id.term

\* What may be found of a log and a call that was not answered.
Outcomes(c, recs) == {AppliedAll(c, SubSeq(recs, 1, k)) : k \in 0 .. Len(recs)}

\* However many records after the first n a file loses, it has one of outs.
Finds(recs, n, outs) ==
    \A k \in n .. Len(recs) : AppliedAll(Empty, SubSeq(recs, 1, k)) \in outs

Sound(recs) == \A i \in 1 .. Len(recs) : recs[i].kind # "torn"

May == Outcomes(promised.log, pending.recs)

Serving == {"idle", "write", "sync", "compact", "compactSync", "meta", "metaSync"}
Opening == {"openCut", "openMigrate", "openSync", "openCompact", "openCompactSync"}

Typed ==
    /\ RaftLogTypeOK
    /\ wal \in File /\ before \subseteq File
    /\ meta \in Meta /\ metaBefore \subseteq Meta
    /\ op = [recs |-> op.recs, vote |-> op.vote] /\ op.recs \in Seq(Record)
    /\ promised.vote \in 0 .. MaxTerm
    /\ pending = [recs |-> pending.recs, vote |-> pending.vote]
    /\ pending.recs \in Seq(Record) /\ pending.vote \in 0 .. MaxTerm

\* The files have an outcome of the call, whatever is lost of them.
FilesHave ==
    /\ Readable(wal.recs) /\ Finds(wal.recs, sure, May)
    /\ \A b \in before : Readable(b.recs) /\ AppliedAll(Empty, b.recs) \in May
    /\ \A c \in May : LogOK(c)

\* The memory agrees with the file, and the call under way is where pc says.
CallFits ==
    /\ pc \in (Serving \ {"sync"}) \union Opening =>
          mem = AppliedAll(Empty, wal.recs) /\ mem \in May
    /\ pc \in {"idle", "meta", "metaSync"} => pending.recs = << >>
    /\ pc \in {"idle", "write", "sync"} => before = {} /\ metaBefore = {}
    /\ pc \in Serving \union {"openSync", "openCompact", "openCompactSync"} => Sound(wal.recs)
    /\ pc \in {"openSync", "compactSync", "openCompactSync"} => sure = Len(wal.recs)
    /\ pc = "write" =>
          LET n == Len(pending.recs) - Len(op.recs)
          IN  /\ op.recs # << >> /\ n \in Nat
              /\ op.recs = SubSeq(pending.recs, n + 1, Len(pending.recs))
              /\ mem = AppliedAll(promised.log, SubSeq(pending.recs, 1, n))
              /\ \/ \A i \in 1 .. Len(pending.recs) : pending.recs[i].kind = "insert"
                 \/ Len(pending.recs) = 1
              /\ Sound(pending.recs)
    /\ pc = "sync" =>
          /\ AppliedAll(Empty, wal.recs) = AppliedAll(promised.log, pending.recs)
          /\ AppliedAll(mem, op.recs) = AppliedAll(promised.log, pending.recs)

\* A vote that may be found: the one answered, or the one being saved.
Possible(v) == v \in {promised.vote, pending.vote} /\ v >= promised.vote

VotesFit ==
    /\ \A m \in MetaImages : Possible(m.vote)
    /\ pc \notin {"down", "refused"} => Possible(vote)
    /\ pc \in {"idle", "write", "sync", "compact", "compactSync"} => vote = promised.vote
    /\ pc \in {"idle", "write", "sync", "compact", "compactSync", "metaSync", "dropSync"}
              \union Opening => meta.vote = vote
    /\ pc \in {"write", "sync", "compact", "compactSync", "idle"} => pending.vote = 0

\* What was called committed is in every log that may be found.
CommittedKept ==
    \A id \in {committed} \union {m.committed : m \in MetaImages} :
        /\ id.index <= frontier.index
        /\ \A c \in May : Holds(c, id)

RaftInv == Typed /\ FilesHave /\ CallFits /\ VotesFit /\ CommittedKept

-----------------------------------------------------------------------------
(* What a sequence of records makes of a log.  tlapm cannot instantiate an  *)
(* induction theorem, which takes an operator: the smallest number for      *)
(* which a claim fails stands in for an induction.                          *)

\* Every set of natural numbers with a member has a smallest one.
LEMMA SmallestExists ==
    ASSUME NEW T \in SUBSET Nat, T # {}
    PROVE  \E x \in T : \A y \in T : x <= y
<1> DEFINE R == OpToRel(<, Nat)
<1>1. IsWellFoundedOn(R, Nat)
  BY NatLessThanWellFounded
<1>2. PICK x \in T : \A y \in T : ~ (<<y, x>> \in R)
  BY <1>1, WFMin
<1>3. ASSUME NEW y \in T PROVE x <= y
  <2>1. ~ (<<y, x>> \in {p \in Nat \X Nat : p[1] < p[2]})
    BY <1>2 DEF OpToRel
  <2> QED
    BY <2>1
<1> QED
  BY <1>3

\* A set of natural numbers that has 0 and, with a number below a bound, the
\* next one, has every number up to the bound.
LEMMA UpTo ==
    ASSUME NEW T, NEW max \in Nat, 0 \in T,
           \A n \in 0 .. max - 1 : n \in T => n + 1 \in T
    PROVE  0 .. max \subseteq T
<1> DEFINE Missing == {n \in 0 .. max : n \notin T}
<1>1. SUFFICES ASSUME Missing # {} PROVE FALSE
  OBVIOUS
<1>2. Missing \in SUBSET Nat
  OBVIOUS
<1>3. PICK n \in Missing : \A k \in Missing : n <= k
  BY <1>1, <1>2, SmallestExists
<1>4. n - 1 \in 0 .. max - 1 /\ n - 1 \notin Missing
  BY <1>3
<1> QED
  BY <1>3, <1>4

\* The function AppliedAll chooses, for the first max records.
Makes(c, recs, max, g) ==
    g = [n \in 0 .. max |-> IF n = 0 THEN c ELSE Applied(g[n - 1], recs[n])]

\* A function that says what the first records make of a log.
LEMMA MakesExists ==
    ASSUME NEW c, NEW recs, NEW last \in Nat
    PROVE  \E g : Makes(c, recs, last, g)
<1> DEFINE T == {k \in Nat : \E g : Makes(c, recs, k, g)}
<1>1. 0 \in T
  <2> DEFINE g == [n \in 0 .. 0 |-> c]
  <2>1. Makes(c, recs, 0, g)
    BY DEF Makes
  <2> HIDE DEF g
  <2> QED
    BY <2>1
<1>2. ASSUME NEW k \in 0 .. last - 1, k \in T PROVE k + 1 \in T
  <2>1. PICK h : Makes(c, recs, k, h)
    BY <1>2
  <2> DEFINE is(f, n) == IF n = 0 THEN c ELSE Applied(f[n - 1], recs[n])
  <2>2. \A n \in 0 .. k : h[n] = is(h, n)
    BY <2>1 DEF Makes
  <2> DEFINE g == [n \in 0 .. k + 1 |-> IF n = k + 1 THEN is(h, k + 1) ELSE h[n]]
             gg == [n \in 0 .. k + 1 |-> is(g, n)]
  <2>3. ASSUME NEW n \in 0 .. k + 1 PROVE g[n] = gg[n]
    <3>0. gg[n] = is(g, n) /\ g[n] = (IF n = k + 1 THEN is(h, k + 1) ELSE h[n])
      OBVIOUS
    <3>1. n # 0 => g[n - 1] = h[n - 1]
      <4>1. n # 0 => n - 1 \in 0 .. k + 1 /\ n - 1 # k + 1
        OBVIOUS
      <4> QED
        BY <4>1
    <3>2. n # k + 1 => n \in 0 .. k
      OBVIOUS
    <3> HIDE DEF g, gg
    <3>3. is(g, n) = is(h, n)
      BY <3>1
    <3> HIDE DEF is
    <3> QED
      BY <2>2, <3>0, <3>2, <3>3
  <2>4. g = gg
    BY <2>3
  <2>5. Makes(c, recs, k + 1, g)
    BY <2>4 DEF Makes
  <2> HIDE DEF g
  <2> QED
    BY <2>5
<1> HIDE DEF T
<1>3. last \in T
  <2>1. 0 .. last \subseteq T
    BY <1>1, <1>2, UpTo
  <2> QED
    BY <2>1
<1> QED
  BY <1>3 DEF T

\* AppliedAll is what one such function says of all records.
LEMMA AppliedAllMakes ==
    ASSUME NEW c, NEW recs, Len(recs) \in Nat
    PROVE  \E g : Makes(c, recs, Len(recs), g) /\ AppliedAll(c, recs) = g[Len(recs)]
<1>1. AppliedAll(c, recs) = (CHOOSE g : Makes(c, recs, Len(recs), g))[Len(recs)]
  BY DEF AppliedAll, Makes
<1>2. \E g : Makes(c, recs, Len(recs), g)
  BY MakesExists
<1> QED
  BY <1>1, <1>2

\* No record changes nothing.
LEMMA AppliedNone ==
    ASSUME NEW c
    PROVE  AppliedAll(c, << >>) = c
<1>1. Len(<< >>) = 0
  OBVIOUS
<1>2. PICK g : Makes(c, << >>, 0, g) /\ AppliedAll(c, << >>) = g[0]
  BY <1>1, AppliedAllMakes
<1> QED
  BY <1>2 DEF Makes

\* The last record comes after the others.
LEMMA AppliedLast ==
    ASSUME NEW c, NEW S, NEW recs \in Seq(S), NEW k \in 1 .. Len(recs)
    PROVE  AppliedAll(c, SubSeq(recs, 1, k))
               = Applied(AppliedAll(c, SubSeq(recs, 1, k - 1)), recs[k])
<1> DEFINE s == SubSeq(recs, 1, k)
           t == SubSeq(recs, 1, k - 1)
<1>1. /\ Len(s) = k /\ \A i \in 1 .. k : s[i] = recs[i]
      /\ Len(t) = k - 1 /\ \A i \in 1 .. k - 1 : t[i] = recs[i]
  OBVIOUS
<1>2. k \in Nat /\ k - 1 \in Nat /\ k - 1 <= k /\ k # 0 /\ k \in 0 .. k
  OBVIOUS
<1> HIDE DEF s, t
<1>3. PICK g : Makes(c, s, k, g) /\ AppliedAll(c, s) = g[k]
  BY <1>1, <1>2, AppliedAllMakes
<1>4. PICK h : Makes(c, t, k - 1, h) /\ AppliedAll(c, t) = h[k - 1]
  BY <1>1, <1>2, AppliedAllMakes
<1>5. g[k] = Applied(g[k - 1], s[k])
  BY <1>2, <1>3 DEF Makes
<1>6. g[k - 1] = h[k - 1]
  <2> DEFINE T == {n \in Nat : g[n] = h[n]}
  <2>1. \A n \in 0 .. k - 1 : /\ g[n] = IF n = 0 THEN c ELSE Applied(g[n - 1], s[n])
                              /\ h[n] = IF n = 0 THEN c ELSE Applied(h[n - 1], t[n])
    BY <1>2, <1>3, <1>4 DEF Makes
  <2>2. 0 \in T
    <3>1. 0 \in 0 .. k - 1
      BY <1>2
    <3>2. g[0] = c /\ h[0] = c
      BY <2>1, <3>1
    <3> QED
      BY <3>2
  <2>3. ASSUME NEW n \in 0 .. (k - 1) - 1, n \in T PROVE n + 1 \in T
    <3>1. n + 1 \in 0 .. k - 1 /\ n + 1 # 0 /\ (n + 1) - 1 = n /\ n + 1 \in 1 .. k - 1
      BY <1>2
    <3>2. s[n + 1] = t[n + 1]
      BY <1>1, <3>1
    <3>3. g[n + 1] = Applied(g[n], s[n + 1]) /\ h[n + 1] = Applied(h[n], t[n + 1])
      BY <2>1, <3>1
    <3> QED
      BY <2>3, <3>1, <3>2, <3>3
  <2> HIDE DEF T
  <2>4. 0 .. k - 1 \subseteq T
    BY <1>2, <2>2, <2>3, UpTo
  <2> QED
    BY <1>2, <2>4 DEF T
<1>7. s[k] = recs[k]
  BY <1>1, <1>2
<1>8. AppliedAll(c, s) = Applied(AppliedAll(c, t), recs[k])
  BY <1>3, <1>4, <1>5, <1>6, <1>7
<1> QED
  BY <1>8 DEF s, t

\* A record at the end.
LEMMA AppliedAppend ==
    ASSUME NEW c, NEW S, NEW recs \in Seq(S), NEW r \in S
    PROVE  AppliedAll(c, Append(recs, r)) = Applied(AppliedAll(c, recs), r)
<1> DEFINE a == Append(recs, r)
           n == Len(recs) + 1
<1>1. a \in Seq(S) /\ Len(a) = n /\ n \in 1 .. Len(a) /\ a[n] = r
  OBVIOUS
<1>2. SubSeq(a, 1, n) = a /\ SubSeq(a, 1, n - 1) = recs
  OBVIOUS
<1> HIDE DEF a, n
<1>3. AppliedAll(c, SubSeq(a, 1, n)) = Applied(AppliedAll(c, SubSeq(a, 1, n - 1)), a[n])
  BY <1>1, AppliedLast
<1> QED
  BY <1>1, <1>2, <1>3 DEF a

-----------------------------------------------------------------------------
(* What a record makes of a log that has no gap.                            *)

\* The last index of such a log.
LEMMA LastOf ==
    ASSUME BoundsAssumption, NEW c, LogOK(c)
    PROVE  /\ LastIndex(c) \in c.purged.index .. MaxIndex
           /\ c.entries \in [c.purged.index + 1 .. LastIndex(c) -> Terms]
           /\ c.purged.index \in -1 .. MaxIndex
<1>1. c.purged \in Ids /\ c.purged.index \in -1 .. MaxIndex /\ MaxIndex \in Nat
  BY DEF LogOK, Ids, LogId, None, Indices, BoundsAssumption
<1>2. PICK last \in c.purged.index .. MaxIndex :
          c.entries \in [c.purged.index + 1 .. last -> Terms]
  BY DEF LogOK
<1>3. DOMAIN c.entries = c.purged.index + 1 .. last
  BY <1>2
<1>4. CASE last = c.purged.index
  <2>1. DOMAIN c.entries = {}
    BY <1>1, <1>2, <1>3, <1>4
  <2>2. LastIndex(c) = last
    BY <1>4, <2>1 DEF LastIndex
  <2> QED
    BY <1>1, <1>2, <2>2
<1>5. CASE last # c.purged.index
  <2>1. last \in DOMAIN c.entries /\ \A j \in DOMAIN c.entries : j <= last
    BY <1>1, <1>2, <1>3, <1>5
  <2>2. \A i \in DOMAIN c.entries : (\A j \in DOMAIN c.entries : j <= i) => i = last
    BY <1>1, <1>2, <1>3, <2>1
  <2>3. LastIndex(c) = last
    BY <2>1, <2>2 DEF LastIndex
  <2> QED
    BY <1>1, <1>2, <2>3
<1> QED
  BY <1>4, <1>5

\* A log without gap, from its parts.
LEMMA LogFrom ==
    ASSUME BoundsAssumption, NEW p \in Ids, NEW last \in Int, p.index <= last, last <= MaxIndex,
           NEW f \in [p.index + 1 .. last -> Terms]
    PROVE  LogOK([entries |-> f, purged |-> p]) /\ LastIndex([entries |-> f, purged |-> p]) = last
<1> DEFINE c == [entries |-> f, purged |-> p]
<1>0. p.index \in Int /\ MaxIndex \in Int
  BY DEF Ids, LogId, None, Indices, BoundsAssumption
<1>1. c.entries = f /\ c.purged = p
  OBVIOUS
<1> HIDE DEF c
<1>2. LogOK(c)
  <2>1. c = [entries |-> c.entries, purged |-> c.purged]
    BY DEF c
  <2> QED
    BY <1>0, <1>1, <2>1 DEF LogOK
<1>3. LastIndex(c) \in p.index .. MaxIndex /\ f \in [p.index + 1 .. LastIndex(c) -> Terms]
  BY <1>1, <1>2, LastOf
<1>4. p.index + 1 .. LastIndex(c) = p.index + 1 .. last
  BY <1>3
<1>5. LastIndex(c) = last
  <2> DEFINE l == LastIndex(c)
  <2> HIDE DEF l
  <2>1. l \in Int /\ p.index <= l /\ p.index + 1 .. l = p.index + 1 .. last
    BY <1>0, <1>3, <1>4 DEF l
  <2>2. last > p.index => last \in p.index + 1 .. l
    BY <1>0, <2>1
  <2>3. l > p.index => l \in p.index + 1 .. last
    BY <1>0, <2>1
  <2>4. l = last
    BY <1>0, <2>1, <2>2, <2>3
  <2> QED
    BY <2>4 DEF l
<1> QED
  BY <1>2, <1>5 DEF c

\* An entry after the last one.
LEMMA InsertFits ==
    ASSUME BoundsAssumption, NEW c, LogOK(c), NEW r, r.kind = "insert", r.id \in LogId,
           r.id.index = LastIndex(c) + 1
    PROVE  /\ LogOK(Applied(c, r)) /\ LastIndex(Applied(c, r)) = r.id.index
           /\ \A id \in Ids : Holds(c, id) => Holds(Applied(c, r), id)
<1> DEFINE f == Put(c.entries, r.id.index, r.id.term)
<1>1. /\ LastIndex(c) \in c.purged.index .. MaxIndex
      /\ c.entries \in [c.purged.index + 1 .. LastIndex(c) -> Terms]
      /\ c.purged.index \in -1 .. MaxIndex
  BY LastOf
<1>2. c = [entries |-> c.entries, purged |-> c.purged] /\ c.purged \in Ids
  BY DEF LogOK
<1>3. r.id.index \in 0 .. MaxIndex /\ r.id.term \in Terms /\ MaxIndex \in Nat
  BY DEF LogId, Indices, BoundsAssumption
<1>4. /\ f \in [c.purged.index + 1 .. r.id.index -> Terms]
      /\ \A i \in DOMAIN c.entries : i \in DOMAIN f /\ f[i] = c.entries[i]
  <2>1. DOMAIN c.entries = c.purged.index + 1 .. LastIndex(c)
    BY <1>1
  <2>2. (c.purged.index + 1 .. LastIndex(c)) \union {r.id.index} = c.purged.index + 1 .. r.id.index
    BY <1>1, <1>3
  <2>3. r.id.index \notin DOMAIN c.entries
    BY <1>1, <1>3, <2>1
  <2>4. \A i \in DOMAIN c.entries : c.entries[i] \in Terms
    BY <1>1
  <2> QED
    BY <1>3, <2>1, <2>2, <2>3, <2>4 DEF Put
<1>5. Applied(c, r) = [entries |-> f, purged |-> c.purged]
  BY <1>2 DEF Applied
<1> HIDE DEF f
<1>6. LogOK(Applied(c, r)) /\ LastIndex(Applied(c, r)) = r.id.index
  <2>1. c.purged.index <= r.id.index
    BY <1>1, <1>3
  <2> QED
    BY <1>2, <1>3, <1>4, <1>5, <2>1, LogFrom
<1>7. ASSUME NEW id \in Ids, Holds(c, id) PROVE Holds(Applied(c, r), id)
  <2>1. Applied(c, r).entries = f /\ Applied(c, r).purged = c.purged
    BY <1>5
  <2> QED
    BY <1>4, <1>7, <2>1 DEF Holds
<1> QED
  BY <1>6, <1>7

\* A truncation loses nothing before its index.
LEMMA TruncateFits ==
    ASSUME BoundsAssumption, NEW c, LogOK(c), NEW r, r.kind = "truncate",
           r.id.index \in DOMAIN c.entries
    PROVE  /\ LogOK(Applied(c, r))
           /\ \A id \in Ids : id.index < r.id.index /\ Holds(c, id) => Holds(Applied(c, r), id)
<1> DEFINE f == Below(c.entries, r.id.index)
           i == r.id.index
<1>1. /\ LastIndex(c) \in c.purged.index .. MaxIndex
      /\ c.entries \in [c.purged.index + 1 .. LastIndex(c) -> Terms]
      /\ c.purged.index \in -1 .. MaxIndex
  BY LastOf
<1>2. c = [entries |-> c.entries, purged |-> c.purged] /\ c.purged \in Ids
  BY DEF LogOK
<1>3. i \in c.purged.index + 1 .. LastIndex(c) /\ MaxIndex \in Nat
  BY <1>1 DEF BoundsAssumption
<1>4. /\ f \in [c.purged.index + 1 .. i - 1 -> Terms]
      /\ \A k \in DOMAIN c.entries : k < i => k \in DOMAIN f /\ f[k] = c.entries[k]
  <2>1. DOMAIN c.entries = c.purged.index + 1 .. LastIndex(c)
    BY <1>1
  <2>2. {k \in DOMAIN c.entries : k < i} = c.purged.index + 1 .. i - 1
    BY <1>1, <1>3, <2>1
  <2>4. \A k \in DOMAIN c.entries : c.entries[k] \in Terms
    BY <1>1
  <2> QED
    BY <2>2, <2>4 DEF Below
<1>5. Applied(c, r) = [entries |-> f, purged |-> c.purged]
  BY <1>2 DEF Applied
<1> HIDE DEF f
<1>6. LogOK(Applied(c, r))
  <2>0. /\ i \in Int /\ c.purged.index \in Int /\ LastIndex(c) \in Int /\ MaxIndex \in Int
        /\ c.purged.index + 1 <= i /\ i <= LastIndex(c) /\ LastIndex(c) <= MaxIndex
    BY <1>1, <1>3
  <2>1. i - 1 \in Int /\ c.purged.index <= i - 1 /\ i - 1 <= MaxIndex
    BY <2>0
  <2> HIDE DEF i
  <2> QED
    BY <1>2, <1>3, <1>4, <1>5, <2>1, LogFrom
<1>7. ASSUME NEW id \in Ids, id.index < r.id.index, Holds(c, id) PROVE Holds(Applied(c, r), id)
  <2>1. Applied(c, r).entries = f /\ Applied(c, r).purged = c.purged
    BY <1>5
  <2> QED
    BY <1>4, <1>7, <2>1 DEF Holds
<1> QED
  BY <1>6, <1>7

\* A purge of an entry of the log, or beyond its end.
LEMMA PurgeFits ==
    ASSUME BoundsAssumption, NEW c, LogOK(c), NEW r, r.kind = "purge", r.id \in LogId,
           r.id.index > c.purged.index,
           \/ r.id.index \in DOMAIN c.entries /\ c.entries[r.id.index] = r.id.term
           \/ r.id.index > LastIndex(c)
    PROVE  /\ LogOK(Applied(c, r))
           /\ \A id \in Ids : Holds(c, id) =>
                 \/ Holds(Applied(c, r), id)
                 \/ r.id.index > LastIndex(c) /\ id.index >= r.id.index
<1> DEFINE f == Above(c.entries, r.id.index)
           i == r.id.index
<1>1. /\ LastIndex(c) \in c.purged.index .. MaxIndex
      /\ c.entries \in [c.purged.index + 1 .. LastIndex(c) -> Terms]
      /\ c.purged.index \in -1 .. MaxIndex
  BY LastOf
<1>3. i \in 0 .. MaxIndex /\ MaxIndex \in Nat
  BY DEF LogId, Indices, BoundsAssumption
<1> DEFINE last == IF i > LastIndex(c) THEN i ELSE LastIndex(c)
<1>4. /\ f \in [i + 1 .. last -> Terms] /\ i <= last /\ last \in Int /\ last <= MaxIndex
      /\ \A k \in DOMAIN c.entries : k > i => k \in DOMAIN f /\ f[k] = c.entries[k]
  <2>1. DOMAIN c.entries = c.purged.index + 1 .. LastIndex(c)
    BY <1>1
  <2>2. {k \in DOMAIN c.entries : k > i} = i + 1 .. last
    BY <1>1, <1>3, <2>1
  <2>4. \A k \in DOMAIN c.entries : c.entries[k] \in Terms
    BY <1>1
  <2>5. f \in [i + 1 .. last -> Terms]
    BY <2>2, <2>4 DEF Above
  <2>6. \A k \in DOMAIN c.entries : k > i => k \in DOMAIN f /\ f[k] = c.entries[k]
    BY DEF Above
  <2>7. i <= last /\ last \in Int /\ last <= MaxIndex
    BY <1>1, <1>3
  <2> QED
    BY <2>5, <2>6, <2>7
<1>5. Applied(c, r) = [entries |-> f, purged |-> r.id]
  BY DEF Applied
<1> HIDE DEF f, last
<1>6. LogOK(Applied(c, r))
  <2>1. r.id \in Ids
    BY DEF Ids
  <2> QED
    BY <1>3, <1>4, <1>5, <2>1, LogFrom
<1>7. ASSUME NEW id \in Ids, Holds(c, id)
      PROVE  \/ Holds(Applied(c, r), id)
             \/ r.id.index > LastIndex(c) /\ id.index >= r.id.index
  <2>1. Applied(c, r).entries = f /\ Applied(c, r).purged = r.id
    BY <1>5
  <2>2. r.id # None
    BY DEF LogId, None, Indices, BoundsAssumption
  <2>3. CASE id = None
    BY <2>3 DEF Holds
  <2>4. CASE id # None /\ c.purged # None /\ (c.purged.index > id.index \/ c.purged = id)
    <3>1. r.id.index > id.index
      <4>1. id.index \in 0 .. MaxIndex
        BY <2>4 DEF Ids, LogId, Indices
      <4>2. c.purged.index \in Int /\ r.id.index \in Int /\ r.id.index > c.purged.index
        BY <1>1, <1>3
      <4>3. c.purged.index >= id.index
        BY <2>4, <4>1, <4>2
      <4> QED
        BY <4>1, <4>2, <4>3
    <3> QED
      BY <2>1, <2>2, <3>1 DEF Holds
  <2>5. CASE id # None /\ id.index \in DOMAIN c.entries /\ c.entries[id.index] = id.term
    <3>1. id \in LogId
      BY <2>5 DEF Ids
    <3>2. id.index \in c.purged.index + 1 .. LastIndex(c) /\ id.index \in 0 .. MaxIndex
      BY <1>1, <2>5, <3>1 DEF LogId, Indices
    <3>3. CASE id.index < i
      BY <2>1, <2>2, <3>3 DEF Holds
    <3>4. CASE id.index = i
      <4>1. r.id.term = id.term
        BY <1>1, <1>3, <2>5, <3>2, <3>4
      <4>2. r.id = id
        BY <3>1, <3>4, <4>1 DEF LogId
      <4> QED
        BY <2>1, <2>2, <4>2 DEF Holds
    <3>5. CASE id.index > i
      BY <1>4, <2>1, <2>5, <3>5 DEF Holds
    <3> QED
      BY <1>3, <3>2, <3>3, <3>4, <3>5
  <2> QED
    BY <1>7, <2>3, <2>4, <2>5 DEF Holds
<1> QED
  BY <1>6, <1>7

\* The check of open accepts a log that holds the entry.
LEMMA HeldIsCovered ==
    ASSUME BoundsAssumption, NEW c, LogOK(c), NEW id \in Ids, Holds(c, id)
    PROVE  Covers(c, id)
<1>1. /\ LastIndex(c) \in c.purged.index .. MaxIndex
      /\ c.entries \in [c.purged.index + 1 .. LastIndex(c) -> Terms]
      /\ c.purged.index \in -1 .. MaxIndex /\ c.purged \in Ids
  BY LastOf DEF LogOK
<1>2. CASE id = None
  BY <1>2 DEF Covers
<1>3. CASE c.purged # None /\ (c.purged.index > id.index \/ c.purged = id)
  BY <1>3 DEF Covers
<1>4. CASE id # None /\ id.index \in DOMAIN c.entries /\ c.entries[id.index] = id.term
  <2> DEFINE start == IF c.purged # None THEN c.purged.index + 1
                      ELSE IF 0 \in DOMAIN c.entries THEN 0 ELSE 1
  <2>1. DOMAIN c.entries = c.purged.index + 1 .. LastIndex(c)
    BY <1>1
  <2>2. id.index \in 0 .. MaxIndex
    BY <1>4 DEF Ids, LogId, Indices
  <2>3. c.purged.index + 1 <= start /\ start \in Int
    <3>1. c.purged = None => c.purged.index = -1
      BY DEF None
    <3> QED
      BY <1>1, <3>1
  <2>4. start .. id.index \subseteq DOMAIN c.entries
    BY <1>1, <1>4, <2>1, <2>2, <2>3
  <2> QED
    BY <1>4, <2>4 DEF Covers
<1> QED
  BY <1>2, <1>3, <1>4 DEF Holds

-----------------------------------------------------------------------------
(* The image of a log.                                                      *)

\* The entries before one of a log without gap are as many as lie between.
LEMMA RankedIs ==
    ASSUME NEW p \in Int, NEW last \in Int, NEW f, DOMAIN f = p + 1 .. last,
           NEW n \in Nat, n < last - p
    PROVE  Ranked(f, n) = p + 1 + n
<1> DEFINE before_(i) == {j \in DOMAIN f : j < i}
<1>1. ASSUME NEW i \in DOMAIN f PROVE Cardinality(before_(i)) = i - p - 1
  <2>1. before_(i) = p + 1 .. i - 1
    OBVIOUS
  <2>2. p + 1 \in Int /\ i - 1 \in Int
    OBVIOUS
  <2>3. Cardinality(p + 1 .. i - 1) = IF p + 1 > i - 1 THEN 0 ELSE (i - 1) - (p + 1) + 1
    BY <2>2, FS_Interval
  <2> HIDE DEF before_
  <2> QED
    BY <2>1, <2>3
<1>2. p + 1 + n \in DOMAIN f
  OBVIOUS
<1>3. Ranked(f, n) = CHOOSE i \in DOMAIN f : Cardinality(before_(i)) = n
  BY DEF Ranked
<1> HIDE DEF before_
<1>4. \A i \in DOMAIN f : Cardinality(before_(i)) = n <=> i = p + 1 + n
  BY <1>1
<1>5. \E i \in DOMAIN f : Cardinality(before_(i)) = n
  BY <1>2, <1>4
<1> QED
  BY <1>3, <1>4, <1>5

\* The records of an image: the last purged, and one for every entry in order.
LEMMA ImageIs ==
    ASSUME BoundsAssumption, NEW c, LogOK(c)
    PROVE  LET z == IF c.purged = None THEN 0 ELSE 1
               n == LastIndex(c) - c.purged.index
               recs == Compacted(c)
           IN  /\ recs \in Seq(Record) /\ Len(recs) = z + n /\ n \in Nat
               /\ z = 1 => recs[1] = Purge(c.purged)
               /\ \A m \in 1 .. n : recs[z + m] =
                     Insert([index |-> c.purged.index + m, term |-> c.entries[c.purged.index + m]])
               /\ Sound(recs)
<1> DEFINE p == c.purged.index
           last == LastIndex(c)
           n == last - p
           z == IF c.purged = None THEN 0 ELSE 1
           head == IF c.purged = None THEN << >> ELSE <<Purge(c.purged)>>
           at(m) == Ranked(c.entries, m - 1)
           tail == [m \in 1 .. Cardinality(DOMAIN c.entries) |->
                       Insert([index |-> at(m), term |-> c.entries[at(m)]])]
<1>1. /\ last \in p .. MaxIndex /\ c.entries \in [p + 1 .. last -> Terms]
      /\ p \in -1 .. MaxIndex /\ MaxIndex \in Nat /\ c.purged \in Ids
  BY LastOf DEF LogOK, BoundsAssumption
<1>2. DOMAIN c.entries = p + 1 .. last /\ p \in Int /\ last \in Int /\ n \in Nat
  BY <1>1
<1>3. Cardinality(DOMAIN c.entries) = n
  <2>1. p + 1 \in Int
    BY <1>2
  <2>2. Cardinality(p + 1 .. last) = IF p + 1 > last THEN 0 ELSE last - (p + 1) + 1
    BY <1>2, <2>1, FS_Interval
  <2> QED
    BY <1>1, <1>2, <2>2
<1>4. Compacted(c) = head \o tail
  BY DEF Compacted
<1>5. head \in Seq(Record) /\ Len(head) = z /\ (z = 1 => head[1] = Purge(c.purged))
  <2>1. Purge(c.purged) \in Record
    BY <1>1 DEF Purge, Record
  <2> QED
    BY <2>1
<1>6. \A m \in 1 .. n : at(m) = p + m
  <2> SUFFICES ASSUME NEW m \in 1 .. n PROVE at(m) = p + m
    OBVIOUS
  <2> HIDE DEF p, last
  <2>1. m - 1 \in Nat /\ m - 1 < last - p
    BY <1>2
  <2>2. Ranked(c.entries, m - 1) = p + 1 + (m - 1)
    BY <1>2, <2>1, RankedIs
  <2> QED
    BY <1>2, <2>2
<1> HIDE DEF at
<1>7. tail = [m \in 1 .. n |-> Insert([index |-> p + m, term |-> c.entries[p + m]])]
  BY <1>3, <1>6
<1>8. \A m \in 1 .. n : Insert([index |-> p + m, term |-> c.entries[p + m]]) \in Record
  <2> SUFFICES ASSUME NEW m \in 1 .. n
               PROVE  Insert([index |-> p + m, term |-> c.entries[p + m]]) \in Record
    OBVIOUS
  <2>0. n = last - p
    OBVIOUS
  <2> HIDE DEF p, last, n
  <2>1. p + m \in p + 1 .. last /\ p + m \in 0 .. MaxIndex
    <3>1. m \in Int /\ 1 <= m /\ m <= last - p
      BY <1>2, <2>0
    <3>2. p + m >= p + 1 /\ p + m <= last /\ p + m \in Int
      BY <1>2, <3>1
    <3> QED
      BY <1>1, <1>2, <3>2
  <2>2. c.entries[p + m] \in Terms
    BY <1>1, <2>1
  <2>3. [index |-> p + m, term |-> c.entries[p + m]] \in LogId
    BY <2>1, <2>2 DEF LogId, Indices
  <2> QED
    BY <2>3 DEF Insert, Record, Ids
<1>9. /\ tail \in Seq(Record) /\ Len(tail) = n
      /\ \A m \in 1 .. n : tail[m] = Insert([index |-> p + m, term |-> c.entries[p + m]])
  <2> DEFINE e(m) == Insert([index |-> p + m, term |-> c.entries[p + m]])
  <2>1. \A m \in 1 .. n : e(m) \in Record
    BY <1>8
  <2>2. tail = [m \in 1 .. n |-> e(m)]
    BY <1>7
  <2> HIDE DEF tail, e, n
  <2>3. tail \in Seq(Record) /\ Len(tail) = n /\ \A m \in 1 .. n : tail[m] = e(m)
    BY <1>2, <2>1, <2>2
  <2> QED
    BY <2>3 DEF e
<1>10. z \in Nat
  OBVIOUS
<1> DEFINE recs == Compacted(c)
<1> HIDE DEF head, tail, n, z, recs
<1>11. /\ recs \in Seq(Record) /\ Len(recs) = z + n
       /\ \A i \in 1 .. z + n : recs[i] = IF i <= z THEN head[i] ELSE tail[i - z]
  <2>1. /\ head \o tail \in Seq(Record) /\ Len(head \o tail) = Len(head) + Len(tail)
        /\ \A i \in 1 .. Len(head) + Len(tail) :
              (head \o tail)[i] = IF i <= Len(head) THEN head[i] ELSE tail[i - Len(head)]
    BY <1>5, <1>9, ConcatProperties
  <2> QED
    BY <1>4, <1>5, <1>9, <2>1 DEF recs
<1>12. z = 1 => recs[1] = Purge(c.purged)
  <2>1. n \in Nat
    BY <1>2 DEF n
  <2>2. ASSUME z = 1 PROVE recs[1] = Purge(c.purged)
    <3>1. 1 \in 1 .. z + n /\ 1 <= z
      BY <2>1, <2>2
    <3> QED
      BY <1>5, <1>11, <2>2, <3>1
  <2> QED
    BY <2>2
<1>13. \A m \in 1 .. n : recs[z + m] = Insert([index |-> p + m, term |-> c.entries[p + m]])
  <2> SUFFICES ASSUME NEW m \in 1 .. n
               PROVE  recs[z + m] = Insert([index |-> p + m, term |-> c.entries[p + m]])
    OBVIOUS
  <2>1. n \in Nat /\ z \in Nat
    BY <1>2, <1>10 DEF n
  <2>2. z + m \in 1 .. z + n /\ ~(z + m <= z) /\ (z + m) - z = m
    BY <2>1
  <2>3. recs[z + m] = tail[m]
    BY <1>11, <2>2
  <2> QED
    BY <1>9, <2>3
<1>14. Sound(recs)
  <2> SUFFICES ASSUME NEW i \in 1 .. z + n PROVE recs[i].kind # "torn"
    BY <1>11 DEF Sound
  <2>1. n \in Nat /\ z \in Nat
    BY <1>2, <1>10 DEF n
  <2>2. CASE i <= z
    <3>1. z = 1 /\ i = 1
      BY <2>1, <2>2 DEF z
    <3> QED
      BY <1>12, <3>1 DEF Purge
  <2>3. CASE i > z
    <3>1. i - z \in 1 .. n /\ z + (i - z) = i
      BY <2>1, <2>3
    <3> DEFINE m == i - z
    <3>2. recs[z + m] = Insert([index |-> p + m, term |-> c.entries[p + m]])
      BY <1>13, <3>1
    <3>3. recs[i].kind = "insert"
      BY <3>1, <3>2 DEF Insert
    <3> QED
      BY <3>3
  <2> QED
    BY <2>1, <2>2, <2>3
<1> QED
  BY <1>2, <1>11, <1>12, <1>13, <1>14 DEF recs, n, z, p, last

\* A file that was rewritten replays to the log it was made from.
LEMMA ImageReplays ==
    ASSUME BoundsAssumption, NEW c, LogOK(c)
    PROVE  AppliedAll(Empty, Compacted(c)) = c
<1> DEFINE p == c.purged.index
           last == LastIndex(c)
           n == last - p
           z == IF c.purged = None THEN 0 ELSE 1
           recs == Compacted(c)
           made(m) == [entries |-> [i \in p + 1 .. p + m |-> c.entries[i]], purged |-> c.purged]
           T == {m \in Nat : AppliedAll(Empty, SubSeq(recs, 1, z + m)) = made(m)}
<1>1. /\ recs \in Seq(Record) /\ Len(recs) = z + n /\ n \in Nat
      /\ z = 1 => recs[1] = Purge(c.purged)
      /\ \A m \in 1 .. n : recs[z + m] =
            Insert([index |-> p + m, term |-> c.entries[p + m]])
  BY ImageIs
<1>2. /\ last \in p .. MaxIndex /\ c.entries \in [p + 1 .. last -> Terms]
      /\ p \in -1 .. MaxIndex /\ MaxIndex \in Nat
      /\ c = [entries |-> c.entries, purged |-> c.purged]
  BY LastOf DEF LogOK, BoundsAssumption
<1>3. z \in {0, 1} /\ (z = 0 => c.purged = None) /\ p \in Int /\ last \in Int
  BY <1>2
<1> HIDE DEF recs, z
<1>4. 0 \in T
  <2>1. [i \in p + 1 .. p + 0 |-> c.entries[i]] = << >>
    BY <1>3
  <2>2. made(0) = [entries |-> << >>, purged |-> c.purged]
    BY <2>1
  <2>3. CASE z = 0
    <3>1. SubSeq(recs, 1, z + 0) = << >>
      BY <1>1, <2>3
    <3>2. AppliedAll(Empty, << >>) = Empty
      BY AppliedNone
    <3>3. Empty = made(0)
      BY <1>3, <2>2, <2>3 DEF Empty
    <3> QED
      BY <3>1, <3>2, <3>3
  <2>4. CASE z = 1
    <3>0. 1 \in 1 .. Len(recs)
      BY <1>1, <2>4
    <3>1. AppliedAll(Empty, SubSeq(recs, 1, 1))
              = Applied(AppliedAll(Empty, SubSeq(recs, 1, 1 - 1)), recs[1])
      BY <1>1, <3>0, AppliedLast
    <3>2. SubSeq(recs, 1, 1 - 1) = << >>
      BY <1>1
    <3>3. AppliedAll(Empty, << >>) = Empty
      BY AppliedNone
    <3>4. recs[1] = Purge(c.purged)
      BY <1>1, <2>4
    <3>5. Above(<< >>, c.purged.index) = << >>
      BY DEF Above
    <3>6. Applied(Empty, Purge(c.purged)) = [entries |-> << >>, purged |-> c.purged]
      BY <3>5 DEF Applied, Purge, Empty
    <3>7. z + 0 = 1
      BY <2>4
    <3> QED
      BY <2>2, <3>1, <3>2, <3>3, <3>4, <3>6, <3>7
  <2> QED
    BY <1>3, <2>3, <2>4
<1>5. ASSUME NEW m \in 0 .. n - 1, m \in T PROVE m + 1 \in T
  <2> HIDE DEF n
  <2>1. /\ z + (m + 1) \in 1 .. Len(recs) /\ (z + (m + 1)) - 1 = z + m
        /\ m \in Nat /\ m + 1 \in 1 .. n
    BY <1>1, <1>3
  <2>2. AppliedAll(Empty, SubSeq(recs, 1, z + (m + 1)))
            = Applied(AppliedAll(Empty, SubSeq(recs, 1, z + m)), recs[z + (m + 1)])
    <3> DEFINE k == z + (m + 1)
    <3>1. k \in 1 .. Len(recs) /\ k - 1 = z + m
      BY <2>1
    <3> HIDE DEF k
    <3>2. AppliedAll(Empty, SubSeq(recs, 1, k))
              = Applied(AppliedAll(Empty, SubSeq(recs, 1, k - 1)), recs[k])
      BY <1>1, <3>1, AppliedLast
    <3>3. AppliedAll(Empty, SubSeq(recs, 1, k))
              = Applied(AppliedAll(Empty, SubSeq(recs, 1, z + m)), recs[k])
      BY <3>1, <3>2
    <3> QED
      BY <3>3 DEF k
  <2>3. AppliedAll(Empty, SubSeq(recs, 1, z + m)) = made(m)
    BY <1>5
  <2> DEFINE r == Insert([index |-> p + (m + 1), term |-> c.entries[p + (m + 1)]])
  <2>4. recs[z + (m + 1)] = r
    BY <1>1, <2>1
  <2>5. Applied(made(m), r) = made(m + 1)
    <3> DEFINE f == [i \in p + 1 .. p + m |-> c.entries[i]]
               g == [i \in p + 1 .. p + (m + 1) |-> c.entries[i]]
               k == p + (m + 1)
    <3>1. (p + 1 .. p + m) \union {k} = p + 1 .. k
      BY <1>3
    <3>2. Put(f, k, c.entries[k]) = g
      BY <3>1 DEF Put
    <3>3. Applied(made(m), r) = [made(m) EXCEPT !.entries = Put(@, k, c.entries[k])]
      BY DEF Applied, Insert
    <3>4. made(m) = [entries |-> f, purged |-> c.purged]
      OBVIOUS
    <3>5. made(m + 1) = [entries |-> g, purged |-> c.purged]
      OBVIOUS
    <3> HIDE DEF f, g, k, made
    <3> QED
      BY <3>2, <3>3, <3>4, <3>5
  <2> HIDE DEF r, made
  <2>6. AppliedAll(Empty, SubSeq(recs, 1, z + (m + 1))) = made(m + 1)
    BY <2>1, <2>2, <2>3, <2>4, <2>5
  <2> QED
    BY <2>6
<1>6. n \in T
  <2> HIDE DEF T
  <2>1. 0 .. n \subseteq T
    BY <1>1, <1>4, <1>5, UpTo
  <2> QED
    BY <1>1, <2>1
<1>7. SubSeq(recs, 1, z + n) = recs
  BY <1>1, <1>3
<1>8. made(n) = c
  <2>1. p + n = last
    BY <1>3
  <2>2. [i \in p + 1 .. p + n |-> c.entries[i]] = c.entries
    BY <1>2, <2>1
  <2> QED
    BY <1>2, <2>2
<1> QED
  BY <1>6, <1>7, <1>8 DEF recs

-----------------------------------------------------------------------------
(* What may be found of a file and of a call.                               *)

\* Of no call there is one outcome; a call that went through is one of its own.
LEMMA OutcomesAre ==
    ASSUME NEW c, NEW recs \in Seq(Record)
    PROVE  /\ Outcomes(c, << >>) = {c}
           /\ c \in Outcomes(c, recs)
           /\ AppliedAll(c, recs) \in Outcomes(c, recs)
           /\ SubSeq(recs, 1, Len(recs)) = recs
           /\ SubSeq(recs, 1, 0) = << >>
<1>1. SubSeq(recs, 1, Len(recs)) = recs /\ SubSeq(recs, 1, 0) = << >> /\ Len(recs) \in Nat
  OBVIOUS
<1>2. AppliedAll(c, << >>) = c
  BY AppliedNone
<1>3. Outcomes(c, << >>) = {c}
  <2>1. SubSeq(<< >>, 1, 0) = << >> /\ Len(<< >>) = 0
    OBVIOUS
  <2>2. 0 .. 0 = {0}
    OBVIOUS
  <2>3. Outcomes(c, << >>) = {AppliedAll(c, SubSeq(<< >>, 1, k)) : k \in {0}}
    BY <2>1, <2>2 DEF Outcomes
  <2>4. {AppliedAll(c, SubSeq(<< >>, 1, k)) : k \in {0}} = {AppliedAll(c, SubSeq(<< >>, 1, 0))}
    OBVIOUS
  <2> QED
    BY <1>2, <2>1, <2>3, <2>4
<1>4. 0 \in 0 .. Len(recs) /\ Len(recs) \in 0 .. Len(recs)
  BY <1>1
<1> QED
  BY <1>1, <1>2, <1>3, <1>4 DEF Outcomes

\* A call of one record did nothing, or all it does.
LEMMA OutcomesOfOne ==
    ASSUME NEW c, NEW recs \in Seq(Record), Len(recs) = 1
    PROVE  /\ AppliedAll(c, recs) = Applied(c, recs[1])
           /\ Outcomes(c, recs) = {c, Applied(c, recs[1])}
<1>1. SubSeq(recs, 1, 1) = recs /\ SubSeq(recs, 1, 0) = << >> /\ 1 \in 1 .. Len(recs)
  OBVIOUS
<1>2. AppliedAll(c, << >>) = c
  BY AppliedNone
<1>3. \A k \in 1 .. Len(recs) :
          AppliedAll(c, SubSeq(recs, 1, k)) = Applied(AppliedAll(c, SubSeq(recs, 1, k - 1)), recs[k])
  BY AppliedLast
<1>4. AppliedAll(c, recs) = Applied(c, recs[1])
  <2>1. AppliedAll(c, SubSeq(recs, 1, 1)) = Applied(AppliedAll(c, SubSeq(recs, 1, 1 - 1)), recs[1])
    BY <1>1, <1>3
  <2>2. 1 - 1 = 0
    OBVIOUS
  <2> QED
    BY <1>1, <1>2, <2>1, <2>2
<1>5. Outcomes(c, recs) = {AppliedAll(c, SubSeq(recs, 1, 0)), AppliedAll(c, SubSeq(recs, 1, 1))}
  <2>1. 0 .. Len(recs) = {0, 1}
    OBVIOUS
  <2> QED
    BY <2>1 DEF Outcomes
<1> QED
  BY <1>1, <1>2, <1>4, <1>5

\* What is left of a file once the end of its unsynced part is lost.
LEMMA CutsFit ==
    ASSUME NEW recs \in Seq(Record), NEW n \in 0 .. Len(recs), NEW outs,
           Readable(recs), Finds(recs, n, outs), NEW s \in CutShort(recs, n)
    PROVE  s \in Seq(Record) /\ Readable(s) /\ AppliedAll(Empty, s) \in outs
<1>0. Len(recs) \in Nat
  OBVIOUS
<1>1. ASSUME NEW k \in n .. Len(recs), s = SubSeq(recs, 1, k)
      PROVE  s \in Seq(Record) /\ Readable(s) /\ AppliedAll(Empty, s) \in outs
  <2>1. /\ s \in Seq(Record) /\ Len(s) = k /\ \A i \in 1 .. k : s[i] = recs[i]
    BY <1>0, <1>1
  <2>2. Readable(s)
    BY <1>0, <2>1 DEF Readable
  <2>3. AppliedAll(Empty, s) \in outs
    BY <1>1 DEF Finds
  <2> QED
    BY <2>1, <2>2, <2>3
<1>2. ASSUME NEW k \in n .. Len(recs) - 1, s = Append(SubSeq(recs, 1, k), Torn)
      PROVE  s \in Seq(Record) /\ Readable(s) /\ AppliedAll(Empty, s) \in outs
  <2> DEFINE t == SubSeq(recs, 1, k)
  <2>1. Torn \in Record
    BY DEF Torn, Record, Ids
  <2>2. t \in Seq(Record) /\ Len(t) = k /\ \A i \in 1 .. k : t[i] = recs[i]
    BY <1>0
  <2> HIDE DEF t
  <2>3. s = Append(t, Torn)
    BY <1>2 DEF t
  <2>4. s \in Seq(Record) /\ Len(s) = k + 1 /\ \A i \in 1 .. k : s[i] = t[i]
    BY <2>1, <2>2, <2>3
  <2>5. Readable(s)
    BY <1>0, <2>2, <2>4 DEF Readable
  <2>6. AppliedAll(Empty, s) = Applied(AppliedAll(Empty, t), Torn)
    BY <2>1, <2>2, <2>3, AppliedAppend
  <2>7. Applied(AppliedAll(Empty, t), Torn) = AppliedAll(Empty, t)
    BY DEF Applied, Torn
  <2>8. AppliedAll(Empty, t) \in outs
    <3>1. k \in n .. Len(recs)
      BY <1>0
    <3> QED
      BY <3>1 DEF t, Finds
  <2> QED
    BY <2>4, <2>5, <2>6, <2>7, <2>8
<1> QED
  BY <1>1, <1>2 DEF CutShort

\* A file all of which is sure.
LEMMA SureFinds ==
    ASSUME NEW recs \in Seq(Record), NEW outs
    PROVE  Finds(recs, Len(recs), outs) <=> AppliedAll(Empty, recs) \in outs
<1>1. SubSeq(recs, 1, Len(recs)) = recs /\ Len(recs) .. Len(recs) = {Len(recs)}
  OBVIOUS
<1> QED
  BY <1>1 DEF Finds

\* What a file has is among what may be found of it.
LEMMA FindsAll ==
    ASSUME NEW recs \in Seq(Record), NEW n \in 0 .. Len(recs), NEW outs, Finds(recs, n, outs)
    PROVE  AppliedAll(Empty, recs) \in outs
<1>1. SubSeq(recs, 1, Len(recs)) = recs /\ Len(recs) \in n .. Len(recs)
  OBVIOUS
<1> QED
  BY <1>1 DEF Finds

\* A record is written at the end of a file.
LEMMA WriteFinds ==
    ASSUME NEW recs \in Seq(Record), NEW n \in 0 .. Len(recs), NEW outs, Finds(recs, n, outs),
           NEW r \in Record, Applied(AppliedAll(Empty, recs), r) \in outs, Sound(recs)
    PROVE  /\ Append(recs, r) \in Seq(Record)
           /\ n \in 0 .. Len(Append(recs, r))
           /\ AppliedAll(Empty, Append(recs, r)) = Applied(AppliedAll(Empty, recs), r)
           /\ Readable(Append(recs, r))
           /\ r.kind # "torn" => Sound(Append(recs, r))
           /\ Finds(Append(recs, r), n, outs)
<1> DEFINE a == Append(recs, r)
<1>1. /\ a \in Seq(Record) /\ Len(a) = Len(recs) + 1 /\ Len(recs) \in Nat
      /\ \A i \in 1 .. Len(recs) : a[i] = recs[i]
      /\ a[Len(recs) + 1] = r
  OBVIOUS
<1>2. AppliedAll(Empty, a) = Applied(AppliedAll(Empty, recs), r)
  BY AppliedAppend
<1>3. \A k \in n .. Len(recs) : SubSeq(a, 1, k) = SubSeq(recs, 1, k)
  <2> SUFFICES ASSUME NEW k \in n .. Len(recs) PROVE SubSeq(a, 1, k) = SubSeq(recs, 1, k)
    OBVIOUS
  <2>1. k \in 0 .. Len(recs) /\ k \in 0 .. Len(a)
    BY <1>1
  <2> HIDE DEF a
  <2> QED
    BY <1>1, <2>1
<1>4. SubSeq(a, 1, Len(a)) = a
  BY <1>1
<1> HIDE DEF a
<1>5. Readable(a) /\ (r.kind # "torn" => Sound(a))
  BY <1>1 DEF Readable, Sound
<1>6. Finds(a, n, outs)
  <2> SUFFICES ASSUME NEW k \in n .. Len(a) PROVE AppliedAll(Empty, SubSeq(a, 1, k)) \in outs
    BY DEF Finds
  <2>1. CASE k = Len(a)
    BY <1>2, <1>4, <2>1
  <2>2. CASE k # Len(a)
    <3>1. k \in n .. Len(recs)
      BY <1>1, <2>2
    <3> QED
      BY <1>3, <3>1 DEF Finds
  <2> QED
    BY <2>1, <2>2
<1>7. n \in 0 .. Len(a)
  BY <1>1
<1> QED
  BY <1>1, <1>2, <1>5, <1>6, <1>7 DEF a

\* A file is cut behind its last whole record.
LEMMA WholeFits ==
    ASSUME NEW recs \in Seq(Record), Readable(recs)
    PROVE  /\ Whole(recs) \in Seq(Record) /\ Sound(Whole(recs))
           /\ AppliedAll(Empty, Whole(recs)) = AppliedAll(Empty, recs)
<1> DEFINE n == Len(recs)
<1>0. n \in Nat
  OBVIOUS
<1>1. CASE n > 0 /\ recs[n].kind = "torn"
  <2> DEFINE s == SubSeq(recs, 1, n - 1)
  <2>1. Whole(recs) = s
    BY <1>1 DEF Whole
  <2>2. s \in Seq(Record) /\ Len(s) = n - 1 /\ \A i \in 1 .. n - 1 : s[i] = recs[i]
    <3>1. n - 1 \in 0 .. Len(recs)
      BY <1>0, <1>1
    <3> DEFINE k == n - 1
    <3>2. k \in 0 .. Len(recs)
      BY <3>1
    <3> HIDE DEF k, n
    <3>3. /\ SubSeq(recs, 1, k) \in Seq(Record) /\ Len(SubSeq(recs, 1, k)) = k
          /\ \A i \in 1 .. k : SubSeq(recs, 1, k)[i] = recs[i]
      BY <3>2
    <3> QED
      BY <3>3 DEF k
  <2> HIDE DEF s
  <2>3. Sound(s)
    BY <2>2 DEF Sound, Readable
  <2>4. AppliedAll(Empty, SubSeq(recs, 1, n)) = Applied(AppliedAll(Empty, SubSeq(recs, 1, n - 1)), recs[n])
    <3>1. n \in 1 .. Len(recs)
      BY <1>0, <1>1
    <3> HIDE DEF n
    <3> QED
      BY <3>1, AppliedLast
  <2>5. Applied(AppliedAll(Empty, s), recs[n]) = AppliedAll(Empty, s)
    BY <1>1 DEF Applied
  <2>6. SubSeq(recs, 1, n) = recs
    OBVIOUS
  <2> QED
    BY <2>1, <2>2, <2>3, <2>4, <2>5, <2>6 DEF s
<1>2. CASE ~(n > 0 /\ recs[n].kind = "torn")
  <2>1. Whole(recs) = recs
    BY <1>2 DEF Whole
  <2>2. Sound(recs)
    BY <1>0, <1>2 DEF Sound, Readable
  <2> QED
    BY <2>1, <2>2
<1> QED
  BY <1>1, <1>2

-----------------------------------------------------------------------------
(* The calls of openraft.                                                   *)

\* A call that leaves, however far it gets, a log without gap that holds every
\* entry up to f the log before it held.
GoodCall(c, recs, f) ==
    /\ recs \in Seq(Record) /\ recs # << >>
    /\ (\A i \in 1 .. Len(recs) : recs[i].kind = "insert") \/ Len(recs) = 1
    /\ Sound(recs)
    /\ \A x \in Outcomes(c, recs) :
          LogOK(x) /\ \A id \in Ids : id.index <= f.index /\ Holds(c, id) => Holds(x, id)

\* Entries after the last one.
LEMMA AppendIsGood ==
    ASSUME BoundsAssumption, NEW c, LogOK(c), NEW f, NEW n \in Nat \ {0}, NEW t \in Terms,
           LastIndex(c) + n <= MaxIndex
    PROVE  GoodCall(c, [i \in 1 .. n |-> Insert([index |-> LastIndex(c) + i, term |-> t])], f)
<1> DEFINE l == LastIndex(c)
           e(i) == Insert([index |-> l + i, term |-> t])
           recs == [i \in 1 .. n |-> e(i)]
           x(k) == AppliedAll(c, SubSeq(recs, 1, k))
           T == {k \in Nat : LogOK(x(k)) /\ LastIndex(x(k)) = l + k
                             /\ \A id \in Ids : Holds(c, id) => Holds(x(k), id)}
<1>1. l \in -1 .. MaxIndex /\ MaxIndex \in Nat /\ l + n <= MaxIndex
  <2>1. l \in c.purged.index .. MaxIndex /\ c.purged.index \in -1 .. MaxIndex
    BY LastOf
  <2>2. MaxIndex \in Nat
    BY DEF BoundsAssumption
  <2> QED
    BY <2>1, <2>2
<1> HIDE DEF l
<1>2. \A i \in 1 .. n : e(i) \in Record /\ e(i).kind = "insert" /\ e(i).id \in LogId
                        /\ e(i).id.index = l + i
  <2> SUFFICES ASSUME NEW i \in 1 .. n
               PROVE  e(i) \in Record /\ e(i).kind = "insert" /\ e(i).id \in LogId
                      /\ e(i).id.index = l + i
    OBVIOUS
  <2>1. l + i \in 0 .. MaxIndex
    BY <1>1
  <2>2. [index |-> l + i, term |-> t] \in LogId
    BY <2>1 DEF LogId, Indices
  <2> QED
    BY <2>2 DEF Insert, Record, Ids
<1> HIDE DEF e
<1>3. recs \in Seq(Record) /\ Len(recs) = n /\ \A i \in 1 .. n : recs[i] = e(i)
  BY <1>2
<1>4. recs # << >>
  BY <1>3
<1> HIDE DEF recs
<1>5. 0 \in T
  <2>1. x(0) = c
    <3>1. SubSeq(recs, 1, 0) = << >>
      BY <1>3
    <3> QED
      BY <3>1, AppliedNone
  <2>2. LastIndex(c) = l + 0
    BY <1>1 DEF l
  <2> HIDE DEF x
  <2> QED
    BY <2>1, <2>2
<1>6. ASSUME NEW k \in 0 .. n - 1, k \in T PROVE k + 1 \in T
  <2>1. k + 1 \in 1 .. Len(recs) /\ (k + 1) - 1 = k /\ k + 1 \in 1 .. n /\ k \in Nat
    BY <1>3
  <2>2. x(k + 1) = Applied(x(k), e(k + 1))
    <3> DEFINE j == k + 1
    <3>1. j \in 1 .. Len(recs) /\ j - 1 = k /\ j \in 1 .. n
      BY <2>1
    <3> HIDE DEF j
    <3>2. AppliedAll(c, SubSeq(recs, 1, j)) = Applied(AppliedAll(c, SubSeq(recs, 1, j - 1)), recs[j])
      BY <1>3, <3>1, AppliedLast
    <3>3. recs[j] = e(j)
      BY <1>3, <3>1
    <3>4. AppliedAll(c, SubSeq(recs, 1, j)) = Applied(AppliedAll(c, SubSeq(recs, 1, k)), e(j))
      BY <3>1, <3>2, <3>3
    <3> QED
      BY <3>4 DEF j
  <2> HIDE DEF x
  <2>3. LogOK(x(k)) /\ LastIndex(x(k)) = l + k /\ \A id \in Ids : Holds(c, id) => Holds(x(k), id)
    BY <1>6
  <2>4. /\ e(k + 1).kind = "insert" /\ e(k + 1).id \in LogId
        /\ e(k + 1).id.index = l + (k + 1)
    BY <1>2, <2>1
  <2>5. e(k + 1).id.index = LastIndex(x(k)) + 1
    BY <1>1, <2>1, <2>3, <2>4
  <2> DEFINE y == x(k)
             r == e(k + 1)
  <2> HIDE DEF y, r
  <2>6. LogOK(y) /\ r.kind = "insert" /\ r.id \in LogId /\ r.id.index = LastIndex(y) + 1
    BY <2>3, <2>4, <2>5 DEF y, r
  <2>7. /\ LogOK(Applied(y, r)) /\ LastIndex(Applied(y, r)) = r.id.index
        /\ \A id \in Ids : Holds(y, id) => Holds(Applied(y, r), id)
    BY <2>6, InsertFits
  <2>8. x(k + 1) = Applied(y, r) /\ r.id.index = l + (k + 1)
    BY <2>2, <2>4 DEF y, r
  <2>9. \A id \in Ids : Holds(c, id) => Holds(y, id)
    BY <2>3 DEF y
  <2> QED
    BY <2>1, <2>7, <2>8, <2>9
<1>7. \A k \in 0 .. n : LogOK(x(k)) /\ \A id \in Ids : Holds(c, id) => Holds(x(k), id)
  <2>1. 0 .. n \subseteq T
    <3> HIDE DEF T
    <3> QED
      BY <1>5, <1>6, UpTo
  <2> HIDE DEF x
  <2> QED
    BY <2>1
<1>8. \A y \in Outcomes(c, recs) :
          LogOK(y) /\ \A id \in Ids : id.index <= f.index /\ Holds(c, id) => Holds(y, id)
  BY <1>3, <1>7 DEF Outcomes
<1>9. \A i \in 1 .. Len(recs) : recs[i].kind = "insert"
  BY <1>2, <1>3
<1>10. GoodCall(c, recs, f)
  BY <1>3, <1>4, <1>8, <1>9 DEF GoodCall, Sound
<1> QED
  BY <1>10 DEF recs, e, l

\* One record that is not an insert.
LEMMA OneIsGood ==
    ASSUME NEW c, LogOK(c), NEW f, NEW r \in Record, r.kind # "torn", LogOK(Applied(c, r)),
           \A id \in Ids : id.index <= f.index /\ Holds(c, id) => Holds(Applied(c, r), id)
    PROVE  GoodCall(c, <<r>>, f)
<1> DEFINE recs == <<r>>
<1>1. recs \in Seq(Record) /\ Len(recs) = 1 /\ recs[1] = r /\ recs # << >>
  OBVIOUS
<1> HIDE DEF recs
<1>2. Outcomes(c, recs) = {c, Applied(c, r)}
  BY <1>1, OutcomesOfOne
<1>3. \A i \in 1 .. Len(recs) : recs[i].kind # "torn"
  BY <1>1
<1>4. GoodCall(c, recs, f)
  BY <1>1, <1>2, <1>3 DEF GoodCall, Sound
<1> QED
  BY <1>4 DEF recs

\* A truncation of entries that are not known to be committed.
LEMMA TruncateIsGood ==
    ASSUME BoundsAssumption, NEW c, LogOK(c), NEW f, f.index \in Int,
           NEW i \in DOMAIN c.entries, i > f.index
    PROVE  GoodCall(c, <<Truncate([index |-> i, term |-> c.entries[i]])>>, f)
<1> DEFINE r == Truncate([index |-> i, term |-> c.entries[i]])
<1>1. r.kind = "truncate" /\ r.id.index = i
  BY DEF Truncate
<1>2. r \in Record /\ i \in Int
  <2>1. /\ LastIndex(c) \in c.purged.index .. MaxIndex
        /\ c.entries \in [c.purged.index + 1 .. LastIndex(c) -> Terms]
        /\ c.purged.index \in -1 .. MaxIndex
    BY LastOf
  <2>2. i \in 0 .. MaxIndex /\ c.entries[i] \in Terms
    <3>1. i \in c.purged.index + 1 .. LastIndex(c) /\ MaxIndex \in Nat
      BY <2>1 DEF BoundsAssumption
    <3> QED
      BY <2>1, <3>1
  <2>3. [index |-> i, term |-> c.entries[i]] \in LogId
    BY <2>2 DEF LogId, Indices
  <2> QED
    BY <2>2, <2>3 DEF Truncate, Record, Ids
<1> HIDE DEF r
<1>3. /\ LogOK(Applied(c, r))
      /\ \A id \in Ids : id.index < r.id.index /\ Holds(c, id) => Holds(Applied(c, r), id)
  BY <1>1, TruncateFits
<1>4. \A id \in Ids : id.index \in Int
  BY DEF Ids, LogId, None, Indices
<1>5. \A id \in Ids : id.index <= f.index /\ Holds(c, id) => Holds(Applied(c, r), id)
  BY <1>1, <1>2, <1>3, <1>4
<1>6. r.kind # "torn"
  BY <1>1
<1>7. GoodCall(c, <<r>>, f)
  BY <1>2, <1>3, <1>5, <1>6, OneIsGood
<1> QED
  BY <1>7 DEF r

\* A purge of committed entries, or beyond the end of the log.
LEMMA PurgeIsGood ==
    ASSUME BoundsAssumption, NEW c, LogOK(c), NEW f, f.index \in Int, NEW p \in LogId,
           p.index > c.purged.index,
           \/ p.index \in DOMAIN c.entries /\ c.entries[p.index] = p.term
           \/ p.index > LastIndex(c) /\ p.index > f.index
    PROVE  GoodCall(c, <<Purge(p)>>, f)
<1> DEFINE r == Purge(p)
<1>1. r.kind = "purge" /\ r.id = p /\ r.kind # "torn" /\ r \in Record
  BY DEF Purge, Record, Ids
<1> HIDE DEF r
<1>2. /\ LogOK(Applied(c, r))
      /\ \A id \in Ids : Holds(c, id) =>
            \/ Holds(Applied(c, r), id)
            \/ r.id.index > LastIndex(c) /\ id.index >= r.id.index
  BY <1>1, PurgeFits
<1>3. ASSUME NEW id \in Ids, id.index <= f.index, Holds(c, id) PROVE Holds(Applied(c, r), id)
  <2>1. id.index \in Int /\ p.index \in Int
    BY DEF Ids, LogId, None, Indices
  <2>2. CASE p.index > LastIndex(c) /\ p.index > f.index
    BY <1>1, <1>2, <1>3, <2>1, <2>2
  <2>3. CASE p.index \in DOMAIN c.entries
    <3>1. p.index <= LastIndex(c) /\ LastIndex(c) \in Int
      <4>1. /\ LastIndex(c) \in c.purged.index .. MaxIndex
            /\ c.entries \in [c.purged.index + 1 .. LastIndex(c) -> Terms]
            /\ c.purged.index \in -1 .. MaxIndex
        BY LastOf
      <4>2. p.index \in c.purged.index + 1 .. LastIndex(c)
        BY <2>3, <4>1
      <4> QED
        BY <4>1, <4>2
    <3> QED
      BY <1>1, <1>2, <1>3, <2>1, <3>1
  <2> QED
    BY <2>2, <2>3
<1>4. GoodCall(c, <<r>>, f)
  BY <1>1, <1>2, <1>3, OneIsGood
<1> QED
  BY <1>4 DEF r

-----------------------------------------------------------------------------
(* The steps.                                                               *)

\* An answer settles what the call made of the log.
LEMMA AnswerSettles ==
    ASSUME BoundsAssumption, RaftInv, NEW c \in May, NEW v \in 0 .. MaxTerm, Answered(c, v)
    PROVE  /\ May' = {c} /\ LogOK(c)
           /\ frontier' \in Ids /\ frontier'.index >= frontier.index
           /\ promised'.vote = v /\ pending' = Nothing
           /\ pending'.recs = << >> /\ pending'.vote = 0 /\ pending'.recs \in Seq(Record)
<1>1. promised' = [log |-> c, vote |-> v] /\ pending' = Nothing
  BY DEF Answered
<1>2. promised'.log = c /\ promised'.vote = v /\ pending'.recs = << >> /\ pending'.vote = 0
  BY <1>1 DEF Nothing
<1>3. May' = {c}
  <2>1. May' = Outcomes(c, << >>)
    BY <1>2 DEF May
  <2>2. << >> \in Seq(Record)
    OBVIOUS
  <2> QED
    BY <2>1, <2>2, OutcomesAre
<1>4. LogOK(c)
  BY DEF RaftInv, FilesHave
<1>5. c.purged \in Ids /\ frontier \in Ids
  BY <1>4 DEF LogOK, RaftInv, Typed, RaftLogTypeOK, Ids
<1>6. \A id \in Ids : id.index \in Int
  BY DEF Ids, LogId, None, Indices
<1>7. frontier' \in Ids /\ frontier'.index >= frontier.index
  BY <1>5, <1>6 DEF Answered
<1> QED
  BY <1>1, <1>2, <1>3, <1>4, <1>7

\* No new entry is called committed, and no new log may be found.
LEMMA KeptStill ==
    ASSUME RaftInv, May' \subseteq May, frontier' \in Ids, frontier'.index >= frontier.index,
           committed' \in {committed, None} \union {m.committed : m \in MetaImages},
           \A m \in MetaImages' :
               m.committed \in {committed, None} \union {i.committed : i \in MetaImages}
    PROVE  CommittedKept'
<1> DEFINE Old == {committed} \union {m.committed : m \in MetaImages}
<1>1. \A id \in Old : id.index <= frontier.index /\ \A c \in May : Holds(c, id)
  BY DEF RaftInv, CommittedKept
<1>2. \A id \in Ids : id.index \in Int /\ id.index >= -1
  BY DEF Ids, LogId, None, Indices
<1>3. frontier \in Ids /\ Old \subseteq Ids
  BY DEF RaftInv, Typed, RaftLogTypeOK, Ids, MetaImages, Meta
<1>4. \A id \in Old : id.index <= frontier'.index
  BY <1>1, <1>2, <1>3
<1>5. None.index <= frontier'.index /\ \A c : Holds(c, None)
  BY <1>2 DEF None, Holds
<1>6. {committed'} \union {m.committed : m \in MetaImages'} \subseteq Old \union {None}
  OBVIOUS
<1>7. \A id \in Old \union {None} : id.index <= frontier'.index /\ \A c \in May' : Holds(c, id)
  BY <1>1, <1>4, <1>5
<1> HIDE DEF Old
<1>8. \A id \in {committed'} \union {m.committed : m \in MetaImages'} :
          id.index <= frontier'.index /\ \A c \in May' : Holds(c, id)
  BY <1>6, <1>7
<1> QED
  BY <1>8 DEF CommittedKept

\* The answer and the call under way stay, and so does what may be found.
LEMMA MayStays ==
    ASSUME UNCHANGED <<promised, pending>>
    PROVE  May' = May
  BY DEF May

\* A call begins.
LEMMA BeginKeeps ==
    ASSUME BoundsAssumption, RaftInv, NEW recs, BeginCall(recs), GoodCall(mem, recs, frontier),
           UNCHANGED <<files, inner, promised, frontier, raftLogUsed>>
    PROVE  RaftInv'
<1>1. /\ pc = "idle" /\ pc' = "write"
      /\ op' = [recs |-> recs, vote |-> 0] /\ op'.recs = recs /\ pending' = [recs |-> recs, vote |-> 0]
      /\ pending'.recs = recs /\ pending'.vote = 0
  BY DEF BeginCall
<1>2. /\ mem = AppliedAll(Empty, wal.recs) /\ mem \in May /\ pending.recs = << >>
      /\ before = {} /\ metaBefore = {} /\ Sound(wal.recs)
  BY <1>1 DEF RaftInv, CallFits, Serving
<1>3. UNCHANGED <<wal, sure, before, meta, metaBefore, mem, vote, committed, written,
                  promised, frontier, raftLogUsed>>
  BY DEF files, inner
<1>4. recs \in Seq(Record) /\ recs # << >> /\ Sound(recs)
  BY DEF GoodCall
<1>5. May = {promised.log} /\ mem = promised.log
  <2>1. << >> \in Seq(Record)
    OBVIOUS
  <2>2. May = {promised.log}
    BY <1>2, <2>1, OutcomesAre DEF May
  <2> QED
    BY <1>2, <2>2
<1>6. May' = Outcomes(mem, recs)
  BY <1>1, <1>3, <1>5 DEF May
<1>7. mem \in May' /\ SubSeq(recs, 1, Len(recs)) = recs /\ SubSeq(recs, 1, 0) = << >>
  BY <1>4, <1>6, OutcomesAre
<1>8. Typed'
  BY <1>1, <1>3, <1>4 DEF RaftInv, Typed, RaftLogTypeOK
<1>9. FilesHave'
  <2>1. Readable(wal.recs) /\ Finds(wal.recs, sure, {mem})
    BY <1>5 DEF RaftInv, FilesHave
  <2>2. Finds(wal.recs, sure, May')
    BY <1>7, <2>1 DEF Finds
  <2>3. \A x \in May' : LogOK(x)
    BY <1>6 DEF GoodCall
  <2> QED
    BY <1>2, <1>3, <2>1, <2>2, <2>3 DEF FilesHave
<1>10. CallFits'
  <2>1. Len(recs) \in Nat
    BY <1>4
  <2>2. mem = AppliedAll(promised.log, SubSeq(recs, 1, 0))
    BY <1>5, <1>7, AppliedNone
  <2>3. (\A i \in 1 .. Len(recs) : recs[i].kind = "insert") \/ Len(recs) = 1
    BY DEF GoodCall
  <2>4. LET n == Len(pending'.recs) - Len(op'.recs)
        IN  /\ op'.recs # << >> /\ n \in Nat
            /\ op'.recs = SubSeq(pending'.recs, n + 1, Len(pending'.recs))
            /\ mem' = AppliedAll(promised'.log, SubSeq(pending'.recs, 1, n))
            /\ \/ \A i \in 1 .. Len(pending'.recs) : pending'.recs[i].kind = "insert"
               \/ Len(pending'.recs) = 1
            /\ Sound(pending'.recs)
    <3>1. Len(recs) - Len(recs) = 0 /\ 0 + 1 = 1
      BY <2>1
    <3> QED
      BY <1>1, <1>3, <1>4, <1>7, <2>2, <2>3, <3>1
  <2> QED
    BY <1>1, <1>2, <1>3, <1>7, <2>4 DEF CallFits, Serving, Opening
<1>11. VotesFit'
  BY <1>1, <1>2, <1>3 DEF RaftInv, VotesFit, Possible, MetaImages, Opening, Typed, Meta
<1>12. CommittedKept'
  <2>1. MetaImages' = MetaImages
    BY <1>3 DEF MetaImages
  <2> SUFFICES ASSUME NEW id \in {committed} \union {m.committed : m \in MetaImages}
               PROVE  id.index <= frontier.index /\ \A c \in May' : Holds(c, id)
    BY <1>3, <2>1 DEF CommittedKept
  <2>2. id.index <= frontier.index /\ Holds(mem, id)
    BY <1>2 DEF RaftInv, CommittedKept
  <2>3. id \in Ids
    BY DEF RaftInv, Typed, RaftLogTypeOK, Ids, MetaImages, Meta
  <2> QED
    BY <1>6, <2>2, <2>3 DEF GoodCall
<1> QED
  BY <1>8, <1>9, <1>10, <1>11, <1>12 DEF RaftInv

\* The three calls that write records.
LEMMA CallsKeep ==
    ASSUME BoundsAssumption, RaftInv,
           \/ \E n \in 1 .. MaxBatch, t \in Terms : BeginAppend(n, t)
           \/ \E i \in Indices : BeginTruncate(i)
           \/ \E id \in LogId : BeginPurge(id)
    PROVE  RaftInv'
<1>1. pc = "idle" => mem \in May /\ LogOK(mem) /\ frontier.index \in Int
  BY DEF RaftInv, CallFits, Serving, FilesHave, Typed, RaftLogTypeOK, LogId, None, Indices
<1>2. ASSUME NEW n \in 1 .. MaxBatch, NEW t \in Terms, BeginAppend(n, t) PROVE RaftInv'
  <2> DEFINE recs == [i \in 1 .. n |-> Insert([index |-> LastIndex(mem) + i, term |-> t])]
  <2>1. pc = "idle" /\ LastIndex(mem) + n <= MaxIndex /\ BeginCall(recs)
        /\ UNCHANGED <<files, inner, promised, frontier, raftLogUsed>>
    BY <1>2 DEF BeginAppend, BeginCall
  <2>2. n \in Nat \ {0}
    BY <1>2
  <2>3. GoodCall(mem, recs, frontier)
    BY <1>1, <2>1, <2>2, AppendIsGood
  <2> HIDE DEF recs
  <2> QED
    BY <2>1, <2>3, BeginKeeps
<1>3. ASSUME NEW i \in Indices, BeginTruncate(i) PROVE RaftInv'
  <2> DEFINE recs == <<Truncate([index |-> i, term |-> mem.entries[i]])>>
  <2>1. pc = "idle" /\ i \in DOMAIN mem.entries /\ i > frontier.index /\ BeginCall(recs)
        /\ UNCHANGED <<files, inner, promised, frontier, raftLogUsed>>
    BY <1>3 DEF BeginTruncate, BeginCall
  <2>2. GoodCall(mem, recs, frontier)
    BY <1>1, <2>1, TruncateIsGood
  <2> HIDE DEF recs
  <2> QED
    BY <2>1, <2>2, BeginKeeps
<1>4. ASSUME NEW id \in LogId, BeginPurge(id) PROVE RaftInv'
  <2> DEFINE recs == <<Purge(id)>>
  <2>1. /\ pc = "idle" /\ id.index > mem.purged.index /\ BeginCall(recs)
        /\ \/ id.index \in DOMAIN mem.entries /\ mem.entries[id.index] = id.term
           \/ id.index > LastIndex(mem) /\ id.index > frontier.index
        /\ UNCHANGED <<files, inner, promised, frontier, raftLogUsed>>
    BY <1>4 DEF BeginPurge, BeginCall
  <2>2. GoodCall(mem, recs, frontier)
    BY <1>1, <2>1, PurgeIsGood
  <2> HIDE DEF recs
  <2> QED
    BY <2>1, <2>2, BeginKeeps
<1> QED
  BY <1>2, <1>3, <1>4

\* A record reaches the file.
LEMMA WriteKeeps ==
    ASSUME BoundsAssumption, RaftInv, WriteRecord
    PROVE  RaftInv'
<1> DEFINE R == pending.recs
           N == Len(R)
           n == N - Len(op.recs)
           r == Head(op.recs)
           made(k) == AppliedAll(promised.log, SubSeq(R, 1, k))
<1>1. /\ pc = "write" /\ op.recs # << >>
      /\ wal' = [wal EXCEPT !.recs = Append(@, r)]
      /\ pc' = IF Len(op.recs) = 1 THEN "sync" ELSE "write"
      /\ UNCHANGED <<sure, before, meta, metaBefore, vote, committed, written,
                     promised, pending, frontier, raftLogUsed>>
  BY DEF WriteRecord, history
<1>2. /\ mem = AppliedAll(Empty, wal.recs) /\ mem \in May /\ Sound(wal.recs)
      /\ before = {} /\ metaBefore = {}
      /\ n \in Nat /\ op.recs = SubSeq(R, n + 1, N) /\ mem = made(n)
      /\ (\A i \in 1 .. N : R[i].kind = "insert") \/ N = 1
      /\ Sound(R)
  BY <1>1 DEF RaftInv, CallFits, Serving
<1>3. /\ R \in Seq(Record) /\ op.recs \in Seq(Record) /\ N \in Nat
      /\ wal \in File /\ sure \in 0 .. Len(wal.recs)
  BY DEF RaftInv, Typed, RaftLogTypeOK
<1>4. /\ Len(op.recs) = N - n /\ n + 1 \in 1 .. N
      /\ r = R[n + 1] /\ r \in Record
      /\ Tail(op.recs) = SubSeq(R, (n + 1) + 1, N) /\ Len(Tail(op.recs)) = Len(op.recs) - 1
      /\ Tail(op.recs) \in Seq(Record)
      /\ Len(op.recs) \in Nat \ {0}
  <2>1. Len(op.recs) \in Nat \ {0} /\ Len(op.recs) = N - n
    BY <1>1, <1>3
  <2>2. n + 1 \in 1 .. N
    <3> DEFINE l == Len(op.recs)
    <3>1. n \in Nat /\ N \in Nat /\ n = N - l /\ l \in Nat \ {0}
      BY <1>2, <1>3, <2>1
    <3> HIDE DEF n, N, l
    <3> QED
      BY <3>1
  <2>3. r \in Record /\ Tail(op.recs) \in Seq(Record) /\ Len(Tail(op.recs)) = Len(op.recs) - 1
    BY <1>1, <1>3, HeadTailProperties
  <2> DEFINE k == n + 1
  <2> HIDE DEF k, n, N, r
  <2>4. k \in 1 .. N /\ N \in k .. N
    BY <1>3, <2>2 DEF k
  <2>5. Head(SubSeq(R, k, N)) = R[k] /\ Tail(SubSeq(R, k, N)) = SubSeq(R, k + 1, N)
    <3>1. k \in 1 .. Len(R) /\ N \in k .. Len(R)
      BY <2>4 DEF N
    <3> QED
      BY <1>3, <3>1, HeadTailOfSubSeq
  <2>6. op.recs = SubSeq(R, k, N)
    BY <1>2 DEF k
  <2>7. r = R[k] /\ Tail(op.recs) = SubSeq(R, k + 1, N)
    BY <2>5, <2>6 DEF r
  <2> QED
    BY <2>1, <2>2, <2>3, <2>7 DEF k
<1>5. made(n + 1) = Applied(mem, r) /\ made(n + 1) \in May
  <2> DEFINE k == n + 1
  <2>0. n \in Nat /\ k \in 1 .. N /\ r = R[k]
    BY <1>2, <1>4
  <2> HIDE DEF n, r
  <2>1. k \in 1 .. Len(R) /\ k - 1 = n /\ r = R[k] /\ k \in 0 .. Len(R)
    BY <2>0
  <2> HIDE DEF k
  <2>2. made(k) = Applied(made(k - 1), R[k])
    BY <1>3, <2>1, AppliedLast
  <2>3. made(k) = Applied(mem, r)
    BY <1>2, <2>1, <2>2
  <2>4. made(k) \in May
    BY <2>1 DEF May, Outcomes
  <2> QED
    BY <2>3, <2>4 DEF k
<1> DEFINE a == Append(wal.recs, r)
<1>6. /\ a \in Seq(Record) /\ sure \in 0 .. Len(a) /\ Readable(a) /\ Sound(a)
      /\ AppliedAll(Empty, a) = made(n + 1) /\ Finds(a, sure, May)
  <2>1. r.kind # "torn"
    BY <1>2, <1>4 DEF Sound
  <2>2. Finds(wal.recs, sure, May)
    BY DEF RaftInv, FilesHave
  <2>3. wal.recs \in Seq(Record)
    BY <1>3 DEF File
  <2>4. Applied(AppliedAll(Empty, wal.recs), r) \in May
    BY <1>2, <1>5
  <2>5. r \in Record /\ Sound(wal.recs) /\ sure \in 0 .. Len(wal.recs)
    BY <1>2, <1>3, <1>4
  <2>6. Applied(AppliedAll(Empty, wal.recs), r) = made(n + 1)
    BY <1>2, <1>5
  <2> DEFINE w == wal.recs
  <2> HIDE DEF n, r, a, w
  <2>7. /\ w \in Seq(Record) /\ sure \in 0 .. Len(w) /\ Finds(w, sure, May) /\ Sound(w)
        /\ Applied(AppliedAll(Empty, w), r) \in May
    BY <2>2, <2>3, <2>4, <2>5 DEF w
  <2>8. /\ Append(w, r) \in Seq(Record) /\ sure \in 0 .. Len(Append(w, r))
        /\ AppliedAll(Empty, Append(w, r)) = Applied(AppliedAll(Empty, w), r)
        /\ Readable(Append(w, r)) /\ (r.kind # "torn" => Sound(Append(w, r)))
        /\ Finds(Append(w, r), sure, May)
    BY <2>5, <2>7, WriteFinds
  <2> QED
    BY <2>1, <2>6, <2>8 DEF a, w
<1>7. wal'.recs = a /\ wal' \in File /\ wal'.v2 = wal.v2
  <2>1. wal = [v2 |-> wal.v2, recs |-> wal.recs] /\ wal.v2 \in BOOLEAN
    BY <1>3 DEF File
  <2> HIDE DEF a, r
  <2>2. wal' = [v2 |-> wal.v2, recs |-> a]
    BY <1>1, <2>1 DEF a
  <2> QED
    BY <1>6, <2>1, <2>2 DEF File
<1>8. May' = May
  BY <1>1, MayStays
<1>9. /\ r.kind = "insert" => mem' = made(n + 1) /\ op'.recs = Tail(op.recs)
      /\ r.kind # "insert" => mem' = mem /\ op' = op
      /\ op' = [recs |-> op'.recs, vote |-> op.vote]
  <2>1. op = [recs |-> op.recs, vote |-> op.vote]
    BY DEF RaftInv, Typed
  <2>2. r.kind = "insert" => mem' = made(n + 1)
    BY <1>5 DEF WriteRecord
  <2>3. r.kind # "insert" => mem' = mem /\ op' = op
    BY DEF WriteRecord
  <2>5. r.kind = "insert" =>
            op'.recs = Tail(op.recs) /\ op' = [recs |-> Tail(op.recs), vote |-> op.vote]
    BY <2>1 DEF WriteRecord
  <2> QED
    BY <2>1, <2>2, <2>3, <2>5
<1>10. Typed'
  <2>1. op'.recs \in Seq(Record) /\ op' = [recs |-> op'.recs, vote |-> op'.vote]
    BY <1>3, <1>4, <1>9
  <2>2. pc' \in {"sync", "write"}
    BY <1>1
  <2>3. wal'.v2 \in BOOLEAN /\ sure' \in 0 .. Len(wal'.recs)
    BY <1>1, <1>6, <1>7 DEF File
  <2> HIDE DEF a, n, r, R, N
  <2> QED
    BY <1>1, <1>7, <2>1, <2>2, <2>3 DEF RaftInv, Typed, RaftLogTypeOK
<1>11. FilesHave'
  <2>1. \A c \in May : LogOK(c)
    BY DEF RaftInv, FilesHave
  <2> HIDE DEF a, n, r, R, N
  <2> QED
    BY <1>1, <1>2, <1>6, <1>7, <1>8, <2>1 DEF FilesHave
<1>12. CallFits'
  <2>1. CASE r.kind = "insert" /\ Len(op.recs) = 1
    <3>1. /\ pc' = "sync" /\ mem' = made(n + 1) /\ op'.recs = Tail(op.recs)
          /\ AppliedAll(Empty, wal'.recs) = made(n + 1)
      BY <1>1, <1>6, <1>7, <1>9, <2>1
    <3>2. Tail(op.recs) = << >>
      BY <1>4, <2>1
    <3>3. AppliedAll(mem', op'.recs) = mem'
      BY <3>1, <3>2, AppliedNone
    <3>4. n + 1 = N /\ SubSeq(R, 1, N) = R
      BY <1>2, <1>3, <1>4, <2>1
    <3>5. made(n + 1) = AppliedAll(promised.log, R)
      BY <3>4
    <3> HIDE DEF a, n, r, N, made
    <3> QED
      BY <1>1, <1>2, <1>6, <1>7, <3>1, <3>3, <3>5 DEF CallFits, Serving, Opening
  <2>2. CASE r.kind = "insert" /\ Len(op.recs) # 1
    <3> DEFINE m == n + 1
    <3>1. /\ pc' = "write" /\ mem' = made(m) /\ op'.recs = Tail(op.recs)
          /\ AppliedAll(Empty, wal'.recs) = made(m) /\ made(m) \in May'
      BY <1>1, <1>5, <1>6, <1>7, <1>8, <1>9, <2>2
    <3>2. Tail(op.recs) # << >> /\ N - Len(Tail(op.recs)) = m /\ m \in Nat
      <4>1. n \in Nat /\ N \in Nat /\ Len(op.recs) \in Nat \ {0} /\ n = N - Len(op.recs)
        BY <1>2, <1>3, <1>4
      <4> DEFINE l == Len(op.recs)
                 tl == Tail(op.recs)
      <4>2. Len(tl) = l - 1 /\ l # 1 /\ tl \in Seq(Record)
        BY <1>4, <2>2
      <4> HIDE DEF n, N, tl
      <4>3. n \in Nat /\ N \in Nat /\ l \in Nat \ {0} /\ n = N - l
        BY <4>1
      <4> HIDE DEF l
      <4>4. N - Len(tl) = n + 1 /\ Len(tl) # 0
        BY <4>2, <4>3
      <4>5. tl # << >>
        BY <4>4
      <4>6. N - Len(tl) = m /\ m \in Nat
        BY <4>3, <4>4
      <4> HIDE DEF m
      <4> QED
        BY <4>5, <4>6 DEF tl
    <3>3. Tail(op.recs) = SubSeq(R, m + 1, N)
      BY <1>4
    <3> HIDE DEF m, n, r, a
    <3>4. pending' = pending /\ promised' = promised
      BY <1>1
    <3>5. LET j == Len(pending'.recs) - Len(op'.recs)
          IN  /\ op'.recs # << >> /\ j \in Nat
              /\ op'.recs = SubSeq(pending'.recs, j + 1, Len(pending'.recs))
              /\ mem' = AppliedAll(promised'.log, SubSeq(pending'.recs, 1, j))
              /\ \/ \A i \in 1 .. Len(pending'.recs) : pending'.recs[i].kind = "insert"
                 \/ Len(pending'.recs) = 1
              /\ Sound(pending'.recs)
      BY <1>2, <3>1, <3>2, <3>3, <3>4
    <3>6. mem' = AppliedAll(Empty, wal'.recs) /\ mem' \in May' /\ Sound(wal'.recs)
      BY <1>6, <1>7, <3>1
    <3>7. before' = {} /\ metaBefore' = {} /\ pc' = "write"
      BY <1>1, <1>2, <3>1
    <3> HIDE DEF made, R, N
    <3> QED
      BY <3>5, <3>6, <3>7 DEF CallFits, Serving, Opening
  <2>3. CASE r.kind # "insert"
    <3>1. N = 1
      BY <1>2, <1>4, <2>3
    <3>2. n = 0 /\ Len(op.recs) = 1
      BY <1>2, <1>3, <1>4, <3>1
    <3>3. op.recs = R
      <4>1. SubSeq(R, 1, N) = R
        BY <1>3
      <4> QED
        BY <1>2, <3>2, <4>1
    <3>4. mem = promised.log
      <4>1. SubSeq(R, 1, 0) = << >>
        BY <1>3
      <4> QED
        BY <1>2, <3>2, <4>1, AppliedNone
    <3>5. made(n + 1) = AppliedAll(promised.log, R)
      <4>1. SubSeq(R, 1, 1) = R
        BY <1>3, <3>1
      <4>2. n + 1 = 1
        BY <3>2
      <4> HIDE DEF n
      <4> QED
        BY <4>1, <4>2
    <3>6. /\ pc' = "sync" /\ mem' = mem /\ op' = op
          /\ AppliedAll(Empty, wal'.recs) = made(n + 1)
      BY <1>1, <1>6, <1>7, <1>9, <2>3, <3>2
    <3> HIDE DEF a, n, r, N, made
    <3> QED
      BY <1>1, <1>2, <1>6, <1>7, <3>3, <3>4, <3>5, <3>6 DEF CallFits, Serving, Opening
  <2> QED
    BY <2>1, <2>2, <2>3
<1>13. VotesFit'
  <2> HIDE DEF a, n, r, N, R
  <2> QED
    BY <1>1 DEF RaftInv, VotesFit, Possible, MetaImages, Opening
<1>14. CommittedKept'
  <2>1. MetaImages' = MetaImages /\ committed' = committed /\ frontier' = frontier
    BY <1>1 DEF MetaImages
  <2>2. frontier \in Ids /\ frontier.index >= frontier.index
    BY DEF RaftInv, Typed, RaftLogTypeOK, Ids, LogId, None, Indices
  <2>3. \A m \in MetaImages' : m.committed \in {committed, None} \union {i.committed : i \in MetaImages}
    BY <2>1
  <2> HIDE DEF a, n, r, N, R
  <2> QED
    BY <1>8, <2>1, <2>2, <2>3, KeptStill
<1> QED
  BY <1>10, <1>11, <1>12, <1>13, <1>14 DEF RaftInv

\* A kill, a power failure or a failure is counted.
LEMMA Counted ==
    ASSUME NEW a \in Nat, NEW b \in Nat, NEW c \in Nat,
           NEW u \in [kills : 0 .. a, power : 0 .. b, faults : 0 .. c]
    PROVE  /\ u.kills < a =>
                  [u EXCEPT !.kills = @ + 1] \in [kills : 0 .. a, power : 0 .. b, faults : 0 .. c]
           /\ u.power < b =>
                  [u EXCEPT !.power = @ + 1] \in [kills : 0 .. a, power : 0 .. b, faults : 0 .. c]
           /\ u.faults < c =>
                  [u EXCEPT !.faults = @ + 1] \in [kills : 0 .. a, power : 0 .. b, faults : 0 .. c]
<1>1. u.kills < a => u.kills + 1 \in 0 .. a
  OBVIOUS
<1>2. u.power < b => u.power + 1 \in 0 .. b
  OBVIOUS
<1>3. u.faults < c => u.faults + 1 \in 0 .. c
  OBVIOUS
<1> QED
  BY <1>1, <1>2, <1>3

\* The index of the frontier is a number.
LEMMA FrontierTyped ==
    ASSUME RaftInv
    PROVE  /\ frontier \in Ids /\ frontier.index >= frontier.index
           /\ vote \in 0 .. MaxTerm /\ wal.recs \in Seq(Record) /\ Len(wal.recs) \in Nat
           /\ sure \in 0 .. Len(wal.recs)
<1>1. wal.recs \in Seq(Record)
  BY DEF RaftInv, Typed, File
<1>2. frontier \in Ids /\ vote \in 0 .. MaxTerm /\ sure \in 0 .. Len(wal.recs)
  BY DEF RaftInv, Typed, RaftLogTypeOK, Ids
<1>3. frontier.index \in Int
  BY <1>2 DEF Ids, LogId, None, Indices
<1> QED
  BY <1>1, <1>2, <1>3

\* The records are synced, and the call is answered unless a purge compacts.
LEMMA SyncKeeps ==
    ASSUME BoundsAssumption, RaftInv, SyncWal
    PROVE  RaftInv'
<1> DEFINE c == AppliedAll(promised.log, pending.recs)
<1>1. /\ pc = "sync" /\ sure' = Len(wal.recs) /\ mem' = AppliedAll(mem, op.recs) /\ op' = Nothing
      /\ UNCHANGED <<wal, before, meta, metaBefore, vote, committed, written, raftLogUsed>>
      /\ \/ pc' = "compact" /\ UNCHANGED history
         \/ pc' = "idle" /\ Answered(mem', vote)
  BY DEF SyncWal
<1>2. /\ before = {} /\ metaBefore = {} /\ Sound(wal.recs)
      /\ AppliedAll(Empty, wal.recs) = c /\ mem' = c
  BY <1>1 DEF RaftInv, CallFits, Serving
<1>3. /\ frontier \in Ids /\ frontier.index >= frontier.index
      /\ vote \in 0 .. MaxTerm /\ wal.recs \in Seq(Record) /\ Len(wal.recs) \in Nat
  BY FrontierTyped
<1>4. c \in May
  <2>1. pending.recs \in Seq(Record)
    BY DEF RaftInv, Typed
  <2> QED
    BY <2>1, OutcomesAre DEF May
<1> HIDE DEF c
<1>5. op'.recs = << >> /\ op'.recs \in Seq(Record) /\ op' = [recs |-> op'.recs, vote |-> op'.vote]
  BY <1>1 DEF Nothing
<1>6. MetaImages' = MetaImages
  BY <1>1 DEF MetaImages
<1>7. CASE pc' = "compact" /\ UNCHANGED history
  <2>1. UNCHANGED <<promised, pending, frontier>>
    BY <1>7 DEF history
  <2>2. May' = May
    BY <2>1, MayStays
  <2>3. Typed'
    BY <1>1, <1>3, <1>5, <1>7, <2>1 DEF RaftInv, Typed, RaftLogTypeOK
  <2>4. FilesHave'
    <3>1. Finds(wal.recs, Len(wal.recs), May)
      BY <1>2, <1>3, <1>4, SureFinds
    <3> QED
      BY <1>1, <2>2, <3>1 DEF RaftInv, FilesHave
  <2>5. CallFits'
    BY <1>1, <1>2, <1>4, <1>7, <2>2 DEF CallFits, Serving, Opening
  <2>6. VotesFit'
    BY <1>1, <1>6, <1>7, <2>1 DEF RaftInv, VotesFit, Possible, Opening
  <2>7. CommittedKept'
    BY <1>1, <1>3, <1>6, <2>1, <2>2, KeptStill
  <2> QED
    BY <2>3, <2>4, <2>5, <2>6, <2>7 DEF RaftInv
<1>8. CASE pc' = "idle" /\ Answered(mem', vote)
  <2>0. Answered(c, vote)
    BY <1>2, <1>8
  <2>1. /\ May' = {c} /\ LogOK(c)
        /\ frontier' \in Ids /\ frontier'.index >= frontier.index
        /\ promised'.vote = vote /\ pending' = Nothing
        /\ pending'.recs = << >> /\ pending'.vote = 0 /\ pending'.recs \in Seq(Record)
    BY <1>3, <1>4, <2>0, AnswerSettles
  <2>3. Typed'
    BY <1>1, <1>3, <1>5, <1>8, <2>1 DEF RaftInv, Typed, RaftLogTypeOK, Ids, Nothing
  <2>4. FilesHave'
    <3>1. Finds(wal.recs, Len(wal.recs), {c})
      BY <1>2, <1>3, SureFinds
    <3>2. Readable(wal.recs)
      BY DEF RaftInv, FilesHave
    <3> QED
      BY <1>1, <1>2, <2>1, <3>1, <3>2 DEF FilesHave
  <2>5. CallFits'
    BY <1>1, <1>2, <1>8, <2>1 DEF CallFits, Serving, Opening
  <2>6. VotesFit'
    <3>1. meta.vote = vote /\ MetaImages = {meta} /\ vote \in Int
      BY <1>1, <1>2, <1>3 DEF RaftInv, VotesFit, MetaImages
    <3> QED
      BY <1>1, <1>6, <1>8, <2>1, <3>1 DEF VotesFit, Possible, Opening
  <2>7. CommittedKept'
    BY <1>1, <1>4, <1>6, <2>1, KeptStill
  <2> QED
    BY <2>3, <2>4, <2>5, <2>6, <2>7 DEF RaftInv
<1> QED
  BY <1>1, <1>7, <1>8

\* A file is replaced by the image of the memory.
LEMMA ImageKeeps ==
    ASSUME BoundsAssumption, RaftInv,
           pc \in {"compact", "openCompact", "openMigrate"},
           wal' = [v2 |-> TRUE, recs |-> Compacted(mem)],
           sure' = Len(wal'.recs),
           before' = before \union {wal},
           pc' \in {"compactSync", "openCompactSync", "openSync"},
           pc = "compact" <=> pc' = "compactSync",
           UNCHANGED <<meta, metaBefore, inner, op, history, raftLogUsed>>
    PROVE  RaftInv'
<1>1. UNCHANGED <<meta, metaBefore, mem, vote, committed, written, op, promised, pending,
                  frontier, raftLogUsed>>
  BY DEF inner, history
<1>2. mem = AppliedAll(Empty, wal.recs) /\ mem \in May
  BY DEF RaftInv, CallFits, Serving, Opening
<1>3. LogOK(mem)
  BY <1>2 DEF RaftInv, FilesHave
<1> DEFINE recs == Compacted(mem)
<1>4. recs \in Seq(Record) /\ Sound(recs) /\ AppliedAll(Empty, recs) = mem
  BY <1>3, ImageIs, ImageReplays
<1> HIDE DEF recs
<1>5. wal'.recs = recs /\ wal' \in File /\ Len(recs) \in Nat /\ Readable(recs)
  BY <1>4 DEF File, recs, Readable, Sound
<1>6. May' = May
  BY <1>1, MayStays
<1>7. MetaImages' = MetaImages
  BY <1>1 DEF MetaImages
<1>8. Typed'
  <2>1. wal'.v2 \in BOOLEAN /\ sure' \in 0 .. Len(wal'.recs)
    BY <1>5 DEF File
  <2>2. before' \subseteq File
    BY DEF RaftInv, Typed
  <2>3. RaftLogTypeOK'
    BY <1>1, <2>1 DEF RaftInv, Typed, RaftLogTypeOK
  <2> QED
    BY <1>1, <1>5, <2>2, <2>3 DEF RaftInv, Typed
<1>9. FilesHave'
  <2>1. Finds(recs, Len(recs), May)
    BY <1>2, <1>4, SureFinds
  <2>2. Readable(wal.recs) /\ AppliedAll(Empty, wal.recs) \in May
    BY <1>2 DEF RaftInv, FilesHave
  <2> QED
    BY <1>5, <1>6, <2>1, <2>2 DEF RaftInv, FilesHave
<1>10. CallFits'
  BY <1>1, <1>2, <1>4, <1>5, <1>6 DEF CallFits, Serving, Opening
<1>11. VotesFit'
  BY <1>1, <1>7 DEF RaftInv, VotesFit, Possible, Opening
<1>12. CommittedKept'
  BY <1>1, <1>6, <1>7, FrontierTyped, KeptStill
<1> QED
  BY <1>8, <1>9, <1>10, <1>11, <1>12 DEF RaftInv

\* The answer that follows a sync of the directory.
LEMMA SyncedAnswers ==
    ASSUME BoundsAssumption, RaftInv, DirSynced, pc' = "idle",
           NEW c, c = mem, c \in May, Answered(c, vote), meta.vote = vote,
           wal' \in File, wal'.recs \in Seq(Record), Sound(wal'.recs),
           AppliedAll(Empty, wal'.recs) = c, sure' = Len(wal'.recs),
           UNCHANGED <<meta, inner, op, raftLogUsed>>
    PROVE  RaftInv'
<1>1. UNCHANGED <<meta, mem, vote, committed, written, op, raftLogUsed>>
      /\ before' = {} /\ metaBefore' = {}
  BY DEF inner, DirSynced
<1>2. vote \in 0 .. MaxTerm /\ vote \in Int
  BY FrontierTyped
<1>3. /\ May' = {c} /\ LogOK(c)
      /\ frontier' \in Ids /\ frontier'.index >= frontier.index
      /\ promised'.vote = vote /\ pending' = Nothing
      /\ pending'.recs = << >> /\ pending'.vote = 0 /\ pending'.recs \in Seq(Record)
  BY <1>2, AnswerSettles
<1>4. MetaImages' = {meta} /\ meta \in MetaImages
  BY <1>1 DEF MetaImages
<1>5. Typed'
  <2>1. Len(wal'.recs) \in Nat
    OBVIOUS
  <2> QED
    BY <1>1, <1>2, <1>3, <2>1 DEF RaftInv, Typed, RaftLogTypeOK, File, Ids, Nothing
<1>6. FilesHave'
  <2>1. Finds(wal'.recs, Len(wal'.recs), {c})
    BY SureFinds
  <2>2. Readable(wal'.recs)
    BY DEF Readable, Sound
  <2> QED
    BY <1>1, <1>3, <2>1, <2>2 DEF FilesHave
<1>7. CallFits'
  BY <1>1, <1>3 DEF CallFits, Serving, Opening
<1>8. VotesFit'
  BY <1>1, <1>2, <1>3, <1>4 DEF VotesFit, Possible, Opening
<1>9. CommittedKept'
  BY <1>1, <1>3, <1>4, KeptStill
<1> QED
  BY <1>5, <1>6, <1>7, <1>8, <1>9 DEF RaftInv

\* The image is renamed into place, and the rename is synced.
LEMMA RewritesKeep ==
    ASSUME BoundsAssumption, RaftInv, Rewrite \/ OpenMigrates \/ RewriteSynced \/ OpenSynced
    PROVE  RaftInv'
<1>1. CASE Rewrite
  <2>1. /\ pc \in {"compact", "openCompact"}
        /\ pc' = IF pc = "compact" THEN "compactSync" ELSE "openCompactSync"
    BY <1>1 DEF Rewrite
  <2> QED
    BY <1>1, <2>1, ImageKeeps DEF Rewrite
<1>2. CASE OpenMigrates
  BY <1>2, ImageKeeps DEF OpenMigrates
<1>3. ASSUME pc \in {"compactSync", "openCompactSync", "openSync"}, DirSynced, pc' = "idle",
             Answered(mem, vote), UNCHANGED <<wal, sure, meta, inner, op, raftLogUsed>>
      PROVE  RaftInv'
  <2>1. /\ mem \in May /\ mem = AppliedAll(Empty, wal.recs) /\ Sound(wal.recs)
        /\ sure = Len(wal.recs) /\ meta.vote = vote
    BY <1>3 DEF RaftInv, CallFits, VotesFit, Serving, Opening
  <2>2. wal' = wal /\ sure' = sure /\ wal \in File /\ wal.recs \in Seq(Record)
    BY <1>3, FrontierTyped DEF RaftInv, Typed
  <2>3. UNCHANGED <<meta, inner, op, raftLogUsed>>
    BY <1>3
  <2> QED
    BY <1>3, <2>1, <2>2, <2>3, SyncedAnswers
<1>4. CASE RewriteSynced
  BY <1>3, <1>4 DEF RewriteSynced
<1>5. CASE OpenSynced
  BY <1>3, <1>5 DEF OpenSynced, OpenDone
<1> QED
  BY <1>1, <1>2, <1>4, <1>5

\* The replay, once the check accepts it.
LEMMA OpenReadsKeeps ==
    ASSUME BoundsAssumption, RaftInv, OpenReads
    PROVE  RaftInv'
<1>1. /\ pc = "down" /\ op' = Nothing
      /\ UNCHANGED <<wal, sure, before, meta, metaBefore, promised, pending, frontier, raftLogUsed>>
      /\ \/ /\ mem' = AppliedAll(Empty, wal.recs)
            /\ vote' = meta.vote /\ committed' = meta.committed /\ written' = meta.committed
            /\ pc' \in {"openCut", "openMigrate"}
         \/ pc' = "refused" /\ UNCHANGED <<mem, vote, committed, written>>
  BY DEF OpenReads, files, inner, history, Replay
<1>2. May' = May
  BY <1>1, MayStays
<1>3. MetaImages' = MetaImages /\ meta \in MetaImages
  BY <1>1 DEF MetaImages
<1>4. AppliedAll(Empty, wal.recs) \in May
  <2>1. Finds(wal.recs, sure, May)
    BY DEF RaftInv, FilesHave
  <2> QED
    BY <2>1, FrontierTyped, FindsAll
<1>5. /\ op'.recs = << >> /\ op'.recs \in Seq(Record) /\ op' = [recs |-> op'.recs, vote |-> op'.vote]
      /\ meta.vote \in 0 .. MaxTerm /\ meta.committed \in Ids
  BY <1>1 DEF Nothing, RaftInv, Typed, Meta
<1>6. Typed'
  BY <1>1, <1>5 DEF RaftInv, Typed, RaftLogTypeOK, Ids
<1>7. FilesHave'
  BY <1>1, <1>2 DEF RaftInv, FilesHave
<1>8. CallFits'
  BY <1>1, <1>2, <1>4 DEF CallFits, Serving, Opening
<1>9. VotesFit'
  BY <1>1, <1>3 DEF RaftInv, VotesFit, Possible, Opening
<1>10. CommittedKept'
  <2>1. committed' \in {committed, None} \union {m.committed : m \in MetaImages}
    BY <1>1, <1>3
  <2> QED
    BY <1>1, <1>2, <1>3, <2>1, FrontierTyped, KeptStill
<1> QED
  BY <1>6, <1>7, <1>8, <1>9, <1>10 DEF RaftInv

\* The file is cut behind its last whole record.
LEMMA OpenCutsKeeps ==
    ASSUME BoundsAssumption, RaftInv, OpenCuts
    PROVE  RaftInv'
<1> DEFINE recs == Whole(wal.recs)
<1>1. /\ pc = "openCut" /\ wal' = [wal EXCEPT !.recs = Whole(@)] /\ sure' = Len(wal'.recs)
      /\ DirSynced /\ UNCHANGED <<meta, inner, op, raftLogUsed>>
      /\ \/ pc' = "openCompact" /\ UNCHANGED history
         \/ pc' = "idle" /\ Answered(mem, vote)
  BY DEF OpenCuts, OpenDone
<1>2. mem = AppliedAll(Empty, wal.recs) /\ mem \in May /\ meta.vote = vote
  BY <1>1 DEF RaftInv, CallFits, VotesFit, Serving, Opening
<1>3. recs \in Seq(Record) /\ Sound(recs) /\ AppliedAll(Empty, recs) = mem
  <2>1. Readable(wal.recs)
    BY DEF RaftInv, FilesHave
  <2> QED
    BY <1>2, <2>1, FrontierTyped, WholeFits
<1>4. wal'.recs = recs /\ wal' \in File /\ Len(recs) \in Nat /\ Readable(recs)
  <2>1. wal = [v2 |-> wal.v2, recs |-> wal.recs] /\ wal.v2 \in BOOLEAN
    BY DEF RaftInv, Typed, File
  <2> HIDE DEF recs
  <2>2. wal' = [v2 |-> wal.v2, recs |-> recs]
    BY <1>1, <2>1 DEF recs
  <2>3. Len(recs) \in Nat /\ Readable(recs)
    BY <1>3 DEF Readable, Sound
  <2> QED
    BY <1>3, <2>1, <2>2, <2>3 DEF File
<1> HIDE DEF recs
<1>5. CASE pc' = "openCompact" /\ UNCHANGED history
  <2>1. /\ UNCHANGED <<meta, mem, vote, committed, written, op, promised, pending, frontier, raftLogUsed>>
        /\ before' = {} /\ metaBefore' = {} /\ sure' = Len(recs)
    BY <1>1, <1>4, <1>5 DEF inner, history, DirSynced
  <2>2. May' = May
    BY <2>1, MayStays
  <2>3. MetaImages' = {meta} /\ meta \in MetaImages
    BY <2>1 DEF MetaImages
  <2>4. Typed'
    BY <1>4, <1>5, <2>1 DEF RaftInv, Typed, RaftLogTypeOK, File
  <2>5. FilesHave'
    <3>1. Finds(recs, Len(recs), May)
      BY <1>2, <1>3, SureFinds
    <3> QED
      BY <1>4, <2>1, <2>2, <3>1 DEF RaftInv, FilesHave
  <2>6. CallFits'
    BY <1>2, <1>3, <1>4, <1>5, <2>1, <2>2 DEF CallFits, Serving, Opening
  <2>7. VotesFit'
    BY <1>1, <1>2, <1>5, <2>1, <2>3 DEF RaftInv, VotesFit, Possible, Opening
  <2>8. CommittedKept'
    BY <2>1, <2>2, <2>3, FrontierTyped, KeptStill
  <2> QED
    BY <2>4, <2>5, <2>6, <2>7, <2>8 DEF RaftInv
<1>6. CASE pc' = "idle" /\ Answered(mem, vote)
  <2>1. AppliedAll(Empty, wal'.recs) = mem /\ Sound(wal'.recs) /\ wal'.recs \in Seq(Record)
    BY <1>3, <1>4
  <2> QED
    BY <1>1, <1>2, <1>4, <1>6, <2>1, SyncedAnswers
<1> QED
  BY <1>1, <1>5, <1>6

\* The steps that leave the log and its file alone keep what is said of them.
LEMMA LogLeft ==
    ASSUME BoundsAssumption, RaftInv, UNCHANGED <<wal, sure, before, mem, op, promised>>,
           pending'.recs = pending.recs
    PROVE  May' = May /\ FilesHave'
<1>1. May' = May
  BY DEF May
<1> QED
  BY <1>1 DEF RaftInv, FilesHave

\* A vote is to be saved.
LEMMA SaveVoteKeeps ==
    ASSUME BoundsAssumption, RaftInv, NEW v \in Terms, SaveVote(v)
    PROVE  RaftInv'
<1>1. /\ pc = "idle" /\ pc' = "meta" /\ v > vote /\ vote' = v
      /\ pending' = [Nothing EXCEPT !.vote = v]
      /\ UNCHANGED <<wal, sure, before, meta, metaBefore, mem, committed, written, op,
                     promised, frontier, raftLogUsed>>
  BY DEF SaveVote, files
<1>2. pending' = [recs |-> << >>, vote |-> v] /\ pending'.recs = << >> /\ pending'.vote = v
  BY <1>1 DEF Nothing
<1>3. pending.recs = << >> /\ mem = AppliedAll(Empty, wal.recs) /\ mem \in May /\ Sound(wal.recs)
  BY <1>1 DEF RaftInv, CallFits, Serving
<1>4. May' = May /\ FilesHave'
  BY <1>1, <1>2, <1>3, LogLeft
<1>5. MetaImages' = MetaImages
  BY <1>1 DEF MetaImages
<1>6. v \in 0 .. MaxTerm /\ vote \in 0 .. MaxTerm /\ v \in Int /\ vote \in Int
  BY FrontierTyped DEF Terms, BoundsAssumption
<1>7. vote = promised.vote /\ pending.vote = 0 /\ \A m \in MetaImages : m.vote = vote
  <2>1. vote = promised.vote /\ pending.vote = 0 /\ meta.vote = vote
    BY <1>1 DEF RaftInv, VotesFit
  <2>2. metaBefore = {}
    BY <1>1 DEF RaftInv, CallFits
  <2> QED
    BY <2>1, <2>2 DEF MetaImages
<1>8. Typed'
  <2>1. /\ pending' = [recs |-> pending'.recs, vote |-> pending'.vote]
        /\ pending'.recs \in Seq(Record) /\ pending'.vote \in 0 .. MaxTerm
    BY <1>2, <1>6
  <2>2. vote' \in 0 .. MaxTerm /\ pc' = "meta"
    BY <1>1, <1>6
  <2> QED
    BY <1>1, <2>1, <2>2 DEF RaftInv, Typed, RaftLogTypeOK
<1>9. CallFits'
  BY <1>1, <1>2, <1>3, <1>4 DEF CallFits, Serving, Opening
<1>10. VotesFit'
  BY <1>1, <1>2, <1>5, <1>6, <1>7 DEF VotesFit, Possible, Opening
<1>11. CommittedKept'
  BY <1>1, <1>4, <1>5, FrontierTyped, KeptStill
<1> QED
  BY <1>4, <1>8, <1>9, <1>10, <1>11 DEF RaftInv

\* The commit index moves on.
LEMMA SaveCommittedKeeps ==
    ASSUME BoundsAssumption, RaftInv, NEW i \in Indices, SaveCommitted(i)
    PROVE  RaftInv'
<1> DEFINE id == [index |-> i, term |-> mem.entries[i]]
<1>1. /\ pc = "idle" /\ i \in DOMAIN mem.entries /\ i >= frontier.index
      /\ committed' = id /\ frontier' = id /\ pc' \in {"meta", "idle"}
      /\ UNCHANGED <<wal, sure, before, meta, metaBefore, mem, vote, written, op,
                     promised, pending, raftLogUsed>>
  BY DEF SaveCommitted, files
<1>2. /\ pending.recs = << >> /\ mem = AppliedAll(Empty, wal.recs) /\ mem \in May
      /\ Sound(wal.recs) /\ before = {} /\ metaBefore = {}
  BY <1>1 DEF RaftInv, CallFits, Serving
<1>3. May' = May /\ FilesHave'
  BY <1>1, LogLeft
<1>4. MetaImages' = MetaImages
  BY <1>1 DEF MetaImages
<1>5. LogOK(mem) /\ May = {mem}
  <2>1. LogOK(mem)
    BY <1>2 DEF RaftInv, FilesHave
  <2>2. << >> \in Seq(Record)
    OBVIOUS
  <2>3. May = {promised.log}
    BY <1>2, <2>2, OutcomesAre DEF May
  <2> QED
    BY <1>2, <2>1, <2>3
<1>6. id \in LogId
  <2>1. mem.entries \in [mem.purged.index + 1 .. LastIndex(mem) -> Terms]
    BY <1>5, LastOf
  <2>2. mem.entries[i] \in Terms
    BY <1>1, <2>1
  <2> QED
    BY <2>2 DEF LogId
<1>7. Holds(mem, id)
  BY <1>1 DEF Holds
<1>8. id.index = i /\ i \in Int /\ frontier.index \in Int /\ frontier \in Ids
  BY DEF Indices, RaftInv, Typed, RaftLogTypeOK, Ids, LogId, None
<1> HIDE DEF id
<1>9. Typed'
  BY <1>1, <1>6 DEF RaftInv, Typed, RaftLogTypeOK, Ids
<1>10. CallFits'
  BY <1>1, <1>2, <1>3 DEF CallFits, Serving, Opening
<1>11. VotesFit'
  BY <1>1, <1>4 DEF RaftInv, VotesFit, Possible, Opening
<1>12. CommittedKept'
  <2>1. ASSUME NEW x \in {committed'} \union {m.committed : m \in MetaImages'}
        PROVE  x.index <= frontier'.index /\ \A c \in May' : Holds(c, x)
    <3>1. CASE x = id
      BY <1>1, <1>3, <1>5, <1>7, <1>8, <3>1
    <3>2. CASE x \in {m.committed : m \in MetaImages}
      <4>1. x.index <= frontier.index /\ \A c \in May : Holds(c, x)
        BY <3>2 DEF RaftInv, CommittedKept
      <4>2. x \in Ids /\ x.index \in Int
        BY <3>2 DEF RaftInv, Typed, Ids, LogId, None, Indices, MetaImages, Meta
      <4> QED
        BY <1>1, <1>3, <1>8, <4>1, <4>2
    <3> QED
      BY <1>1, <1>4, <3>1, <3>2
  <2> QED
    BY <2>1 DEF CommittedKept
<1> QED
  BY <1>3, <1>9, <1>10, <1>11, <1>12 DEF RaftInv

\* meta.bin is replaced.
LEMMA WriteMetaKeeps ==
    ASSUME BoundsAssumption, RaftInv, WriteMeta
    PROVE  RaftInv'
<1>1. /\ pc \in {"meta", "drop"}
      /\ meta' = [vote |-> vote, committed |-> committed]
      /\ metaBefore' = metaBefore \union {meta}
      /\ pc' = IF pc = "meta" THEN "metaSync" ELSE "dropSync"
      /\ UNCHANGED <<wal, sure, before, mem, vote, committed, written, op,
                     promised, pending, frontier, raftLogUsed>>
  BY DEF WriteMeta, inner, history
<1>2. May' = May /\ FilesHave'
  BY <1>1, LogLeft
<1>3. MetaImages' = MetaImages \union {meta'} /\ meta'.vote = vote /\ meta'.committed = committed
  BY <1>1 DEF MetaImages
<1>4. meta' \in Meta
  BY <1>1 DEF RaftInv, Typed, RaftLogTypeOK, Meta, Ids
<1>5. Typed'
  BY <1>1, <1>4 DEF RaftInv, Typed, RaftLogTypeOK, Meta, Ids
<1>6. CallFits'
  BY <1>1, <1>2 DEF RaftInv, CallFits, Serving, Opening
<1>7. VotesFit'
  <2>1. Possible(vote)
    BY <1>1 DEF RaftInv, VotesFit
  <2>2. \A m \in MetaImages' : Possible(m.vote)
    BY <1>3, <2>1 DEF RaftInv, VotesFit
  <2> QED
    BY <1>1, <1>3, <2>1, <2>2 DEF VotesFit, Possible, Opening
<1>8. CommittedKept'
  BY <1>1, <1>2, <1>3, FrontierTyped, KeptStill
<1> QED
  BY <1>2, <1>5, <1>6, <1>7, <1>8 DEF RaftInv

\* The rename of meta.bin is synced, and the call that asked for it answered.
LEMMA MetaSyncedKeeps ==
    ASSUME BoundsAssumption, RaftInv, MetaSynced
    PROVE  RaftInv'
<1>1. /\ before' = {} /\ metaBefore' = {} /\ written' = committed
      /\ UNCHANGED <<wal, sure, meta, mem, vote, committed, op, raftLogUsed>>
      /\ \/ pc = "metaSync" /\ pc' = "idle" /\ Answered(promised.log, vote)
         \/ pc = "dropSync" /\ pc' = "down" /\ UNCHANGED <<promised, pending, frontier>>
  BY DEF MetaSynced, DirSynced, history
<1>2. MetaImages' = {meta} /\ meta \in MetaImages /\ meta.vote = vote
  BY <1>1 DEF MetaImages, RaftInv, VotesFit
<1>3. vote \in 0 .. MaxTerm /\ vote \in Int /\ committed \in Ids
  BY FrontierTyped DEF RaftInv, Typed, RaftLogTypeOK, Ids
<1>4. CASE pc = "metaSync" /\ pc' = "idle" /\ Answered(promised.log, vote)
  <2> DEFINE c == promised.log
  <2>1. /\ pending.recs = << >> /\ mem = AppliedAll(Empty, wal.recs) /\ mem \in May
        /\ Sound(wal.recs)
    BY <1>4 DEF RaftInv, CallFits, Serving
  <2>2. May = {c}
    <3>1. << >> \in Seq(Record)
      OBVIOUS
    <3> QED
      BY <2>1, <3>1, OutcomesAre DEF May
  <2>3. c \in May /\ Answered(c, vote)
    BY <1>4, <2>2
  <2> HIDE DEF c
  <2>4. /\ May' = {c} /\ LogOK(c)
        /\ frontier' \in Ids /\ frontier'.index >= frontier.index
        /\ promised'.vote = vote /\ pending' = Nothing
        /\ pending'.recs = << >> /\ pending'.vote = 0 /\ pending'.recs \in Seq(Record)
    BY <1>3, <2>3, AnswerSettles
  <2>5. Typed'
    BY <1>1, <1>3, <1>4, <2>4 DEF RaftInv, Typed, RaftLogTypeOK, Ids, Nothing
  <2>6. FilesHave'
    BY <1>1, <2>2, <2>4 DEF RaftInv, FilesHave
  <2>7. CallFits'
    BY <1>1, <1>4, <2>1, <2>2, <2>4 DEF CallFits, Serving, Opening
  <2>8. VotesFit'
    BY <1>1, <1>2, <1>3, <1>4, <2>4 DEF VotesFit, Possible, Opening
  <2>9. CommittedKept'
    BY <1>1, <1>2, <2>2, <2>4, KeptStill
  <2> QED
    BY <2>5, <2>6, <2>7, <2>8, <2>9 DEF RaftInv
<1>5. CASE pc = "dropSync" /\ pc' = "down" /\ UNCHANGED <<promised, pending, frontier>>
  <2>1. May' = May
    BY <1>5, MayStays
  <2>2. Typed'
    BY <1>1, <1>3, <1>5 DEF RaftInv, Typed, RaftLogTypeOK, Ids
  <2>3. FilesHave'
    BY <1>1, <2>1 DEF RaftInv, FilesHave
  <2>4. CallFits'
    BY <1>5 DEF CallFits, Serving, Opening
  <2>5. VotesFit'
    BY <1>1, <1>2, <1>5 DEF RaftInv, VotesFit, Possible, Opening
  <2>6. CommittedKept'
    BY <1>1, <1>2, <1>5, <2>1, FrontierTyped, KeptStill
  <2> QED
    BY <2>2, <2>3, <2>4, <2>5, <2>6 DEF RaftInv
<1> QED
  BY <1>1, <1>4, <1>5

\* Half a record at the end of the file changes nothing that may be found.
LEMMA TornKeeps ==
    ASSUME BoundsAssumption, RaftInv,
           \/ UNCHANGED wal
           \/ pc = "write" /\ wal' = [wal EXCEPT !.recs = Append(@, Torn)],
           UNCHANGED <<sure, before, promised, pending>>
    PROVE  /\ May' = May /\ FilesHave' /\ wal' \in File /\ sure' \in 0 .. Len(wal'.recs)
           /\ pc # "write" => UNCHANGED wal
<1>1. May' = May
  BY MayStays
<1>2. CASE UNCHANGED wal
  BY <1>1, <1>2 DEF RaftInv, FilesHave, Typed, RaftLogTypeOK
<1>3. CASE pc = "write" /\ wal' = [wal EXCEPT !.recs = Append(@, Torn)]
  <2> DEFINE w == wal.recs
             a == Append(w, Torn)
  <2>1. Sound(w) /\ AppliedAll(Empty, w) \in May
    BY <1>3 DEF RaftInv, CallFits, Serving
  <2>2. /\ w \in Seq(Record) /\ sure \in 0 .. Len(w)
        /\ Finds(w, sure, May)
    BY FrontierTyped DEF RaftInv, FilesHave
  <2>3. Torn \in Record /\ Applied(AppliedAll(Empty, w), Torn) = AppliedAll(Empty, w)
    BY DEF Torn, Record, Ids, Applied
  <2> HIDE DEF w, a
  <2>4. Applied(AppliedAll(Empty, w), Torn) \in May
    BY <2>1, <2>3
  <2>5. a \in Seq(Record) /\ sure \in 0 .. Len(a) /\ Readable(a) /\ Finds(a, sure, May)
    BY <2>1, <2>2, <2>3, <2>4, WriteFinds DEF a
  <2>6. wal = [v2 |-> wal.v2, recs |-> wal.recs] /\ wal.v2 \in BOOLEAN
    BY DEF RaftInv, Typed, File
  <2>7. wal' = [v2 |-> wal.v2, recs |-> a]
    BY <1>3, <2>6 DEF a, w
  <2>8. wal'.recs = a /\ wal' \in File
    BY <2>5, <2>6, <2>7 DEF File
  <2> QED
    BY <1>1, <1>3, <2>5, <2>8 DEF RaftInv, FilesHave
<1> QED
  BY <1>2, <1>3

\* A call fails, the process is stopped, or it is killed.
LEMMA EndsKeep ==
    ASSUME BoundsAssumption, RaftLogAssumption, RaftInv, Fails \/ Shutdown \/ RaftLogKill
    PROVE  RaftInv'
<1>0. raftLogUsed \in [kills : 0 .. MaxKills, power : 0 .. MaxPower, faults : 0 .. MaxLogFaults]
      /\ MaxKills \in Nat /\ MaxPower \in Nat /\ MaxLogFaults \in Nat
  BY DEF RaftInv, Typed, RaftLogTypeOK, RaftLogAssumption
<1> DEFINE Same == UNCHANGED <<sure, before, meta, metaBefore, promised, pending, frontier>>
           TornOrNot == \/ UNCHANGED wal
                        \/ pc = "write" /\ wal' = [wal EXCEPT !.recs = Append(@, Torn)]
           Used == raftLogUsed' \in
                       [kills : 0 .. MaxKills, power : 0 .. MaxPower, faults : 0 .. MaxLogFaults]
<1>1. ASSUME Same, TornOrNot, Used, UNCHANGED <<inner, op>>, pc' \in {"down", "stopped"},
             pc' = "stopped" => pc \notin {"down", "refused"}
      PROVE  RaftInv'
  <2>1. UNCHANGED <<mem, vote, committed, written, op>>
    BY <1>1 DEF inner
  <2>2. /\ May' = May /\ FilesHave' /\ wal' \in File /\ sure' \in 0 .. Len(wal'.recs)
    BY <1>1, TornKeeps
  <2>3. MetaImages' = MetaImages
    BY <1>1 DEF MetaImages
  <2>4. Typed'
    BY <1>1, <2>1, <2>2 DEF RaftInv, Typed, RaftLogTypeOK, File
  <2>5. CallFits'
    BY <1>1 DEF CallFits, Serving, Opening
  <2>6. VotesFit'
    BY <1>1, <2>1, <2>3 DEF RaftInv, VotesFit, Possible, Opening
  <2>7. CommittedKept'
    BY <1>1, <2>1, <2>2, <2>3, FrontierTyped, KeptStill
  <2> QED
    BY <2>2, <2>4, <2>5, <2>6, <2>7 DEF RaftInv
<1>2. ASSUME Fails PROVE RaftInv'
  <2>1. /\ pc \notin {"down", "stopped", "refused", "idle"}
        /\ raftLogUsed.faults < MaxLogFaults
        /\ raftLogUsed' = [raftLogUsed EXCEPT !.faults = @ + 1]
        /\ TornOrNot /\ pc' \in {"down", "stopped"}
        /\ UNCHANGED <<sure, before, meta, metaBefore, inner, op, history>>
    BY <1>2 DEF Fails, Running, RaftLogSpends
  <2>2. Used
    BY <1>0, <2>1, Counted
  <2>3. Same
    BY <2>1 DEF history
  <2>4. UNCHANGED <<inner, op>>
    BY <2>1
  <2> HIDE DEF Same, TornOrNot, Used
  <2> QED
    BY <1>1, <2>1, <2>2, <2>3, <2>4
<1>3. ASSUME Shutdown PROVE RaftInv'
  <2>1. /\ pc \in {"idle", "stopped"} /\ pc' \in {"drop", "down"}
        /\ UNCHANGED <<files, inner, op, history, raftLogUsed>>
    BY <1>3 DEF Shutdown
  <2>2. UNCHANGED <<wal, sure, before, meta, metaBefore, mem, vote, committed, written, op,
                    promised, pending, frontier, raftLogUsed>>
    BY <2>1 DEF files, inner, history
  <2>3. May' = May /\ FilesHave'
    BY <2>2, LogLeft
  <2>4. MetaImages' = MetaImages
    BY <2>2 DEF MetaImages
  <2>5. Typed'
    BY <2>1, <2>2 DEF RaftInv, Typed, RaftLogTypeOK, File
  <2>6. CallFits'
    BY <2>1 DEF CallFits, Serving, Opening
  <2>7. VotesFit'
    BY <2>1, <2>2, <2>4 DEF RaftInv, VotesFit, Possible, Opening
  <2>8. CommittedKept'
    BY <2>2, <2>3, <2>4, FrontierTyped, KeptStill
  <2> QED
    BY <2>3, <2>5, <2>6, <2>7, <2>8 DEF RaftInv
<1>4. ASSUME RaftLogKill PROVE RaftInv'
  <2>1. /\ raftLogUsed.kills < MaxKills
        /\ raftLogUsed' = [raftLogUsed EXCEPT !.kills = @ + 1]
        /\ TornOrNot /\ pc' = "down" /\ Forgotten
        /\ UNCHANGED <<sure, before, meta, metaBefore, history>>
    BY <1>4 DEF RaftLogKill, RaftLogSpends
  <2>2. Used
    BY <1>0, <2>1, Counted
  <2>3. UNCHANGED <<sure, before, meta, metaBefore, promised, pending, frontier>>
    BY <2>1 DEF history
  <2>4. /\ May' = May /\ FilesHave' /\ wal' \in File /\ sure' \in 0 .. Len(wal'.recs)
    BY <2>1, <2>3, TornKeeps
  <2>5. MetaImages' = MetaImages
    BY <2>3 DEF MetaImages
  <2>6. /\ vote' = 0 /\ committed' = None /\ written' = None
        /\ op'.recs = << >> /\ op'.recs \in Seq(Record)
        /\ op' = [recs |-> op'.recs, vote |-> op'.vote] /\ 0 \in 0 .. MaxTerm
    BY <2>1 DEF Forgotten, Nothing, BoundsAssumption
  <2>7. Typed'
    <3>1. pc' = "down" /\ wal'.v2 \in BOOLEAN
      BY <2>1, <2>4 DEF File
    <3> QED
      BY <2>2, <2>3, <2>4, <2>6, <3>1 DEF RaftInv, Typed, RaftLogTypeOK, Ids
  <2>8. CallFits'
    BY <2>1 DEF CallFits, Serving, Opening
  <2>9. VotesFit'
    BY <2>1, <2>3, <2>5 DEF RaftInv, VotesFit, Possible, Opening
  <2>10. CommittedKept'
    BY <2>3, <2>4, <2>5, <2>6, FrontierTyped, KeptStill
  <2> QED
    BY <2>4, <2>7, <2>8, <2>9, <2>10 DEF RaftInv
<1> QED
  BY <1>2, <1>3, <1>4

\* Whatever a power failure leaves has an outcome of the call.
LEMMA ImagesFit ==
    ASSUME BoundsAssumption, OrderedWriteback, RaftInv, NEW image \in Images
    PROVE  /\ image \in File /\ Readable(image.recs)
           /\ image.recs \in Seq(Record) /\ AppliedAll(Empty, image.recs) \in May
<1>1. CASE image \in before
  BY <1>1 DEF RaftInv, FilesHave, Typed, File
<1>2. ASSUME NEW r \in CutShort(wal.recs, sure), image = [v2 |-> wal.v2, recs |-> r]
      PROVE  /\ image \in File /\ Readable(image.recs)
             /\ image.recs \in Seq(Record) /\ AppliedAll(Empty, image.recs) \in May
  <2>1. /\ wal.recs \in Seq(Record) /\ sure \in 0 .. Len(wal.recs)
        /\ Readable(wal.recs) /\ Finds(wal.recs, sure, May)
    BY FrontierTyped DEF RaftInv, FilesHave
  <2>2. r \in Seq(Record) /\ Readable(r) /\ AppliedAll(Empty, r) \in May
    BY <2>1, CutsFit
  <2>3. wal.v2 \in BOOLEAN
    BY DEF RaftInv, Typed, RaftLogTypeOK
  <2> QED
    BY <1>2, <2>2, <2>3 DEF File
<1> QED
  BY <1>1, <1>2 DEF Images

\* The power fails.
LEMMA PowerKeeps ==
    ASSUME BoundsAssumption, RaftLogAssumption, OrderedWriteback, RaftInv, PowerFails
    PROVE  RaftInv'
<1>0. raftLogUsed \in [kills : 0 .. MaxKills, power : 0 .. MaxPower, faults : 0 .. MaxLogFaults]
      /\ MaxKills \in Nat /\ MaxPower \in Nat /\ MaxLogFaults \in Nat
  BY DEF RaftInv, Typed, RaftLogTypeOK, RaftLogAssumption
<1>1. /\ raftLogUsed.power < MaxPower
      /\ raftLogUsed' = [raftLogUsed EXCEPT !.power = @ + 1]
      /\ wal' \in Images /\ meta' \in MetaImages /\ sure' = Len(wal'.recs)
      /\ before' = {} /\ metaBefore' = {} /\ pc' = "down" /\ Forgotten
      /\ UNCHANGED <<promised, pending, frontier>>
  BY DEF PowerFails, RaftLogSpends, history
<1>2. /\ wal' \in File /\ Readable(wal'.recs)
      /\ wal'.recs \in Seq(Record) /\ AppliedAll(Empty, wal'.recs) \in May
  BY <1>1, ImagesFit
<1>3. May' = May
  BY <1>1, MayStays
<1>4. MetaImages' = {meta'} /\ meta' \in MetaImages
  BY <1>1 DEF MetaImages
<1>5. meta' \in Meta
  BY <1>1 DEF MetaImages, RaftInv, Typed
<1>6. /\ vote' = 0 /\ committed' = None /\ written' = None
      /\ op'.recs = << >> /\ op'.recs \in Seq(Record)
      /\ op' = [recs |-> op'.recs, vote |-> op'.vote] /\ 0 \in 0 .. MaxTerm
  BY <1>1 DEF Forgotten, Nothing, BoundsAssumption
<1>7. raftLogUsed' \in [kills : 0 .. MaxKills, power : 0 .. MaxPower, faults : 0 .. MaxLogFaults]
  BY <1>0, <1>1, Counted
<1>8. Typed'
  <2>1. Len(wal'.recs) \in Nat /\ wal'.v2 \in BOOLEAN
    BY <1>2 DEF File
  <2>2. meta'.vote \in 0 .. MaxTerm /\ meta'.committed \in Ids
    BY <1>5 DEF Meta
  <2> QED
    BY <1>1, <1>2, <1>5, <1>6, <1>7, <2>1, <2>2 DEF RaftInv, Typed, RaftLogTypeOK, Ids
<1>9. FilesHave'
  <2>1. Finds(wal'.recs, Len(wal'.recs), May)
    BY <1>2, SureFinds
  <2> QED
    BY <1>1, <1>2, <1>3, <2>1 DEF RaftInv, FilesHave
<1>10. CallFits'
  BY <1>1 DEF CallFits, Serving, Opening
<1>11. VotesFit'
  BY <1>1, <1>4 DEF RaftInv, VotesFit, Possible, Opening
<1>12. CommittedKept'
  BY <1>1, <1>3, <1>4, <1>6, FrontierTyped, KeptStill
<1> QED
  BY <1>8, <1>9, <1>10, <1>11, <1>12 DEF RaftInv

-----------------------------------------------------------------------------
(* The theorems *)

\* A node begins with a log that its file replays to.
LEMMA RaftInitHolds ==
    ASSUME BoundsAssumption, RaftLogAssumption, RaftLogInit
    PROVE  RaftInv
<1> DEFINE c == promised.log
           two == <<Insert([index |-> 0, term |-> 1]), Insert([index |-> 1, term |-> 1])>>
           r1 == Insert([index |-> 0, term |-> 1])
           r2 == Insert([index |-> 1, term |-> 1])
<1>1. /\ sure = Len(wal.recs) /\ before = {} /\ metaBefore = {}
      /\ vote = 0 /\ committed = None /\ written = None
      /\ pc = "down" /\ op = Nothing /\ pending = Nothing
      /\ promised.log = AppliedAll(Empty, wal.recs) /\ promised.vote = meta.vote
      /\ frontier = meta.committed
      /\ raftLogUsed = [kills |-> 0, power |-> 0, faults |-> 0]
  BY DEF RaftLogInit, Replay
<1>2. None \in Ids /\ Empty.entries = << >> /\ Empty.purged = None /\ LogOK(Empty) /\ LastIndex(Empty) = -1
  <2>1. None \in Ids /\ None.index = -1
    BY DEF Ids, None
  <2>2. << >> \in [-1 + 1 .. -1 -> Terms]
    OBVIOUS
  <2>3. -1 \in Int /\ None.index <= -1 /\ -1 <= MaxIndex
    BY <2>1 DEF BoundsAssumption
  <2>4. << >> \in [None.index + 1 .. -1 -> Terms]
    BY <2>1, <2>2
  <2>5. LogOK([entries |-> << >>, purged |-> None]) /\ LastIndex([entries |-> << >>, purged |-> None]) = -1
    BY <2>1, <2>3, <2>4, LogFrom
  <2> QED
    BY <2>1, <2>5 DEF Empty
<1>3. /\ wal \in File /\ Sound(wal.recs) /\ meta \in Meta
      /\ LogOK(c) /\ Holds(c, meta.committed)
  <2>1. CASE wal = [v2 |-> FALSE, recs |-> << >>] /\ meta = NoMeta
    <3>1. wal.recs = << >> /\ wal \in File /\ Sound(wal.recs)
      BY <2>1 DEF File, Sound
    <3>2. c = Empty
      BY <1>1, <3>1, AppliedNone
    <3>3. meta \in Meta /\ meta.committed = None
      BY <2>1 DEF NoMeta, Meta, Ids, BoundsAssumption
    <3> HIDE DEF c
    <3> QED
      BY <1>2, <3>1, <3>2, <3>3 DEF Holds
  <2>2. CASE /\ wal = [v2 |-> FALSE, recs |-> two]
             /\ meta = [vote |-> 1, committed |-> [index |-> 0, term |-> 1]]
    <3>1. /\ [index |-> 0, term |-> 1] \in LogId /\ [index |-> 1, term |-> 1] \in LogId
          /\ 1 \in 0 .. MaxTerm
      BY DEF LogId, Indices, Terms, BoundsAssumption
    <3>2. r1 \in Record /\ r2 \in Record /\ meta \in Meta
      BY <2>2, <3>1 DEF Insert, Record, Meta, Ids
    <3>3. two = Append(<<r1>>, r2) /\ <<r1>> = Append(<< >>, r1)
      OBVIOUS
    <3>4. << >> \in Seq(Record) /\ <<r1>> \in Seq(Record) /\ two \in Seq(Record)
      BY <3>2
    <3>5. Sound(two)
      BY DEF Sound, Insert
    <3>6. /\ r1.kind = "insert" /\ r1.id = [index |-> 0, term |-> 1] /\ r1.id.index = 0
          /\ r2.kind = "insert" /\ r2.id = [index |-> 1, term |-> 1] /\ r2.id.index = 1
      BY DEF Insert
    <3> HIDE DEF two, r1, r2
    <3>7. AppliedAll(Empty, <<r1>>) = Applied(Empty, r1)
      <4>1. AppliedAll(Empty, Append(<< >>, r1)) = Applied(AppliedAll(Empty, << >>), r1)
        BY <3>2, <3>4, AppliedAppend
      <4> QED
        BY <3>3, <4>1, AppliedNone
    <3>8. AppliedAll(Empty, two) = Applied(Applied(Empty, r1), r2)
      <4>1. AppliedAll(Empty, Append(<<r1>>, r2)) = Applied(AppliedAll(Empty, <<r1>>), r2)
        BY <3>2, <3>4, AppliedAppend
      <4> QED
        BY <3>3, <3>7, <4>1
    <3> DEFINE c1 == Applied(Empty, r1)
    <3>9. LogOK(c1) /\ LastIndex(c1) = 0
      <4>1. r1.id \in LogId /\ r1.id.index = LastIndex(Empty) + 1
        BY <1>2, <3>1, <3>6
      <4> QED
        BY <1>2, <3>6, <4>1, InsertFits
    <3>10. Holds(c1, [index |-> 0, term |-> 1])
      <4>1. c1.entries = Put(<< >>, 0, 1)
        BY <1>2, <3>6 DEF Applied, Empty
      <4>2. 0 \in DOMAIN Put(<< >>, 0, 1) /\ Put(<< >>, 0, 1)[0] = 1
        BY DEF Put
      <4> QED
        BY <4>1, <4>2 DEF Holds
    <3> HIDE DEF c1
    <3>11. /\ LogOK(Applied(c1, r2))
           /\ \A id \in Ids : Holds(c1, id) => Holds(Applied(c1, r2), id)
      <4>1. r2.id \in LogId /\ r2.id.index = LastIndex(c1) + 1
        BY <3>1, <3>6, <3>9
      <4> QED
        BY <3>6, <3>9, <4>1, InsertFits
    <3>12. wal.recs = two /\ wal \in File /\ c = Applied(c1, r2)
      BY <1>1, <2>2, <3>4, <3>8 DEF File, c1
    <3> HIDE DEF c
    <3>13. meta.committed = [index |-> 0, term |-> 1] /\ meta.committed \in Ids
      BY <2>2, <3>1 DEF Ids
    <3> QED
      BY <3>2, <3>5, <3>10, <3>11, <3>12, <3>13
  <2> QED
    BY <2>1, <2>2 DEF RaftLogInit
<1>4. /\ pending.recs = << >> /\ pending.vote = 0 /\ pending.recs \in Seq(Record)
      /\ pending = [recs |-> pending.recs, vote |-> pending.vote]
      /\ op.recs \in Seq(Record) /\ op = [recs |-> op.recs, vote |-> op.vote]
      /\ wal.recs \in Seq(Record) /\ Len(wal.recs) \in Nat
      /\ meta.vote \in 0 .. MaxTerm /\ meta.committed \in Ids
  BY <1>1, <1>3 DEF Nothing, File, Meta
<1>5. May = {c}
  BY <1>4, OutcomesAre DEF May
<1> HIDE DEF c
<1>6. Typed
  <2>1. wal.v2 \in BOOLEAN
    BY <1>3 DEF File
  <2>2. /\ raftLogUsed \in [kills : 0 .. MaxKills, power : 0 .. MaxPower, faults : 0 .. MaxLogFaults]
        /\ 0 \in 0 .. MaxTerm
    BY <1>1 DEF RaftLogAssumption, BoundsAssumption
  <2> QED
    BY <1>1, <1>2, <1>3, <1>4, <2>1, <2>2 DEF Typed, RaftLogTypeOK, Ids
<1>7. FilesHave
  <2>1. Finds(wal.recs, Len(wal.recs), {c})
    <3>1. AppliedAll(Empty, wal.recs) \in {c}
      BY <1>1 DEF c
    <3> QED
      BY <1>4, <3>1, SureFinds
  <2>2. Readable(wal.recs)
    BY <1>3, <1>4 DEF Readable, Sound
  <2> QED
    BY <1>1, <1>3, <1>5, <2>1, <2>2 DEF FilesHave
<1>8. CallFits
  BY <1>1 DEF CallFits, Serving, Opening
<1>9. VotesFit
  BY <1>1, <1>4 DEF VotesFit, Possible, MetaImages, Opening
<1>10. CommittedKept
  <2>1. {committed} \union {m.committed : m \in MetaImages} = {None, meta.committed}
    BY <1>1 DEF MetaImages
  <2>2. meta.committed.index \in Int /\ meta.committed.index >= -1 /\ None.index = -1
    BY <1>4 DEF Ids, LogId, None, Indices
  <2>3. Holds(c, None)
    BY DEF Holds
  <2>4. None.index <= frontier.index /\ meta.committed.index <= frontier.index
    BY <1>1, <2>2
  <2> QED
    BY <1>3, <1>5, <2>1, <2>3, <2>4 DEF CommittedKept
<1> QED
  BY <1>6, <1>7, <1>8, <1>9, <1>10 DEF RaftInv

\* Every step keeps the invariant.
LEMMA RaftStepKeeps ==
    ASSUME BoundsAssumption, RaftLogAssumption, OrderedWriteback, RaftInv,
           [RaftLogNext]_raftLogVars
    PROVE  RaftInv'
<1>1. CASE UNCHANGED raftLogVars
  <2>1. UNCHANGED <<wal, sure, before, meta, metaBefore, mem, vote, committed, written, pc, op,
                    promised, pending, frontier, raftLogUsed>>
    BY <1>1 DEF raftLogVars, files, inner, history
  <2>2. May' = May /\ MetaImages' = MetaImages
    BY <2>1 DEF May, MetaImages
  <2>3. Typed'
    BY <2>1 DEF RaftInv, Typed, RaftLogTypeOK
  <2>4. FilesHave'
    BY <2>1, <2>2 DEF RaftInv, FilesHave
  <2>5. CallFits'
    BY <2>1, <2>2 DEF RaftInv, CallFits
  <2>6. VotesFit'
    BY <2>1, <2>2 DEF RaftInv, VotesFit, Possible
  <2>7. CommittedKept'
    BY <2>1, <2>2 DEF RaftInv, CommittedKept
  <2> QED
    BY <2>3, <2>4, <2>5, <2>6, <2>7 DEF RaftInv
<1>2. CASE \/ \E n \in 1 .. MaxBatch, t \in Terms : BeginAppend(n, t)
           \/ \E i \in Indices : BeginTruncate(i)
           \/ \E id \in LogId : BeginPurge(id)
  BY <1>2, CallsKeep
<1>3. CASE WriteRecord
  BY <1>3, WriteKeeps
<1>4. CASE SyncWal
  BY <1>4, SyncKeeps
<1>5. CASE Rewrite \/ OpenMigrates \/ RewriteSynced \/ OpenSynced
  BY <1>5, RewritesKeep
<1>6. CASE \E v \in Terms : SaveVote(v)
  BY <1>6, SaveVoteKeeps
<1>7. CASE \E i \in Indices : SaveCommitted(i)
  BY <1>7, SaveCommittedKeeps
<1>8. CASE WriteMeta
  BY <1>8, WriteMetaKeeps
<1>9. CASE MetaSynced
  BY <1>9, MetaSyncedKeeps
<1>10. CASE OpenReads
  BY <1>10, OpenReadsKeeps
<1>11. CASE OpenCuts
  BY <1>11, OpenCutsKeeps
<1>12. CASE Fails \/ Shutdown \/ RaftLogKill
  BY <1>12, EndsKeep
<1>13. CASE PowerFails
  BY <1>13, PowerKeeps
<1> QED
  BY <1>1, <1>2, <1>3, <1>4, <1>5, <1>6, <1>7, <1>8, <1>9, <1>10, <1>11, <1>12, <1>13
     DEF RaftLogNext

\* The invariant says what survives.
LEMMA InvSurvives ==
    ASSUME BoundsAssumption, OrderedWriteback, RaftInv
    PROVE  RaftLogTypeOK /\ AnsweredSurvives
<1>1. ASSUME NEW image \in Images
      PROVE  /\ Readable(image.recs)
             /\ \E k \in 0 .. Len(pending.recs) :
                   Replay(image.recs) = AppliedAll(promised.log, SubSeq(pending.recs, 1, k))
  <2>1. Readable(image.recs) /\ AppliedAll(Empty, image.recs) \in May
    BY ImagesFit
  <2> QED
    BY <2>1 DEF May, Outcomes, Replay
<1>2. \A m \in MetaImages : m.vote \in {promised.vote, pending.vote} /\ m.vote >= promised.vote
  BY DEF RaftInv, VotesFit, Possible
<1>3. ASSUME NEW image \in Images, NEW m \in MetaImages
      PROVE  Covers(Replay(image.recs), m.committed)
  <2> DEFINE c == AppliedAll(Empty, image.recs)
  <2>1. c \in May
    BY ImagesFit
  <2> HIDE DEF c
  <2>2. LogOK(c) /\ Holds(c, m.committed) /\ m.committed \in Ids
    BY <2>1 DEF RaftInv, FilesHave, CommittedKept, Typed, MetaImages, Meta
  <2>3. Covers(c, m.committed)
    BY <2>2, HeldIsCovered
  <2> QED
    BY <2>3 DEF c, Replay
<1> QED
  BY <1>1, <1>2, <1>3 DEF AnsweredSurvives, RaftInv, Typed

\* Whatever a kill or a power failure leaves, the next open finds every answered
\* append, truncate and purge and the vote, and accepts the files, provided the
\* unsynced bytes that survive are a prefix (append_sync, rewrite_wal,
\* write_meta, replay, open of durable.rs).
THEOREM AnsweredIsKept ==
    ASSUME OrderedWriteback = TRUE
    PROVE  RaftLogSpec => []AnsweredSurvives
<1>0. BoundsAssumption /\ RaftLogAssumption /\ OrderedWriteback
  BY BoundsAssumption, RaftLogAssumption
<1>1. RaftLogInit => RaftInv
  BY <1>0, RaftInitHolds
<1>2. RaftInv /\ [RaftLogNext]_raftLogVars => RaftInv'
  BY <1>0, RaftStepKeeps
<1>3. RaftInv => AnsweredSurvives
  BY <1>0, InvSurvives
<1> QED
  BY <1>1, <1>2, <1>3, PTL DEF RaftLogSpec

-----------------------------------------------------------------------------
(* The storage raft asks for.                                               *)

\* The storage reads records as the file does.
LEMMA SameRecords ==
    /\ \A c, recs : Storage!AppliedAll(c, recs) = AppliedAll(c, recs)
    /\ \A c : Storage!LastIndex(c) = LastIndex(c)
    /\ Storage!Empty = Empty /\ Storage!NoCall = Nothing
<1>1. \A c, r : Storage!Applied(c, r) = Applied(c, r)
  BY DEF Storage!Applied, Applied, Storage!Put, Put, Storage!Below, Below, Storage!Above, Above
<1>2. \A c, recs : Storage!AppliedAll(c, recs) = AppliedAll(c, recs)
  BY <1>1 DEF Storage!AppliedAll, AppliedAll
<1> QED
  BY <1>2 DEF Storage!LastIndex, LastIndex, Storage!Empty, Empty, Storage!None, None,
              Storage!NoCall, Nothing

\* A new node is a new storage.
LEMMA StorageBegins ==
    ASSUME BoundsAssumption, RaftLogInit
    PROVE  Storage!Init
<1> DEFINE r1 == Insert([index |-> 0, term |-> 1])
           r2 == Insert([index |-> 1, term |-> 1])
           two == <<r1, r2>>
<1>1. /\ pending = Nothing /\ frontier = meta.committed
      /\ promised.log = AppliedAll(Empty, wal.recs) /\ promised.vote = meta.vote
      /\ \/ wal.recs = << >> /\ meta = NoMeta
         \/ wal.recs = two /\ meta = [vote |-> 1, committed |-> [index |-> 0, term |-> 1]]
  BY DEF RaftLogInit, Replay
<1>2. promised.log \in {Empty, [Empty EXCEPT !.entries = [i \in 0 .. 1 |-> 1]]}
  <2>1. AppliedAll(Empty, << >>) = Empty
    BY AppliedNone
  <2>2. AppliedAll(Empty, two) = [Empty EXCEPT !.entries = [i \in 0 .. 1 |-> 1]]
    <3>1. two = Append(<<r1>>, r2) /\ <<r1>> = Append(<< >>, r1)
      OBVIOUS
    <3>2. << >> \in Seq({r1, r2}) /\ <<r1>> \in Seq({r1, r2}) /\ r1 \in {r1, r2} /\ r2 \in {r1, r2}
      OBVIOUS
    <3>3. /\ r1.kind = "insert" /\ r1.id.index = 0 /\ r1.id.term = 1
          /\ r2.kind = "insert" /\ r2.id.index = 1 /\ r2.id.term = 1
      BY DEF Insert
    <3> HIDE DEF two, r1, r2
    <3>4. AppliedAll(Empty, Append(<< >>, r1)) = Applied(AppliedAll(Empty, << >>), r1)
      BY <3>2, AppliedAppend
    <3>5. AppliedAll(Empty, Append(<<r1>>, r2)) = Applied(AppliedAll(Empty, <<r1>>), r2)
      BY <3>2, AppliedAppend
    <3>6. AppliedAll(Empty, two) = Applied(Applied(Empty, r1), r2)
      BY <2>1, <3>1, <3>4, <3>5
    <3>7. Applied(Empty, r1) = [entries |-> Put(<< >>, 0, 1), purged |-> None]
      BY <3>3 DEF Applied, Empty
    <3>8. Applied([entries |-> Put(<< >>, 0, 1), purged |-> None], r2)
              = [entries |-> Put(Put(<< >>, 0, 1), 1, 1), purged |-> None]
      BY <3>3 DEF Applied
    <3>9. Put(Put(<< >>, 0, 1), 1, 1) = [i \in 0 .. 1 |-> 1]
      <4>1. Put(<< >>, 0, 1) = [i \in {0} |-> 1]
        BY DEF Put
      <4>2. Put([i \in {0} |-> 1], 1, 1) = [i \in {0, 1} |-> 1]
        BY DEF Put
      <4>3. 0 .. 1 = {0, 1}
        OBVIOUS
      <4> QED
        BY <4>1, <4>2, <4>3
    <3>10. [Empty EXCEPT !.entries = [i \in 0 .. 1 |-> 1]]
               = [entries |-> [i \in 0 .. 1 |-> 1], purged |-> None]
      BY DEF Empty
    <3> QED
      BY <3>6, <3>7, <3>8, <3>9, <3>10
  <2> QED
    BY <1>1, <2>1, <2>2
<1>3. promised.vote \in {0, 1} /\ frontier \in {None, [index |-> 0, term |-> 1]}
  BY <1>1 DEF NoMeta
<1>4. Storage!Empty = Empty /\ Storage!NoCall = Nothing /\ Storage!None = None
  BY SameRecords DEF Storage!None, None
<1> HIDE DEF two
<1> QED
  BY <1>1, <1>2, <1>3, <1>4 DEF Storage!Init

\* An answer is an answer of the storage.
LEMMA AnswerRefines ==
    ASSUME RaftInv, NEW c \in May, NEW v \in 0 .. MaxTerm, Possible(v), Answered(c, v)
    PROVE  Storage!Settle
<1>1. promised' = [log |-> c, vote |-> v] /\ pending' = Nothing
  BY DEF Answered
<1>2. promised'.log = c /\ promised'.vote = v
  BY <1>1
<1>3. \E k \in 0 .. Len(pending.recs) :
          promised'.log = Storage!AppliedAll(promised.log, SubSeq(pending.recs, 1, k))
  BY <1>2, SameRecords DEF May, Outcomes
<1>4. promised'.vote \in {promised.vote} \union ({pending.vote} \ {0})
  <2>1. promised.vote \in 0 .. MaxTerm
    BY DEF RaftInv, Typed
  <2>2. v \in {promised.vote, pending.vote} /\ v >= promised.vote
    BY DEF Possible
  <2> QED
    BY <1>2, <2>1, <2>2
<1>5. frontier' = IF promised'.log.purged.index > frontier.index THEN promised'.log.purged ELSE frontier
  BY <1>2 DEF Answered
<1>6. pending' = Storage!NoCall
  BY <1>1, SameRecords
<1> QED
  BY <1>3, <1>4, <1>5, <1>6 DEF Storage!Settle

\* A call is a call of the storage.
LEMMA CallRefines ==
    ASSUME BoundsAssumption, RaftInv,
           \/ \E n \in 1 .. MaxBatch, t \in Terms : BeginAppend(n, t)
           \/ \E i \in Indices : BeginTruncate(i)
           \/ \E id \in LogId : BeginPurge(id)
    PROVE  Storage!Call
<1>1. pc = "idle" => pending = Nothing /\ mem = promised.log
  <2> SUFFICES ASSUME pc = "idle" PROVE pending = Nothing /\ mem = promised.log
    OBVIOUS
  <2>1. pending.recs = << >> /\ pending.vote = 0 /\ mem \in May
    BY DEF RaftInv, CallFits, VotesFit, Serving
  <2>2. pending = [recs |-> pending.recs, vote |-> pending.vote]
    BY DEF RaftInv, Typed
  <2>3. << >> \in Seq(Record)
    OBVIOUS
  <2>4. May = {promised.log}
    BY <2>1, <2>3, OutcomesAre DEF May
  <2> QED
    BY <2>1, <2>2, <2>4 DEF Nothing
<1>2. ASSUME NEW recs, pc = "idle", pending' = [recs |-> recs, vote |-> 0], recs # << >>,
             UNCHANGED <<promised, frontier>>,
             \A i \in DOMAIN recs :
                /\ recs[i].kind = "truncate" => recs[i].id.index > frontier.index
                /\ recs[i].kind = "purge" =>
                      recs[i].id.index <= frontier.index \/ recs[i].id.index > LastIndex(mem)
      PROVE  Storage!Call
  <2>1. pending = Storage!NoCall /\ pending' # Storage!NoCall
    BY <1>1, <1>2, SameRecords DEF Nothing
  <2>2. pending'.vote = 0 /\ pending'.recs = recs
    BY <1>2
  <2>3. Storage!Respects(pending'.recs)
    BY <1>1, <1>2, <2>2, SameRecords DEF Storage!Respects
  <2>4. UNCHANGED <<promised.log, promised.vote, frontier>>
    BY <1>2
  <2> QED
    BY <2>1, <2>2, <2>3, <2>4 DEF Storage!Call
<1>3. ASSUME NEW n \in 1 .. MaxBatch, NEW t \in Terms, BeginAppend(n, t) PROVE Storage!Call
  <2> DEFINE recs == [i \in 1 .. n |-> Insert([index |-> LastIndex(mem) + i, term |-> t])]
  <2>1. /\ pc = "idle" /\ pending' = [recs |-> recs, vote |-> 0]
        /\ UNCHANGED <<promised, frontier>>
    BY <1>3 DEF BeginAppend, BeginCall
  <2>2. DOMAIN recs = 1 .. n /\ 1 \in 1 .. n
    BY <1>3
  <2>3. \A i \in DOMAIN recs : recs[i].kind = "insert"
    BY DEF Insert
  <2> HIDE DEF recs
  <2>4. recs # << >>
    BY <2>2
  <2> QED
    BY <1>2, <2>1, <2>3, <2>4
<1>4. ASSUME NEW i \in Indices, BeginTruncate(i) PROVE Storage!Call
  <2> DEFINE r == Truncate([index |-> i, term |-> mem.entries[i]])
             recs == <<r>>
  <2>1. /\ pc = "idle" /\ pending' = [recs |-> recs, vote |-> 0] /\ i > frontier.index
        /\ UNCHANGED <<promised, frontier>>
    BY <1>4 DEF BeginTruncate, BeginCall
  <2>2. r.kind = "truncate" /\ r.id.index = i
    BY DEF Truncate
  <2> HIDE DEF r
  <2>3. recs # << >> /\ \A j \in DOMAIN recs : recs[j] = r
    OBVIOUS
  <2> HIDE DEF recs
  <2> QED
    BY <1>2, <2>1, <2>2, <2>3
<1>5. ASSUME NEW id \in LogId, BeginPurge(id) PROVE Storage!Call
  <2> DEFINE r == Purge(id)
             recs == <<r>>
  <2>1. /\ pc = "idle" /\ pending' = [recs |-> recs, vote |-> 0]
        /\ id.index <= frontier.index \/ id.index > LastIndex(mem)
        /\ UNCHANGED <<promised, frontier>>
    BY <1>5 DEF BeginPurge, BeginCall
  <2>2. r.kind = "purge" /\ r.id.index = id.index
    BY DEF Purge
  <2> HIDE DEF r
  <2>3. recs # << >> /\ \A j \in DOMAIN recs : recs[j] = r
    OBVIOUS
  <2> HIDE DEF recs
  <2> QED
    BY <1>2, <2>1, <2>2, <2>3
<1> QED
  BY <1>3, <1>4, <1>5

\* Every step is a step of the storage, or changes nothing it shows.
LEMMA StepRefines ==
    ASSUME BoundsAssumption, OrderedWriteback, RaftInv, [RaftLogNext]_raftLogVars
    PROVE  [Storage!Next]_(Storage!vars)
<1> DEFINE Stutter == UNCHANGED <<promised, pending, frontier>>
<1>0. Stutter => UNCHANGED (Storage!vars)
  BY DEF Storage!vars
<1>1. pc \in {"compactSync", "openCompactSync", "openSync", "openCut"} =>
          mem \in May /\ Possible(vote) /\ vote \in 0 .. MaxTerm
  BY FrontierTyped DEF RaftInv, CallFits, VotesFit, Serving, Opening
<1>2. ASSUME pc \in {"compactSync", "openCompactSync", "openSync", "openCut"}, Answered(mem, vote)
      PROVE  Storage!Settle
  <2>1. mem \in May /\ Possible(vote) /\ vote \in 0 .. MaxTerm
    BY <1>1, <1>2
  <2> QED
    BY <1>2, <2>1, AnswerRefines
<1>3. CASE UNCHANGED raftLogVars
  BY <1>0, <1>3 DEF raftLogVars, history
<1>4. CASE \/ \E n \in 1 .. MaxBatch, t \in Terms : BeginAppend(n, t)
           \/ \E i \in Indices : BeginTruncate(i)
           \/ \E id \in LogId : BeginPurge(id)
  BY <1>4, CallRefines DEF Storage!Next
<1>5. CASE SyncWal
  <2>1. pc = "sync" /\ mem' = AppliedAll(mem, op.recs)
        /\ (UNCHANGED history \/ Answered(mem', vote))
    BY <1>5 DEF SyncWal
  <2>2. mem' = AppliedAll(promised.log, pending.recs) /\ pending.recs \in Seq(Record)
    BY <2>1 DEF RaftInv, CallFits, Typed
  <2>3. mem' \in May
    BY <2>2, OutcomesAre DEF May
  <2>4. Possible(vote) /\ vote \in 0 .. MaxTerm
    BY <2>1, FrontierTyped DEF RaftInv, VotesFit
  <2>5. CASE Answered(mem', vote)
    <3> DEFINE c == mem'
    <3>1. c \in May /\ Answered(c, vote)
      BY <2>3, <2>5
    <3> HIDE DEF c
    <3> QED
      BY <2>4, <3>1, AnswerRefines DEF Storage!Next
  <2>6. CASE UNCHANGED history
    BY <1>0, <2>6 DEF history
  <2> QED
    BY <2>1, <2>5, <2>6
<1>6. CASE RewriteSynced
  BY <1>2, <1>6 DEF RewriteSynced, Storage!Next
<1>7. CASE OpenSynced
  BY <1>2, <1>7 DEF OpenSynced, OpenDone, Storage!Next
<1>8. CASE OpenCuts
  <2>1. pc = "openCut" /\ (UNCHANGED history \/ Answered(mem, vote))
    BY <1>8 DEF OpenCuts, OpenDone
  <2> QED
    BY <1>0, <1>2, <2>1 DEF history, Storage!Next
<1>9. CASE MetaSynced
  <2>1. UNCHANGED history \/ (pc = "metaSync" /\ Answered(promised.log, vote))
    BY <1>9 DEF MetaSynced
  <2>2. CASE UNCHANGED history
    BY <1>0, <2>2 DEF history
  <2>3. CASE pc = "metaSync" /\ Answered(promised.log, vote)
    <3>1. Possible(vote) /\ vote \in 0 .. MaxTerm
      BY <2>3, FrontierTyped DEF RaftInv, VotesFit
    <3>2. pending.recs \in Seq(Record)
      BY DEF RaftInv, Typed
    <3> DEFINE c == promised.log
    <3>3. c \in May /\ Answered(c, vote)
      BY <2>3, <3>2, OutcomesAre DEF May
    <3> HIDE DEF c
    <3> QED
      BY <3>1, <3>3, AnswerRefines DEF Storage!Next
  <2> QED
    BY <2>1, <2>2, <2>3
<1>10. CASE \E v \in Terms : SaveVote(v)
  <2>1. PICK v \in Terms : SaveVote(v)
    BY <1>10
  <2>2. /\ pc = "idle" /\ v > vote /\ pending' = [Nothing EXCEPT !.vote = v]
        /\ UNCHANGED <<promised, frontier>>
    BY <2>1 DEF SaveVote
  <2>3. pending' = [recs |-> << >>, vote |-> v] /\ v # 0
    BY <2>2 DEF Nothing, Terms
  <2>4. pending'.vote = v /\ pending'.recs = << >>
    BY <2>3
  <2>5. vote = promised.vote /\ pending.recs = << >> /\ pending.vote = 0
        /\ pending = [recs |-> pending.recs, vote |-> pending.vote]
    BY <2>2 DEF RaftInv, VotesFit, CallFits, Typed
  <2>6. pending = Storage!NoCall /\ pending' # Storage!NoCall
    BY <2>3, <2>4, <2>5, SameRecords DEF Nothing
  <2>7. Storage!Respects(pending'.recs)
    BY <2>4 DEF Storage!Respects
  <2>8. UNCHANGED <<promised.log, promised.vote, frontier>>
    BY <2>2
  <2>9. Storage!Call
    BY <2>2, <2>4, <2>5, <2>6, <2>7, <2>8 DEF Storage!Call
  <2> QED
    BY <2>9 DEF Storage!Next
<1>11. CASE \E i \in Indices : SaveCommitted(i)
  <2>1. PICK i \in Indices : SaveCommitted(i)
    BY <1>11
  <2>2. /\ pc = "idle" /\ i \in DOMAIN mem.entries /\ i >= frontier.index
        /\ frontier' = [index |-> i, term |-> mem.entries[i]]
        /\ UNCHANGED <<promised, pending>>
    BY <2>1 DEF SaveCommitted
  <2>3. mem = promised.log
    <3>1. pending.recs = << >> /\ mem \in May
      BY <2>2 DEF RaftInv, CallFits, Serving
    <3>2. << >> \in Seq(Record)
      OBVIOUS
    <3>3. May = {promised.log}
      BY <3>1, <3>2, OutcomesAre DEF May
    <3> QED
      BY <3>1, <3>3
  <2>4. frontier'.index = i /\ frontier'.term = mem.entries[i]
    BY <2>2
  <2>5. Storage!Advance
    BY <2>2, <2>3, <2>4 DEF Storage!Advance
  <2> QED
    BY <2>5 DEF Storage!Next
<1>12. CASE WriteRecord \/ Rewrite \/ OpenMigrates \/ WriteMeta \/ OpenReads \/ Fails \/ Shutdown
            \/ RaftLogKill \/ PowerFails
  BY <1>0, <1>12 DEF WriteRecord, Rewrite, OpenMigrates, WriteMeta, OpenReads, Fails, Shutdown,
                     RaftLogKill, PowerFails, history
<1> QED
  BY <1>3, <1>4, <1>5, <1>6, <1>7, <1>8, <1>9, <1>10, <1>11, <1>12 DEF RaftLogNext

\* The WAL, its rewriting and meta.bin keep the contract of openraft's log
\* storage: a call takes effect whole once it is answered, a crash leaves a
\* prefix of the records of the unanswered one, and nothing answered is lost,
\* provided the unsynced bytes that survive are a prefix (durable.rs).
THEOREM ContractIsKept ==
    ASSUME OrderedWriteback = TRUE
    PROVE  RaftLogSpec => KeepsContract
<1>0. BoundsAssumption /\ RaftLogAssumption /\ OrderedWriteback
  BY BoundsAssumption, RaftLogAssumption
<1>1. RaftLogInit => RaftInv /\ Storage!Init
  BY <1>0, RaftInitHolds, StorageBegins
<1>2. RaftInv /\ [RaftLogNext]_raftLogVars => RaftInv'
  BY <1>0, RaftStepKeeps
<1>3. RaftInv /\ [RaftLogNext]_raftLogVars => [Storage!Next]_(Storage!vars)
  BY <1>0, StepRefines
<1> QED
  BY <1>1, <1>2, <1>3, PTL DEF RaftLogSpec, KeepsContract, Storage!Spec

-----------------------------------------------------------------------------
(* The types of HvmCheckpoint.                                             *)

Names == [tmp : 0 .. MaxFiles, hbt : 0 .. MaxFiles]
Trees == {NoPages, Genesis, Mixed, Broken} \union {TreeOf(v) : v \in Nat}
RequestSteps == {"idle", "look", "remove", "open", "genesis", "genesisSync", "build", "superblock",
                 "superblockSync", "rename", "dirSync", "reopen"}
Building == {"genesis", "genesisSync", "build", "superblock", "superblockSync", "rename"}
Directories == namesBack \union {names}

RequestRecords == [at : RequestSteps, of : 0 .. MaxVersions, file : 0 .. MaxFiles, base : Trees]

FilesTyped == content \in [Files -> Trees] /\ durable \in [Files -> Trees]
NamesTyped == names \in Names /\ namesBack \subseteq Names
RequestsTyped == request \in [Requests -> RequestRecords]
HistoryTyped == met \union late \subseteq Files
LedgerTyped == ledger \in 1 .. MaxVersions /\ told \in 0 .. MaxVersions

HvmTyped == LedgerTyped /\ NamesTyped /\ FilesTyped /\ RequestsTyped

LEMMA TreesAre ==
    /\ {NoPages, Genesis, Mixed, Broken} \subseteq Trees
    /\ \A v \in Nat : TreeOf(v) \in Trees /\ TreeOf(v) \notin {NoPages, Genesis, Mixed, Broken}
    /\ Genesis # NoPages /\ Genesis # Broken /\ NoPages # Broken
    /\ \A v, w \in Nat : TreeOf(v) = TreeOf(w) => v = w
  BY DEF Trees, NoPages, Genesis, Mixed, Broken, TreeOf

\* A write to a file that is none changes nothing, so its value is of no matter.
LEMMA FileWritten ==
    ASSUME NEW held \in [Files -> Trees], NEW f, NEW new, f \in Files => new \in Trees
    PROVE  [held EXCEPT ![f] = new] \in [Files -> Trees]
<1>1. CASE f \in Files
  BY <1>1
<1>2. CASE f \notin Files
  <2>1. [held EXCEPT ![f] = new] = held
    BY <1>2
  <2> QED
    BY <2>1
<1> QED
  BY <1>1, <1>2

LEMMA RequestMoved ==
    ASSUME RequestsTyped, NEW r \in Requests, NEW q \in RequestRecords,
           request' = [request EXCEPT ![r] = q]
    PROVE  RequestsTyped'
  BY DEF RequestsTyped

LEMMA RecordChanged ==
    ASSUME NEW q \in RequestRecords, NEW at \in RequestSteps, NEW of \in 0 .. MaxVersions,
           NEW g \in 0 .. MaxFiles, NEW base \in Trees
    PROVE  /\ [q EXCEPT !.at = at, !.of = of] \in RequestRecords
           /\ [q EXCEPT !.at = at, !.file = g] \in RequestRecords
           /\ [q EXCEPT !.at = at, !.base = base] \in RequestRecords
           /\ [q EXCEPT !.at = at, !.file = g, !.base = base] \in RequestRecords
<1>1. q \in [at : RequestSteps, of : 0 .. MaxVersions, file : 0 .. MaxFiles, base : Trees]
  BY DEF RequestRecords
<1>2. [q EXCEPT !.at = at, !.of = of]
        \in [at : RequestSteps, of : 0 .. MaxVersions, file : 0 .. MaxFiles, base : Trees]
  BY <1>1
<1>3. [q EXCEPT !.at = at, !.file = g]
        \in [at : RequestSteps, of : 0 .. MaxVersions, file : 0 .. MaxFiles, base : Trees]
  BY <1>1
<1>4. [q EXCEPT !.at = at, !.base = base]
        \in [at : RequestSteps, of : 0 .. MaxVersions, file : 0 .. MaxFiles, base : Trees]
  BY <1>1
<1>5. [q EXCEPT !.at = at, !.file = g, !.base = base]
        \in [at : RequestSteps, of : 0 .. MaxVersions, file : 0 .. MaxFiles, base : Trees]
  BY <1>1
<1> QED
  BY <1>2, <1>3, <1>4, <1>5 DEF RequestRecords

LEMMA RequestGoesOn ==
    ASSUME RequestsTyped, NEW r \in Requests, NEW at \in RequestSteps, Proceeds(r, at)
    PROVE  RequestsTyped'
<1>1. [request[r] EXCEPT !.at = at] \in RequestRecords
  BY DEF RequestsTyped, RequestRecords
<1>2. request' = [request EXCEPT ![r] = [request[r] EXCEPT !.at = at]]
  BY DEF Proceeds
<1> QED
  BY <1>1, <1>2, RequestMoved

LEMMA IdleIsTyped == ASSUME HvmCheckpointAssumption PROVE IdleRequest \in RequestRecords
  BY TreesAre DEF HvmCheckpointAssumption, IdleRequest, RequestRecords, RequestSteps

LEMMA RequestEnds ==
    ASSUME HvmCheckpointAssumption, RequestsTyped, NEW r \in Requests, GivesUp(r) \/ NobodyAsks
    PROVE  RequestsTyped'
  BY IdleIsTyped DEF RequestsTyped, GivesUp, NobodyAsks

LEMMA Renamed ==
    ASSUME NamesTyped, NEW new \in Names, Renames(new)
    PROVE  NamesTyped'
  BY DEF NamesTyped, Renames

LEMMA Synced ==
    ASSUME FilesTyped, NEW r, SyncFile(r), UNCHANGED content
    PROVE  FilesTyped'
<1>1. request[r].file \in Files => content[request[r].file] \in Trees
  BY DEF FilesTyped
<1>2. durable' \in [Files -> Trees]
  BY <1>1, FileWritten DEF FilesTyped, SyncFile
<1> QED
  BY <1>2 DEF FilesTyped

LEMMA OpenTyped ==
    ASSUME HvmCheckpointAssumption, HvmTyped, NEW r \in Requests, OpenTmp(r)
    PROVE  HvmTyped'
<1>0. LedgerTyped /\ NamesTyped /\ FilesTyped /\ RequestsTyped
  BY DEF HvmTyped
<1>1. LedgerTyped'
  BY <1>0 DEF OpenTmp, LedgerTyped
<1>2. CASE names.tmp # 0
  <2>1. PICK found : found = content[names.tmp]
    OBVIOUS
  <2>2. /\ request' = IF found = Broken
                      THEN [request EXCEPT ![r] = IdleRequest]
                      ELSE [request EXCEPT
                               ![r].at = IF found = NoPages THEN "genesis" ELSE "build",
                               ![r].file = names.tmp, ![r].base = found]
        /\ UNCHANGED <<names, namesBack, content, durable>>
    BY <1>2, <2>1 DEF OpenTmp
  <2>3. names.tmp \in 0 .. MaxFiles /\ names.tmp \in Files /\ found \in Trees
    <3>1. names.tmp \in 0 .. MaxFiles
      BY <1>0 DEF NamesTyped, Names
    <3>2. names.tmp \in Files
      BY <1>2, <3>1 DEF HvmCheckpointAssumption, Files
    <3> QED
      BY <1>0, <2>1, <3>1, <3>2 DEF FilesTyped
  <2>4. ASSUME found = Broken PROVE RequestsTyped'
    BY <1>0, <2>2, <2>4, IdleIsTyped, RequestMoved
  <2>5. ASSUME found # Broken PROVE RequestsTyped'
    <3>1. PICK at \in RequestSteps : at = IF found = NoPages THEN "genesis" ELSE "build"
      BY DEF RequestSteps
    <3>2. PICK q : q = [request[r] EXCEPT !.at = at, !.file = names.tmp, !.base = found]
      OBVIOUS
    <3>3. request' = [request EXCEPT ![r] = q]
      BY <2>2, <2>5, <3>1, <3>2
    <3>4. q \in RequestRecords
      <4>1. request[r] \in RequestRecords /\ 0 \in 0 .. MaxVersions
        BY <1>0 DEF RequestsTyped, HvmCheckpointAssumption
      <4> QED
        BY <2>3, <3>1, <3>2, <4>1, RecordChanged
    <3>5. RequestsTyped
      BY <1>0
    <3> QED
      BY <3>3, <3>4, <3>5, RequestMoved
  <2>6. RequestsTyped'
    BY <2>4, <2>5
  <2> QED
    BY <1>0, <1>1, <2>2, <2>6 DEF HvmTyped, NamesTyped, FilesTyped
<1>3. CASE ~ (names.tmp # 0)
  <2>1. PICK f \in Files : /\ Renames([names EXCEPT !.tmp = f])
                           /\ content' = [content EXCEPT ![f] = NoPages]
                           /\ durable' = [durable EXCEPT ![f] = NoPages]
                           /\ request' = [request EXCEPT ![r].at = "genesis", ![r].file = f]
    BY <1>3 DEF OpenTmp
  <2>2. f \in 0 .. MaxFiles
    BY DEF HvmCheckpointAssumption, Files
  <2>3. [names EXCEPT !.tmp = f] \in Names
    BY <1>0, <2>2 DEF NamesTyped, Names
  <2>4. NamesTyped'
    BY <1>0, <2>1, <2>3, Renamed
  <2>5. FilesTyped'
    BY <1>0, <2>1, FileWritten, TreesAre DEF FilesTyped
  <2>6. PICK q : q = [request[r] EXCEPT !.at = "genesis", !.file = f]
    OBVIOUS
  <2>7. q \in RequestRecords
    BY <1>0, <2>2, <2>6 DEF RequestsTyped, RequestRecords, RequestSteps
  <2>8. request' = [request EXCEPT ![r] = q]
    BY <2>1, <2>6
  <2>9. RequestsTyped'
    BY <1>0, <2>7, <2>8, RequestMoved
  <2> QED
    BY <1>1, <2>4, <2>5, <2>9 DEF HvmTyped
<1> QED
  BY <1>2, <1>3

LEMMA WritesTyped ==
    ASSUME HvmCheckpointAssumption, HvmTyped, NEW r \in Requests,
           WriteGenesis(r) \/ SyncGenesis(r) \/ Build(r) \/ WriteSuperblock(r) \/ SyncSuperblock(r)
    PROVE  HvmTyped'
<1>0. LedgerTyped /\ NamesTyped /\ FilesTyped /\ RequestsTyped
  BY DEF HvmTyped
<1>1. LedgerTyped' /\ NamesTyped'
  BY <1>0 DEF WriteGenesis, SyncGenesis, Build, WriteSuperblock, SyncSuperblock, LedgerTyped, NamesTyped
<1>2. PICK f : f = request[r].file
  OBVIOUS
<1>3. f \in Files => content[f] \in Trees /\ durable[f] \in Trees
  BY <1>0 DEF FilesTyped
<1>4. request[r].of \in Nat
  BY <1>0 DEF RequestsTyped, RequestRecords, HvmCheckpointAssumption
<1>5. CASE WriteGenesis(r)
  <2>1. content' \in [Files -> Trees]
    <3>1. content' = [content EXCEPT ![f] = IF content[f] = NoPages THEN Genesis ELSE content[f]]
      BY <1>2, <1>5 DEF WriteGenesis
    <3> QED
      BY <1>0, <1>3, <3>1, FileWritten, TreesAre DEF FilesTyped
  <2>2. PICK q : q = [request[r] EXCEPT !.at = "genesisSync", !.base = Genesis]
    OBVIOUS
  <2>3. q \in RequestRecords
    BY <1>0, <2>2, TreesAre DEF RequestsTyped, RequestRecords, RequestSteps
  <2>4. request' = [request EXCEPT ![r] = q] /\ UNCHANGED durable
    BY <1>5, <2>2 DEF WriteGenesis
  <2>5. RequestsTyped'
    BY <1>0, <2>3, <2>4, RequestMoved
  <2> QED
    BY <1>0, <1>1, <2>1, <2>4, <2>5 DEF HvmTyped, FilesTyped
<1>6. CASE SyncGenesis(r)
  <2>1. RequestsTyped'
    BY <1>0, <1>6, RequestGoesOn DEF SyncGenesis, RequestSteps
  <2>2. FilesTyped'
    BY <1>0, <1>6, Synced DEF SyncGenesis
  <2> QED
    BY <1>1, <2>1, <2>2 DEF HvmTyped
<1>7. CASE Build(r)
  <2>1. RequestsTyped'
    BY <1>0, <1>7, RequestGoesOn DEF Build, RequestSteps
  <2>2. PICK samePages : content' = [content EXCEPT ![f] =
                            IF request[r].base = Genesis /\ samePages THEN Mixed ELSE content[f]]
    BY <1>2, <1>7 DEF Build
  <2>3. content' \in [Files -> Trees]
    BY <1>0, <1>3, <2>2, FileWritten, TreesAre DEF FilesTyped
  <2>4. durable' = [durable EXCEPT ![f] = content'[f]]
    BY <1>2, <1>7 DEF Build
  <2>5. f \in Files => content'[f] \in Trees
    BY <2>3
  <2>6. durable' \in [Files -> Trees]
    BY <1>0, <2>4, <2>5, FileWritten DEF FilesTyped
  <2> QED
    BY <1>1, <2>1, <2>3, <2>6 DEF HvmTyped, FilesTyped
<1>8. CASE WriteSuperblock(r)
  <2>1. RequestsTyped'
    BY <1>0, <1>8, RequestGoesOn DEF WriteSuperblock, RequestSteps
  <2>2. /\ content' = [content EXCEPT ![f] = IF content[f] = Genesis THEN TreeOf(request[r].of) ELSE Mixed]
        /\ UNCHANGED durable
    BY <1>2, <1>8 DEF WriteSuperblock
  <2>3. content' \in [Files -> Trees]
    BY <1>0, <1>4, <2>2, FileWritten, TreesAre DEF FilesTyped
  <2> QED
    BY <1>0, <1>1, <2>1, <2>2, <2>3 DEF HvmTyped, FilesTyped
<1>9. CASE SyncSuperblock(r)
  <2>1. RequestsTyped'
    BY <1>0, <1>9, RequestGoesOn DEF SyncSuperblock, RequestSteps
  <2>2. FilesTyped'
    BY <1>0, <1>9, Synced DEF SyncSuperblock
  <2> QED
    BY <1>1, <2>1, <2>2 DEF HvmTyped
<1> QED
  BY <1>5, <1>6, <1>7, <1>8, <1>9

LEMMA NamesMoveTyped ==
    ASSUME HvmCheckpointAssumption, HvmTyped, NEW r \in Requests,
           LookForTmp(r) \/ RemoveTmp(r) \/ RenameTmp(r) \/ SyncDirectory(r)
    PROVE  HvmTyped'
<1>0. LedgerTyped /\ NamesTyped /\ FilesTyped /\ RequestsTyped
  BY DEF HvmTyped
<1>1. LedgerTyped' /\ FilesTyped'
  BY <1>0 DEF LookForTmp, RemoveTmp, RenameTmp, SyncDirectory, LedgerTyped, FilesTyped
<1>2. CASE LookForTmp(r)
  <2>1. PICK at \in RequestSteps : at = IF names.tmp = 0 THEN "open" ELSE "remove"
    BY DEF RequestSteps
  <2>2. RequestsTyped'
    BY <1>0, <1>2, <2>1, RequestGoesOn DEF LookForTmp
  <2> QED
    BY <1>0, <1>1, <1>2, <2>2 DEF LookForTmp, HvmTyped, NamesTyped
<1>3. CASE RemoveTmp(r)
  <2>1. [names EXCEPT !.tmp = 0] \in Names
    BY <1>0 DEF HvmCheckpointAssumption, NamesTyped, Names
  <2>2. CASE names.tmp # 0
    <3>1. Renames([names EXCEPT !.tmp = 0]) /\ Proceeds(r, "open")
      BY <1>3, <2>2 DEF RemoveTmp
    <3> QED
      BY <1>0, <1>1, <2>1, <3>1, Renamed, RequestGoesOn DEF HvmTyped, RequestSteps
  <2>3. CASE ~ (names.tmp # 0)
    <3>1. GivesUp(r) /\ UNCHANGED <<names, namesBack>>
      BY <1>3, <2>3 DEF RemoveTmp
    <3> QED
      BY <1>0, <1>1, <3>1, RequestEnds DEF HvmTyped, NamesTyped
  <2> QED
    BY <2>2, <2>3
<1>4. CASE RenameTmp(r)
  <2>1. PICK new : new = [tmp |-> 0, hbt |-> names.tmp]
    OBVIOUS
  <2>2. new \in Names
    BY <1>0, <2>1 DEF HvmCheckpointAssumption, NamesTyped, Names
  <2>3. CASE names.tmp # 0
    <3>1. PICK q : q = [request[r] EXCEPT !.at = "dirSync", !.file = 0]
      OBVIOUS
    <3>2. q \in RequestRecords
      <4>1. request[r] \in RequestRecords /\ 0 \in 0 .. MaxVersions /\ 0 \in 0 .. MaxFiles
        BY <1>0 DEF RequestsTyped, HvmCheckpointAssumption
      <4>2. "dirSync" \in RequestSteps /\ NoPages \in Trees
        BY TreesAre DEF RequestSteps
      <4> QED
        BY <3>1, <4>1, <4>2, RecordChanged
    <3>3. Renames(new) /\ request' = [request EXCEPT ![r] = q]
      BY <1>4, <2>1, <2>3, <3>1 DEF RenameTmp
    <3> QED
      BY <1>0, <1>1, <2>2, <3>2, <3>3, Renamed, RequestMoved DEF HvmTyped
  <2>4. CASE ~ (names.tmp # 0)
    <3>1. GivesUp(r) /\ UNCHANGED <<names, namesBack>>
      BY <1>4, <2>4 DEF RenameTmp
    <3> QED
      BY <1>0, <1>1, <3>1, RequestEnds DEF HvmTyped, NamesTyped
  <2> QED
    BY <2>3, <2>4
<1>5. CASE SyncDirectory(r)
  <2>1. RequestsTyped'
    BY <1>0, <1>5, RequestGoesOn DEF SyncDirectory, RequestSteps
  <2> QED
    BY <1>0, <1>1, <1>5, <2>1 DEF SyncDirectory, HvmTyped, NamesTyped
<1> QED
  BY <1>2, <1>3, <1>4, <1>5

LEMMA LedgerMovesTyped ==
    ASSUME HvmCheckpointAssumption, HvmTyped, Advance \/ \E r \in Requests : ReplayLedger(r) \/ Reopen(r)
    PROVE  HvmTyped'
<1>0. LedgerTyped /\ NamesTyped /\ FilesTyped /\ RequestsTyped
  BY DEF HvmTyped
<1>1. NamesTyped'
  BY <1>0 DEF Advance, ReplayLedger, Reopen, NamesTyped
<1>2. CASE Advance
  <2>1. LedgerTyped'
    BY <1>0, <1>2 DEF Advance, LedgerTyped, HvmCheckpointAssumption
  <2> QED
    BY <1>0, <1>1, <1>2, <2>1 DEF Advance, HvmTyped, FilesTyped, RequestsTyped
<1>3. ASSUME NEW r \in Requests, ReplayLedger(r) PROVE HvmTyped'
  <2>1. PICK q : q = [request[r] EXCEPT !.at = "look", !.of = ledger]
    OBVIOUS
  <2>2. q \in RequestRecords
    <3>1. request[r] \in RequestRecords /\ ledger \in 0 .. MaxVersions /\ 0 \in 0 .. MaxFiles
      BY <1>0 DEF HvmCheckpointAssumption, LedgerTyped, RequestsTyped
    <3>2. "look" \in RequestSteps /\ NoPages \in Trees
      BY TreesAre DEF RequestSteps
    <3> QED
      BY <2>1, <3>1, <3>2, RecordChanged
  <2>3. request' = [request EXCEPT ![r] = q]
    BY <1>3, <2>1 DEF ReplayLedger
  <2> QED
    BY <1>0, <1>1, <1>3, <2>2, <2>3, RequestMoved DEF ReplayLedger, HvmTyped, LedgerTyped, FilesTyped
<1>4. ASSUME NEW r \in Requests, Reopen(r) PROVE HvmTyped'
  <2>1. PICK f : f = names.hbt
    OBVIOUS
  <2>2. LedgerTyped'
    BY <1>0, <1>4 DEF Reopen, LedgerTyped, RequestsTyped, RequestRecords
  <2>3. FilesTyped'
    <3>1. CASE content[f] = NoPages
      <4>1. content' = [content EXCEPT ![f] = Genesis] /\ durable' = [durable EXCEPT ![f] = Genesis]
        BY <1>4, <2>1, <3>1 DEF Reopen
      <4> QED
        BY <1>0, <4>1, FileWritten, TreesAre DEF FilesTyped
    <3>2. CASE content[f] # NoPages
      BY <1>0, <1>4, <2>1, <3>2 DEF Reopen, FilesTyped
    <3> QED
      BY <3>1, <3>2
  <2>4. RequestsTyped'
    BY <1>0, <1>4, RequestEnds DEF Reopen
  <2> QED
    BY <1>1, <2>2, <2>3, <2>4 DEF HvmTyped
<1> QED
  BY <1>2, <1>3, <1>4

LEMMA HvmCrashesTyped ==
    ASSUME HvmCheckpointAssumption, HvmTyped,
           HvmKill \/ HvmPowerFails \/ \E r \in Requests : HvmFails(r)
    PROVE  HvmTyped'
<1>0. LedgerTyped /\ NamesTyped /\ FilesTyped /\ RequestsTyped
  BY DEF HvmTyped
<1>1. LedgerTyped'
  BY <1>0 DEF HvmKill, HvmPowerFails, HvmFails, LedgerTyped
<1>2. RequestsTyped'
  BY <1>0, IdleIsTyped DEF HvmKill, HvmPowerFails, HvmFails, NobodyAsks, GivesUp, RequestsTyped
<1>3. NamesTyped'
  BY <1>0 DEF HvmKill, HvmPowerFails, HvmFails, NamesTyped
<1>4. FilesTyped'
  <2>1. CASE HvmPowerFails
    <3>1. PICK left \in [Files -> UNION {LeftOfFile(f) : f \in Files}] :
             content' = left /\ durable' = left
      BY <2>1 DEF HvmPowerFails
    <3>2. ASSUME NEW f \in Files PROVE LeftOfFile(f) \subseteq Trees
      BY <1>0, TreesAre DEF FilesTyped, LeftOfFile
    <3>3. UNION {LeftOfFile(f) : f \in Files} \subseteq Trees
      BY <3>2
    <3>4. left \in [Files -> Trees]
      BY <3>3
    <3> QED
      BY <3>1, <3>4 DEF FilesTyped
  <2>2. CASE ~ HvmPowerFails
    BY <1>0, <2>2 DEF HvmKill, HvmFails, FilesTyped
  <2> QED
    BY <2>1, <2>2
<1> QED
  BY <1>1, <1>2, <1>3, <1>4 DEF HvmTyped

LEMMA HvmNextTyped ==
    ASSUME HvmCheckpointAssumption, HvmTyped, [HvmNext]_hvmVars
    PROVE  HvmTyped'
<1>1. CASE HvmNext
  BY <1>1, OpenTyped, WritesTyped, NamesMoveTyped, LedgerMovesTyped, HvmCrashesTyped DEF HvmNext
<1>2. CASE UNCHANGED hvmVars
  BY <1>2 DEF hvmVars, HvmTyped, LedgerTyped, NamesTyped, FilesTyped, RequestsTyped
<1> QED
  BY <1>1, <1>2

LEMMA HvmTyped_Init == ASSUME HvmCheckpointAssumption, HvmInit PROVE HvmTyped
<1>1. LedgerTyped /\ NamesTyped
  BY DEF HvmCheckpointAssumption, HvmInit, LedgerTyped, NamesTyped, Names
<1>2. FilesTyped /\ RequestsTyped
  BY IdleIsTyped, TreesAre DEF HvmInit, FilesTyped, RequestsTyped
<1> QED
  BY <1>1, <1>2 DEF HvmTyped

LEMMA HistoryKept ==
    ASSUME HvmCheckpointAssumption, HvmTyped, HistoryTyped, [HvmNext]_hvmVars
    PROVE  HistoryTyped'
<1>1. names.tmp # 0 => names.tmp \in Files
  BY DEF HvmCheckpointAssumption, HvmTyped, NamesTyped, Names, Files
<1>2. ASSUME NEW r \in Requests, OpenTmp(r) PROVE HistoryTyped'
  <2>1. CASE names.tmp # 0
    BY <1>1, <1>2, <2>1 DEF OpenTmp, HistoryTyped
  <2>2. CASE ~ (names.tmp # 0)
    <3>1. PICK f \in Files : met' = met \ {f} /\ late' = late \ {f}
      BY <1>2, <2>2 DEF OpenTmp
    <3> QED
      BY <3>1 DEF HistoryTyped
  <2> QED
    BY <2>1, <2>2
<1>3. ASSUME NEW r \in Requests, RenameTmp(r) PROVE HistoryTyped'
  <2>1. met' \subseteq met \union {names.tmp} /\ late' \subseteq late \union {names.tmp}
    BY <1>3 DEF RenameTmp
  <2>2. names.tmp = 0 => met' = met /\ late' = late
    BY <1>3 DEF RenameTmp
  <2> QED
    BY <1>1, <2>1, <2>2 DEF HistoryTyped
<1>4. CASE HvmNext
  <2>1. CASE UNCHANGED <<met, late>>
    BY <2>1 DEF HistoryTyped
  <2>2. CASE \E r \in Requests : OpenTmp(r) \/ RenameTmp(r)
    BY <1>2, <1>3, <2>2
  <2> QED
    BY <1>4, <2>1, <2>2 DEF HvmNext, Advance, ReplayLedger, LookForTmp, RemoveTmp, WriteGenesis, SyncGenesis,
       Build, WriteSuperblock, SyncSuperblock, SyncDirectory, Reopen, HvmFails, HvmKill, HvmPowerFails
<1>5. CASE UNCHANGED hvmVars
  BY <1>5 DEF hvmVars, HistoryTyped
<1> QED
  BY <1>4, <1>5

LEMMA HvmTyped_Types == ASSUME HvmTyped, HistoryTyped PROVE HvmTypeOK
<1>1. Names \subseteq [{"tmp", "hbt"} -> 0 .. MaxFiles]
  BY DEF Names
<1>2. namesBack \union {names} \subseteq [{"tmp", "hbt"} -> 0 .. MaxFiles]
  BY <1>1 DEF HvmTyped, NamesTyped
<1>3. \A t \in Trees : t.tree \in {"none", "genesis", "whole", "mixed", "broken"}
  BY DEF Trees, NoPages, Genesis, Mixed, Broken, TreeOf
<1>4. \A f \in Files :
         {content[f].tree, durable[f].tree} \subseteq {"none", "genesis", "whole", "mixed", "broken"}
  BY <1>3 DEF HvmTyped, FilesTyped
<1>5. \A r \in Requests : request[r].file \in 0 .. MaxFiles
  BY DEF HvmTyped, RequestsTyped, RequestRecords
<1> QED
  BY <1>2, <1>4, <1>5 DEF HvmTypeOK, HvmTyped, LedgerTyped, HistoryTyped

\* Every variable of the checkpoint has its type, for any number of requests.
THEOREM HvmTypeCorrect == HvmSpec => []HvmTypeOK
<1>1. HvmInit => HvmTyped /\ HistoryTyped
  BY HvmCheckpointAssumption, HvmTyped_Init DEF HvmInit, HistoryTyped
<1>2. HvmTyped /\ HistoryTyped /\ [HvmNext]_hvmVars => HvmTyped' /\ HistoryTyped'
  BY HvmCheckpointAssumption, HvmNextTyped, HistoryKept
<1>3. HvmTyped /\ HistoryTyped => HvmTypeOK
  BY HvmTyped_Types
<1> QED
  BY <1>1, <1>2, <1>3, PTL DEF HvmSpec

-----------------------------------------------------------------------------
(* What requests rely on: HvmCheckpoint.                                   *)

\* A file that one request had a hand in holds the tree of a version, synced;
\* an older one than v only if it came late.
Good(f, v) ==
    \/ f \in met
    \/ \E w \in Nat : content[f] = TreeOf(w) /\ durable[f] = TreeOf(w) /\ (w >= v \/ f \in late)

\* What any directory of the disk calls hvm.hbt is good.
Checkpoints == \A d \in Directories : IF d.hbt = 0 THEN told = 0 ELSE Good(d.hbt, told)

\* Two requests with the same file have met.
Alone ==
    \A r, s \in Requests :
        r # s /\ request[r].file = request[s].file /\ request[r].file # 0 => request[r].file \in met

\* What a builder's file holds, and what is synced of it, at each step.
OwnTree(q, now, synced) ==
    /\ q.at = "genesis" => now = NoPages
    /\ q.at \in {"genesisSync", "build", "superblock"} => now = Genesis /\ q.base = Genesis
    /\ q.at \in {"superblockSync", "rename"} => now = TreeOf(q.of)
    /\ q.at = "rename" => synced = TreeOf(q.of)

\* A builder works on a file that no directory calls hvm.hbt, and if nobody
\* else had a hand in it, the tree in it is its own.
BuilderInv(r) ==
    /\ request[r].file # 0 <=> request[r].at \in Building
    /\ request[r].file # 0 /\ request[r].file \notin met =>
          /\ OwnTree(request[r], content[request[r].file], durable[request[r].file])
          /\ \A d \in Directories : d.hbt # request[r].file

\* Once a request renamed its file no newer version is replaced without notice;
\* once it synced the directory no older directory may come back.
RenamerInv(r) ==
    LET seen == IF request[r].at = "dirSync" THEN {names} ELSE Directories
    IN request[r].at \in {"dirSync", "reopen"} =>
         \A d \in seen : d.hbt # 0 /\ Good(d.hbt, request[r].of)

HvmInv ==
    /\ HvmTyped /\ HistoryTyped
    /\ Checkpoints /\ Alone
    /\ \A r \in Requests : BuilderInv(r) /\ RenamerInv(r)

LEMMA DirectoriesTyped ==
    ASSUME HvmTyped
    PROVE  \A d \in Directories : d \in Names /\ d.tmp \in 0 .. MaxFiles /\ d.hbt \in 0 .. MaxFiles
  BY DEF HvmTyped, NamesTyped, Directories, Names

LEMMA FileNumbers ==
    ASSUME HvmCheckpointAssumption
    PROVE  \A f \in 0 .. MaxFiles : f # 0 <=> f \in Files
  BY DEF HvmCheckpointAssumption, Files

\* A step that leaves the content of a file, or a file that two had a hand in.
LEMMA GoodStays ==
    ASSUME NEW f, NEW v, Good(f, v),
           f \in met => f \in met', f \in late => f \in late',
           f \in met' \/ (content'[f] = content[f] /\ durable'[f] = durable[f])
    PROVE  Good(f, v)'
  BY DEF Good

\* A step that writes to no file but f, which is nobody's checkpoint unless two
\* had a hand in it, and that adds no directory but the present one.
FileStep(f) ==
    /\ \A g \in Files : g # f =>
          /\ content'[g] = content[g] /\ durable'[g] = durable[g]
          /\ g \in met => g \in met'
          /\ g \in late => g \in late'
    /\ f # 0 /\ f \notin met' => \A d \in Directories : d.hbt # f
    /\ \A d \in Directories' : d \in Directories \/ d = names'

LEMMA OldDirectoriesStay ==
    ASSUME HvmCheckpointAssumption, HvmTyped, NEW f, FileStep(f), NEW d \in Directories, NEW v,
           d.hbt # 0, Good(d.hbt, v)
    PROVE  Good(d.hbt, v)'
<1>1. PICK g : g = d.hbt
  OBVIOUS
<1>2. g \in Files
  BY <1>1, DirectoriesTyped, FileNumbers
<1>3. g # f \/ g \in met'
  BY <1>1 DEF FileStep
<1>4. Good(g, v)'
  <2>1. CASE g \in met'
    BY <2>1 DEF Good
  <2>2. CASE g # f
    BY <1>1, <1>2, <2>2, GoodStays DEF FileStep
  <2> QED
    BY <1>3, <2>1, <2>2
<1> QED
  BY <1>1, <1>4 DEF Good

\* The checkpoints stay good if the present directory is good.
LEMMA CheckpointsStay ==
    ASSUME HvmCheckpointAssumption, HvmTyped, Checkpoints, NEW f, FileStep(f), told' = told,
           \/ names'.hbt = names.hbt
           \/ names'.hbt # 0 /\ Good(names.hbt, told)'
    PROVE  Checkpoints'
<1> SUFFICES ASSUME NEW d \in Directories'
             PROVE  IF d.hbt = 0 THEN told = 0 ELSE Good(d.hbt, told)'
  BY DEF Checkpoints, Good
<1>1. ASSUME NEW e \in Directories, d.hbt = e.hbt
      PROVE  IF d.hbt = 0 THEN told = 0 ELSE Good(d.hbt, told)'
  <2>1. CASE e.hbt = 0
    BY <1>1, <2>1 DEF Checkpoints
  <2>2. CASE e.hbt # 0
    <3>1. Good(e.hbt, told)
      BY <2>2 DEF Checkpoints
    <3>2. PICK v : v = told
      OBVIOUS
    <3>3. Good(e.hbt, v)'
      BY <2>2, <3>1, <3>2, OldDirectoriesStay
    <3> QED
      BY <1>1, <2>2, <3>2, <3>3 DEF Good
  <2> QED
    BY <2>1, <2>2
<1>2. CASE d \in Directories
  BY <1>1, <1>2
<1>3. CASE d = names'
  <2>1. names \in Directories
    BY DEF Directories
  <2> QED
    BY <1>1, <1>3, <2>1 DEF Good
<1> QED
  BY <1>2, <1>3 DEF FileStep

\* A request that does nothing keeps what it relies on, unless the step writes
\* to its file or renames its file without either showing in met.
LEMMA OthersStay ==
    ASSUME HvmCheckpointAssumption, HvmTyped, NEW f, FileStep(f),
           NEW s \in Requests, BuilderInv(s), RenamerInv(s), request'[s] = request[s],
           request[s].file = f /\ f # 0 => f \in met',
           NEW v, v = request[s].of,
           \/ names'.hbt = names.hbt
           \/ /\ names'.hbt # 0
              /\ request[s].file = names'.hbt => names'.hbt \in met'
              /\ request[s].at \in {"dirSync", "reopen"} => Good(names.hbt, v)'
    PROVE  BuilderInv(s)' /\ RenamerInv(s)'
<1>1. PICK q : q = request[s]
  OBVIOUS
<1>2. PICK g : g = q.file
  OBVIOUS
<1>3. q = request'[s] /\ g \in 0 .. MaxFiles
  BY <1>1, <1>2 DEF HvmTyped, RequestsTyped, RequestRecords
<1>4. names \in Directories
  BY DEF Directories
<1>5. BuilderInv(s)'
  <2>1. g # 0 <=> q.at \in Building
    BY <1>1, <1>2 DEF BuilderInv
  <2>2. ASSUME g # 0, g \notin met'
        PROVE  OwnTree(q, content'[g], durable'[g]) /\ \A d \in Directories' : d.hbt # g
    <3>1. g \in Files /\ g # f
      BY <1>1, <1>2, <1>3, <2>2, FileNumbers
    <3>2. g \notin met /\ content'[g] = content[g] /\ durable'[g] = durable[g]
      BY <2>2, <3>1 DEF FileStep
    <3>3. OwnTree(q, content[g], durable[g]) /\ \A d \in Directories : d.hbt # g
      BY <1>1, <1>2, <2>2, <3>2 DEF BuilderInv
    <3>4. names'.hbt # g
      BY <1>1, <1>2, <1>4, <2>2, <3>3
    <3> QED
      BY <3>2, <3>3, <3>4 DEF FileStep
  <2> QED
    BY <1>2, <1>3, <2>1, <2>2 DEF BuilderInv
<1>6. RenamerInv(s)'
  <2> SUFFICES ASSUME q.at \in {"dirSync", "reopen"},
                      NEW d, d \in IF q.at = "dirSync" THEN {names'} ELSE Directories'
               PROVE  d.hbt # 0 /\ Good(d.hbt, v)'
    BY <1>1, <1>3 DEF RenamerInv, Good
  <2>1. ASSUME NEW e \in Directories, e.hbt = d.hbt, q.at = "dirSync" => e = names
        PROVE  d.hbt # 0 /\ Good(d.hbt, v)'
    <3>1. e.hbt # 0 /\ Good(e.hbt, v)
      BY <1>1, <2>1 DEF RenamerInv
    <3>2. Good(e.hbt, v)'
      BY <3>1, OldDirectoriesStay
    <3> QED
      BY <2>1, <3>1, <3>2 DEF Good
  <2>2. CASE d = names'
    <3>1. CASE names'.hbt = names.hbt
      BY <1>4, <2>1, <2>2, <3>1
    <3>2. CASE names'.hbt # 0 /\ Good(names.hbt, v)'
      BY <2>2, <3>2 DEF Good
    <3> QED
      BY <1>1, <3>1, <3>2
  <2>3. CASE d # names'
    BY <2>1, <2>3 DEF FileStep
  <2> QED
    BY <2>2, <2>3
<1> QED
  BY <1>5, <1>6

\* A step of one request: what it relies on afterwards, what the directories
\* then hold, and nobody else's file.
LEMMA StepKeeps ==
    ASSUME HvmCheckpointAssumption, HvmInv, HvmTyped', HistoryTyped', NEW f, FileStep(f),
           NEW r \in Requests, NEW q, request' = [request EXCEPT ![r] = q],
           \A s \in Requests \ {r} : request[s].file = f /\ f # 0 => f \in met',
           \A s \in Requests \ {r} : request[s].file = q.file /\ q.file # 0 => q.file \in met',
           \/ names'.hbt = names.hbt
           \/ /\ names'.hbt # 0
              /\ \A s \in Requests \ {r} :
                    /\ request[s].file = names'.hbt => names'.hbt \in met'
                    /\ request[s].at \in {"dirSync", "reopen"} => Good(names.hbt, request[s].of)',
           Checkpoints', BuilderInv(r)', RenamerInv(r)'
    PROVE  HvmInv'
<1>1. /\ HvmTyped /\ Alone
      /\ \A s \in Requests : BuilderInv(s) /\ RenamerInv(s)
  BY DEF HvmInv
<1>2. request'[r] = q /\ \A s \in Requests \ {r} : request'[s] = request[s]
  BY <1>1 DEF HvmTyped, RequestsTyped
<1>3. ASSUME NEW s \in Requests \ {r} PROVE BuilderInv(s)' /\ RenamerInv(s)'
  <2>1. PICK v : v = request[s].of
    OBVIOUS
  <2>2. request'[s] = request[s] /\ (request[s].file = f /\ f # 0 => f \in met')
    BY <1>2, <1>3
  <2>3. \/ names'.hbt = names.hbt
        \/ /\ names'.hbt # 0
           /\ request[s].file = names'.hbt => names'.hbt \in met'
           /\ request[s].at \in {"dirSync", "reopen"} => Good(names.hbt, v)'
    BY <1>3, <2>1, <2>2 DEF Good
  <2> QED
    BY <1>1, <1>3, <2>1, <2>2, <2>3, OthersStay
<1>4. Alone'
  <2> SUFFICES ASSUME NEW s \in Requests, NEW t \in Requests, s # t, request'[s].file = request'[t].file,
                      request'[s].file # 0
               PROVE  request'[s].file \in met'
    BY DEF Alone
  <2>1. CASE s = r
    BY <1>2, <2>1
  <2>2. CASE t = r
    BY <1>2, <2>2
  <2>3. CASE s # r /\ t # r
    <3>1. PICK g : g = request[s].file
      OBVIOUS
    <3>2. g \in met /\ g \in Files /\ request'[s].file = g
      <4>1. g \in 0 .. MaxFiles /\ request'[s].file = g
        BY <1>1, <1>2, <2>3, <3>1 DEF HvmTyped, RequestsTyped, RequestRecords
      <4> QED
        BY <1>1, <1>2, <2>3, <3>1, <4>1, FileNumbers DEF Alone
    <3>3. CASE g = f
      BY <2>3, <3>1, <3>2, <3>3, FileNumbers DEF Files, HvmCheckpointAssumption
    <3>4. CASE g # f
      BY <3>2, <3>4 DEF FileStep
    <3> QED
      BY <3>3, <3>4
  <2> QED
    BY <2>1, <2>2, <2>3
<1> QED
  BY <1>3, <1>4 DEF HvmInv

\* A request that has no file and renamed none relies on nothing.
LEMMA FreeRequest ==
    ASSUME NEW r, request'[r].file = 0, request'[r].at \in {"idle", "look", "remove", "open"}
    PROVE  BuilderInv(r)' /\ RenamerInv(r)'
  BY DEF BuilderInv, RenamerInv, Building

\* It writes to no file, and the directory is as it was but for hvm.tmp.
LEMMA FreeStep ==
    ASSUME HvmCheckpointAssumption, HvmInv, HvmTyped', HistoryTyped', NEW r \in Requests, NEW q,
           request' = [request EXCEPT ![r] = q], q.file = 0, q.at \in {"idle", "look", "remove", "open"},
           UNCHANGED <<content, durable, told, late>>, met \subseteq met',
           names'.hbt = names.hbt, \A d \in Directories' : d \in Directories \/ d = names'
    PROVE  HvmInv'
<1>1. FileStep(0)
  BY DEF FileStep
<1>2. Checkpoints'
  BY <1>1, CheckpointsStay DEF HvmInv
<1>3. request'[r] = q
  BY DEF HvmInv, HvmTyped, RequestsTyped
<1>4. BuilderInv(r)' /\ RenamerInv(r)'
  BY <1>3, FreeRequest
<1> QED
  BY <1>1, <1>2, <1>4, StepKeeps

LEMMA IdleHasNoFile ==
    ASSUME HvmInv, NEW r \in Requests, request[r].at \notin Building
    PROVE  request[r].file = 0
  BY DEF HvmInv, BuilderInv

LEMMA GivesUpKeeps ==
    ASSUME HvmCheckpointAssumption, HvmInv, HvmTyped', HistoryTyped', NEW r \in Requests, GivesUp(r),
           UNCHANGED <<names, namesBack, content, durable, told, late>>, met \subseteq met'
    PROVE  HvmInv'
<1>1. request' = [request EXCEPT ![r] = IdleRequest] /\ IdleRequest.file = 0 /\ IdleRequest.at = "idle"
  BY DEF GivesUp, IdleRequest
<1>2. Directories' = Directories /\ names'.hbt = names.hbt
  BY DEF Directories
<1> QED
  BY <1>1, <1>2, FreeStep

LEMMA LooksKeep ==
    ASSUME HvmCheckpointAssumption, HvmInv, HvmTyped', HistoryTyped', NEW r \in Requests,
           ReplayLedger(r) \/ LookForTmp(r)
    PROVE  HvmInv'
<1>1. request[r].file = 0
  BY IdleHasNoFile DEF ReplayLedger, LookForTmp, NextStep, Building
<1>2. request[r] \in [at : RequestSteps, of : 0 .. MaxVersions, file : 0 .. MaxFiles, base : Trees]
  BY DEF HvmInv, HvmTyped, RequestsTyped, RequestRecords
<1>3. PICK q : /\ request' = [request EXCEPT ![r] = q]
               /\ q.file = 0 /\ q.at \in {"look", "remove", "open"}
  <2>1. CASE ReplayLedger(r)
    <3>1. PICK q : q = [request[r] EXCEPT !.at = "look", !.of = ledger]
      OBVIOUS
    <3>2. request' = [request EXCEPT ![r] = q]
      BY <2>1, <3>1 DEF ReplayLedger
    <3>3. q.file = 0 /\ q.at = "look"
      BY <1>1, <1>2, <3>1
    <3> QED
      BY <3>2, <3>3
  <2>2. CASE LookForTmp(r)
    <3>1. PICK at \in {"open", "remove"} : Proceeds(r, at)
      BY <2>2 DEF LookForTmp
    <3>2. PICK q : q = [request[r] EXCEPT !.at = at]
      OBVIOUS
    <3>3. request' = [request EXCEPT ![r] = q]
      BY <3>1, <3>2 DEF Proceeds
    <3>4. q.file = 0 /\ q.at = at
      BY <1>1, <1>2, <3>2
    <3> QED
      BY <3>1, <3>3, <3>4
  <2> QED
    BY <2>1, <2>2
<1>4. UNCHANGED <<names, namesBack, content, durable, told, met, late>>
  BY DEF ReplayLedger, LookForTmp
<1>5. Directories' = Directories /\ names'.hbt = names.hbt /\ met \subseteq met'
  BY <1>4 DEF Directories
<1> QED
  BY <1>3, <1>4, <1>5, FreeStep

LEMMA RemoveKeeps ==
    ASSUME HvmCheckpointAssumption, HvmInv, HvmTyped', HistoryTyped', NEW r \in Requests, RemoveTmp(r)
    PROVE  HvmInv'
<1>1. UNCHANGED <<content, durable, told, met, late>>
  BY DEF RemoveTmp
<1>2. CASE names.tmp = 0
  BY <1>1, <1>2, GivesUpKeeps DEF RemoveTmp
<1>3. CASE names.tmp # 0
  <2>1. Renames([names EXCEPT !.tmp = 0]) /\ Proceeds(r, "open")
    BY <1>3 DEF RemoveTmp
  <2>2. names'.hbt = names.hbt /\ \A d \in Directories' : d \in Directories \/ d = names'
    BY <2>1 DEF Renames, Directories, HvmInv, HvmTyped, NamesTyped, Names
  <2>3. request[r].file = 0
    BY IdleHasNoFile DEF RemoveTmp, NextStep, Building
  <2>4. request[r] \in [at : RequestSteps, of : 0 .. MaxVersions, file : 0 .. MaxFiles, base : Trees]
    BY DEF HvmInv, HvmTyped, RequestsTyped, RequestRecords
  <2>5. PICK q : q = [request[r] EXCEPT !.at = "open"]
    OBVIOUS
  <2>6. request' = [request EXCEPT ![r] = q]
    BY <2>1, <2>5 DEF Proceeds
  <2>7. q.file = 0 /\ q.at = "open"
    BY <2>3, <2>4, <2>5
  <2> QED
    BY <1>1, <2>2, <2>6, <2>7, FreeStep
<1> QED
  BY <1>2, <1>3

\* A new file is nobody's checkpoint, and no request has it.
LEMMA CreateKeeps ==
    ASSUME HvmCheckpointAssumption, HvmInv, HvmTyped', HistoryTyped', NEW r \in Requests, OpenTmp(r),
           names.tmp = 0
    PROVE  HvmInv'
<1>0. HvmTyped /\ Checkpoints
  BY DEF HvmInv
<1>1. PICK f \in Files \ InUse :
        /\ Renames([names EXCEPT !.tmp = f])
        /\ content' = [content EXCEPT ![f] = NoPages]
        /\ durable' = [durable EXCEPT ![f] = NoPages]
        /\ request' = [request EXCEPT ![r].at = "genesis", ![r].file = f]
        /\ met' = met \ {f} /\ late' = late \ {f}
  BY DEF OpenTmp
<1>2. f # 0
  BY DEF HvmCheckpointAssumption, Files
<1>3. names'.hbt = names.hbt /\ \A d \in Directories' : d \in Directories \/ d = names'
  BY <1>0, <1>1 DEF Renames, Directories, HvmTyped, NamesTyped, Names
<1>4. \A d \in Directories : d.hbt # f
  <2>1. ASSUME NEW d \in Directories PROVE d.hbt \in InUse
    <3>1. {d.tmp, d.hbt} \in {{e.tmp, e.hbt} : e \in namesBack \union {names}}
      BY DEF Directories
    <3>2. d.hbt \in UNION {{e.tmp, e.hbt} : e \in namesBack \union {names}}
      BY <3>1
    <3> QED
      BY <3>2 DEF InUse
  <2> QED
    BY <1>1, <2>1
<1>5. ASSUME NEW s \in Requests PROVE request[s].file # f
  <2>1. request[s].file \in {request[t].file : t \in Requests}
    OBVIOUS
  <2>2. request[s].file \in InUse
    BY <2>1 DEF InUse
  <2> QED
    BY <1>1, <2>2
<1>6. content'[f] = NoPages /\ \A g \in Files : g # f => content'[g] = content[g] /\ durable'[g] = durable[g]
  BY <1>0, <1>1 DEF HvmTyped, FilesTyped
<1>7. FileStep(f)
  BY <1>1, <1>3, <1>4, <1>6 DEF FileStep
<1>8. Checkpoints'
  BY <1>0, <1>3, <1>7, CheckpointsStay DEF OpenTmp
<1>9. PICK q : q = [request[r] EXCEPT !.at = "genesis", !.file = f]
  OBVIOUS
<1>10. q.at = "genesis" /\ q.file = f
  <2>1. request[r] \in [at : RequestSteps, of : 0 .. MaxVersions, file : 0 .. MaxFiles, base : Trees]
    BY <1>0 DEF HvmTyped, RequestsTyped, RequestRecords
  <2> QED
    BY <1>9, <2>1
<1>11. request' = [request EXCEPT ![r] = q] /\ request'[r] = q
  <2>1. request' = [request EXCEPT ![r] = q]
    BY <1>1, <1>9
  <2> QED
    BY <1>0, <2>1 DEF HvmTyped, RequestsTyped
<1>12. \A d \in Directories' : d.hbt # f
  <2>1. names \in Directories
    BY DEF Directories
  <2> QED
    BY <1>3, <1>4, <2>1
<1>13. BuilderInv(r)' /\ RenamerInv(r)'
  BY <1>2, <1>6, <1>10, <1>11, <1>12 DEF BuilderInv, RenamerInv, Building, OwnTree
<1> QED
  BY <1>3, <1>5, <1>7, <1>8, <1>10, <1>11, <1>13, StepKeeps

\* A file found under the name is one that two had a hand in.
LEMMA FindKeeps ==
    ASSUME HvmCheckpointAssumption, HvmInv, HvmTyped', HistoryTyped', NEW r \in Requests, OpenTmp(r),
           names.tmp # 0
    PROVE  HvmInv'
<1>0. HvmTyped /\ Checkpoints
  BY DEF HvmInv
<1>1. PICK f : f = names.tmp
  OBVIOUS
<1>2. PICK found : found = content[f]
  OBVIOUS
<1>3. /\ met' = met \union {f} /\ UNCHANGED <<names, namesBack, content, durable, told, late>>
      /\ request' = IF found = Broken
                    THEN [request EXCEPT ![r] = IdleRequest]
                    ELSE [request EXCEPT
                             ![r].at = IF found = NoPages THEN "genesis" ELSE "build",
                             ![r].file = f, ![r].base = found]
  BY <1>1, <1>2 DEF OpenTmp
<1>4. CASE found = Broken
  <2>1. GivesUp(r)
    BY <1>3, <1>4 DEF GivesUp
  <2> QED
    BY <1>3, <2>1, GivesUpKeeps
<1>5. CASE found # Broken
  <2>1. PICK at \in {"genesis", "build"} : at = IF found = NoPages THEN "genesis" ELSE "build"
    OBVIOUS
  <2>2. PICK q : q = [request[r] EXCEPT !.at = at, !.file = f, !.base = found]
    OBVIOUS
  <2>3. q.at = at /\ q.file = f
    <3>1. request[r] \in [at : RequestSteps, of : 0 .. MaxVersions, file : 0 .. MaxFiles, base : Trees]
      BY <1>0 DEF HvmTyped, RequestsTyped, RequestRecords
    <3> QED
      BY <2>2, <3>1
  <2>4. request' = [request EXCEPT ![r] = q]
    BY <1>3, <1>5, <2>1, <2>2
  <2>5. request'[r] = q
    BY <1>0, <2>4 DEF HvmTyped, RequestsTyped
  <2>6. FileStep(0) /\ names'.hbt = names.hbt
    BY <1>3 DEF FileStep, Directories
  <2>7. Checkpoints'
    BY <1>0, <1>3, <2>6, CheckpointsStay
  <2>8. BuilderInv(r)' /\ RenamerInv(r)'
    <3>1. f # 0 /\ f \in met'
      BY <1>1, <1>3
    <3>2. request'[r].at \in Building /\ request'[r].at \notin {"dirSync", "reopen"} /\ request'[r].file = f
      BY <2>1, <2>3, <2>5 DEF Building
    <3> QED
      BY <3>1, <3>2 DEF BuilderInv, RenamerInv
  <2> QED
    BY <1>3, <2>3, <2>4, <2>6, <2>7, <2>8, StepKeeps
<1> QED
  BY <1>4, <1>5

\* A builder that writes to its file or syncs it, and goes on.
LEMMA BuildStep ==
    ASSUME HvmCheckpointAssumption, HvmInv, HvmTyped', HistoryTyped', NEW r \in Requests, NEW f,
           f = request[r].file, request[r].at \in Building,
           NEW q, request' = [request EXCEPT ![r] = q], q.at \in Building, q.file = f,
           UNCHANGED <<names, namesBack, told, met, late>>,
           NEW now, content' = [content EXCEPT ![f] = now],
           NEW synced, durable' = [durable EXCEPT ![f] = synced],
           f \notin met => OwnTree(q, now, synced)
    PROVE  HvmInv'
<1>0. HvmTyped /\ Checkpoints /\ Alone /\ BuilderInv(r)
  BY DEF HvmInv
<1>1. f # 0 /\ f \in Files
  <2>1. f # 0 /\ f \in 0 .. MaxFiles
    BY <1>0 DEF BuilderInv, HvmTyped, RequestsTyped, RequestRecords
  <2> QED
    BY <2>1, FileNumbers
<1>2. request'[r] = q /\ content'[f] = now /\ durable'[f] = synced
  BY <1>0, <1>1 DEF HvmTyped, RequestsTyped, FilesTyped
<1>3. f \notin met => \A d \in Directories : d.hbt # f
  BY <1>0, <1>1 DEF BuilderInv
<1>4. Directories' = Directories /\ names'.hbt = names.hbt
  BY DEF Directories
<1>5. FileStep(f)
  BY <1>0, <1>3, <1>4 DEF FileStep, HvmTyped, FilesTyped
<1>6. Checkpoints'
  BY <1>0, <1>4, <1>5, CheckpointsStay
<1>7. \A s \in Requests \ {r} : request[s].file = f => f \in met'
  BY <1>0, <1>1 DEF Alone
<1>8. BuilderInv(r)' /\ RenamerInv(r)'
  BY <1>1, <1>2, <1>3, <1>4 DEF BuilderInv, RenamerInv, Building
<1> QED
  BY <1>4, <1>5, <1>6, <1>7, <1>8, StepKeeps

\* What a builder proceeds with.
LEMMA BuilderGoes ==
    ASSUME HvmInv, NEW r \in Requests, NEW at, Proceeds(r, at)
    PROVE  \E q : /\ request' = [request EXCEPT ![r] = q]
                  /\ q.at = at /\ q.file = request[r].file /\ q.of = request[r].of /\ q.base = request[r].base
<1>1. request[r] \in [at : RequestSteps, of : 0 .. MaxVersions, file : 0 .. MaxFiles, base : Trees]
  BY DEF HvmInv, HvmTyped, RequestsTyped, RequestRecords
<1>2. PICK q : q = [request[r] EXCEPT !.at = at]
  OBVIOUS
<1>3. q.at = at /\ q.file = request[r].file /\ q.of = request[r].of /\ q.base = request[r].base
  BY <1>1, <1>2
<1>4. request' = [request EXCEPT ![r] = q]
  BY <1>2 DEF Proceeds
<1> QED
  BY <1>3, <1>4

LEMMA WritesKeep ==
    ASSUME HvmCheckpointAssumption, HvmInv, HvmTyped', HistoryTyped', NEW r \in Requests,
           WriteGenesis(r) \/ SyncGenesis(r) \/ Build(r) \/ WriteSuperblock(r) \/ SyncSuperblock(r)
    PROVE  HvmInv'
<1>0. HvmTyped /\ Alone /\ BuilderInv(r)
  BY DEF HvmInv
<1>1. PICK f : f = request[r].file
  OBVIOUS
<1>2. request[r].at \in Building /\ UNCHANGED <<names, namesBack, told, met, late>>
  BY DEF WriteGenesis, SyncGenesis, Build, WriteSuperblock, SyncSuperblock, NextStep, Building
<1>3. f # 0 /\ (f \notin met => OwnTree(request[r], content[f], durable[f]))
  BY <1>0, <1>1, <1>2 DEF BuilderInv
<1>4. content = [content EXCEPT ![f] = content[f]] /\ durable = [durable EXCEPT ![f] = durable[f]]
  BY <1>0 DEF HvmTyped, FilesTyped
<1>5. CASE WriteGenesis(r)
  <2>1. PICK q : q = [request[r] EXCEPT !.at = "genesisSync", !.base = Genesis]
    OBVIOUS
  <2>2. q.at = "genesisSync" /\ q.file = f /\ q.base = Genesis
    <3>1. request[r] \in [at : RequestSteps, of : 0 .. MaxVersions, file : 0 .. MaxFiles, base : Trees]
      BY <1>0 DEF HvmTyped, RequestsTyped, RequestRecords
    <3> QED
      BY <1>1, <2>1, <3>1
  <2>3. PICK now : now = IF content[f] = NoPages THEN Genesis ELSE content[f]
    OBVIOUS
  <2>4. /\ request' = [request EXCEPT ![r] = q] /\ content' = [content EXCEPT ![f] = now]
        /\ durable' = [durable EXCEPT ![f] = durable[f]]
    BY <1>1, <1>4, <1>5, <2>1, <2>3 DEF WriteGenesis
  <2>5. f \notin met => OwnTree(q, now, durable[f])
    BY <1>3, <1>5, <2>2, <2>3 DEF OwnTree, WriteGenesis, NextStep
  <2> QED
    BY <1>1, <1>2, <2>2, <2>4, <2>5, BuildStep DEF Building
<1>6. CASE SyncGenesis(r)
  <2>1. PICK q : /\ request' = [request EXCEPT ![r] = q]
                 /\ q.at = "build" /\ q.file = f /\ q.of = request[r].of /\ q.base = request[r].base
    BY <1>1, <1>6, BuilderGoes DEF SyncGenesis
  <2>2. content' = [content EXCEPT ![f] = content[f]] /\ durable' = [durable EXCEPT ![f] = content[f]]
    BY <1>1, <1>4, <1>6 DEF SyncGenesis, SyncFile
  <2>3. f \notin met => OwnTree(q, content[f], content[f])
    BY <1>3, <1>6, <2>1 DEF OwnTree, SyncGenesis, NextStep
  <2> QED
    BY <1>1, <1>2, <2>1, <2>2, <2>3, BuildStep DEF Building
<1>7. CASE Build(r)
  <2>1. PICK q : /\ request' = [request EXCEPT ![r] = q]
                 /\ q.at = "superblock" /\ q.file = f /\ q.of = request[r].of /\ q.base = request[r].base
    BY <1>1, <1>7, BuilderGoes DEF Build
  <2>2. PICK now : now = IF request[r].base = Genesis /\ (\/ content[f] # request[r].base
                                                          \/ \E s \in Requests \ {r} : HasBuilt(s, f))
                         THEN Mixed ELSE content[f]
    OBVIOUS
  <2>3. content' = [content EXCEPT ![f] = now]
    BY <1>1, <1>7, <2>2 DEF Build
  <2>4. durable' = [durable EXCEPT ![f] = content'[f]]
    BY <1>1, <1>7 DEF Build
  <2>5. f \notin met => OwnTree(q, now, content'[f])
    <3>1. f \notin met => \A s \in Requests \ {r} : ~ HasBuilt(s, f)
      BY <1>0, <1>1, <1>3 DEF Alone, HasBuilt
    <3> QED
      BY <1>3, <1>7, <2>1, <2>2, <3>1 DEF OwnTree, Build, NextStep
  <2> QED
    BY <1>1, <1>2, <2>1, <2>3, <2>4, <2>5, BuildStep DEF Building
<1>8. CASE WriteSuperblock(r)
  <2>1. PICK q : /\ request' = [request EXCEPT ![r] = q]
                 /\ q.at = "superblockSync" /\ q.file = f /\ q.of = request[r].of /\ q.base = request[r].base
    BY <1>1, <1>8, BuilderGoes DEF WriteSuperblock
  <2>2. PICK now : now = IF content[f] = Genesis THEN TreeOf(request[r].of) ELSE Mixed
    OBVIOUS
  <2>3. content' = [content EXCEPT ![f] = now] /\ durable' = [durable EXCEPT ![f] = durable[f]]
    BY <1>1, <1>4, <1>8, <2>2 DEF WriteSuperblock
  <2>4. f \notin met => OwnTree(q, now, durable[f])
    BY <1>3, <1>8, <2>1, <2>2 DEF OwnTree, WriteSuperblock, NextStep
  <2> QED
    BY <1>1, <1>2, <2>1, <2>3, <2>4, BuildStep DEF Building
<1>9. CASE SyncSuperblock(r)
  <2>1. PICK q : /\ request' = [request EXCEPT ![r] = q]
                 /\ q.at = "rename" /\ q.file = f /\ q.of = request[r].of /\ q.base = request[r].base
    BY <1>1, <1>9, BuilderGoes DEF SyncSuperblock
  <2>2. content' = [content EXCEPT ![f] = content[f]] /\ durable' = [durable EXCEPT ![f] = content[f]]
    BY <1>1, <1>4, <1>9 DEF SyncSuperblock, SyncFile
  <2>3. f \notin met => OwnTree(q, content[f], content[f])
    BY <1>3, <1>9, <2>1 DEF OwnTree, SyncSuperblock, NextStep
  <2> QED
    BY <1>1, <1>2, <2>1, <2>2, <2>3, BuildStep DEF Building
<1> QED
  BY <1>5, <1>6, <1>7, <1>8, <1>9

\* The name moves to the file of the request, whose tree is synced, or to one
\* that two had a hand in; a newer version is not replaced without notice.
LEMMA RenameKeeps ==
    ASSUME HvmCheckpointAssumption, HvmInv, HvmTyped', HistoryTyped', NEW r \in Requests, RenameTmp(r)
    PROVE  HvmInv'
<1>0. HvmTyped /\ Checkpoints /\ Alone /\ BuilderInv(r)
  BY DEF HvmInv
<1>1. UNCHANGED <<ledger, content, durable, told>>
  BY DEF RenameTmp
<1>2. CASE names.tmp = 0
  BY <1>1, <1>2, GivesUpKeeps DEF RenameTmp
<1>3. CASE names.tmp # 0
  <2>1. PICK f : f = names.tmp
    OBVIOUS
  <2>2. PICK v : v = request[r].of
    OBVIOUS
  <2>3. /\ Renames([tmp |-> 0, hbt |-> f])
        /\ request' = [request EXCEPT ![r].at = "dirSync", ![r].file = 0]
        /\ met' = IF f = request[r].file THEN met ELSE met \union {f}
        /\ late' = IF NewerIsThere(v) THEN late \union {f} ELSE late
    BY <1>3, <2>1, <2>2 DEF RenameTmp
  <2>4. names'.hbt = f /\ f # 0 /\ \A d \in Directories' : d \in Directories \/ d = names'
    BY <1>3, <2>1, <2>3 DEF Renames, Directories
  <2>5. FileStep(0)
    BY <1>1, <2>3, <2>4 DEF FileStep
  <2>6. v \in Nat /\ told \in Nat /\ \A s \in Requests : request[s].of \in Nat
    BY <1>0, <2>2 DEF HvmTyped, RequestsTyped, RequestRecords, LedgerTyped, HvmCheckpointAssumption
  <2>7. f \in met' \/ (content[f] = TreeOf(v) /\ durable[f] = TreeOf(v))
    <3>1. request[r].at = "rename" /\ request[r].at \in Building
      BY DEF RenameTmp, NextStep, Building
    <3> QED
      BY <1>0, <2>2, <2>3, <2>4, <3>1 DEF BuilderInv, OwnTree
  <2>8. ASSUME NEW w \in Nat, f \in late' \/ v >= w PROVE Good(f, w)'
    BY <1>1, <2>6, <2>7, <2>8 DEF Good
  <2>9. f \in late' \/ (v >= told /\ \A s \in Requests :
                          request[s].at \in {"dirSync", "reopen"} => v >= request[s].of)
    BY <2>3, <2>6 DEF NewerIsThere
  <2>10. Checkpoints'
    <3>1. PICK w \in Nat : w = told
      BY <2>6
    <3>2. Good(f, w)'
      BY <2>8, <2>9, <3>1
    <3>3. Good(names.hbt, told)'
      BY <1>1, <2>4, <3>1, <3>2 DEF Good
    <3> QED
      BY <1>0, <1>1, <2>4, <2>5, <3>3, CheckpointsStay
  <2>11. PICK q : q = [request[r] EXCEPT !.at = "dirSync", !.file = 0]
    OBVIOUS
  <2>12. q.at = "dirSync" /\ q.file = 0 /\ q.of = v
    <3>1. request[r] \in [at : RequestSteps, of : 0 .. MaxVersions, file : 0 .. MaxFiles, base : Trees]
      BY <1>0 DEF HvmTyped, RequestsTyped, RequestRecords
    <3> QED
      BY <2>2, <2>11, <3>1
  <2>13. request' = [request EXCEPT ![r] = q] /\ \A s \in Requests : request'[s] = IF s = r THEN q ELSE request[s]
    <3>1. request' = [request EXCEPT ![r] = q]
      BY <2>3, <2>11
    <3> QED
      BY <1>0, <3>1 DEF HvmTyped, RequestsTyped
  <2>14. BuilderInv(r)' /\ RenamerInv(r)'
    <3>1. Good(f, v)'
      BY <2>6, <2>8
    <3>2. BuilderInv(r)'
      BY <2>12, <2>13 DEF BuilderInv, Building
    <3>3. RenamerInv(r)'
      BY <2>4, <2>12, <2>13, <3>1 DEF RenamerInv, Good
    <3> QED
      BY <3>2, <3>3
  <2>15. ASSUME NEW s \in Requests \ {r}
         PROVE  /\ request[s].file = names'.hbt => names'.hbt \in met'
                /\ request[s].at \in {"dirSync", "reopen"} => Good(names.hbt, request[s].of)'
    <3>1. ASSUME request[s].file = f PROVE f \in met'
      <4>1. CASE f = request[r].file
        BY <1>0, <2>3, <2>4, <2>15, <3>1, <4>1 DEF Alone
      <4> QED
        BY <2>3, <4>1
    <3>2. ASSUME request[s].at \in {"dirSync", "reopen"} PROVE Good(names.hbt, request[s].of)'
      <4>1. PICK w \in Nat : w = request[s].of
        BY <2>6
      <4>2. Good(f, w)'
        BY <2>8, <2>9, <3>2, <4>1
      <4> QED
        BY <2>4, <2>13, <2>15, <4>1, <4>2 DEF Good
    <3> QED
      BY <2>4, <3>1, <3>2
  <2> QED
    BY <2>4, <2>5, <2>10, <2>12, <2>13, <2>14, <2>15, StepKeeps
<1> QED
  BY <1>2, <1>3

\* Only the present directory is left.
LEMMA DirectorySyncKeeps ==
    ASSUME HvmCheckpointAssumption, HvmInv, HvmTyped', HistoryTyped', NEW r \in Requests, SyncDirectory(r)
    PROVE  HvmInv'
<1>0. HvmTyped /\ Checkpoints /\ RenamerInv(r)
  BY DEF HvmInv
<1>1. namesBack' = {} /\ UNCHANGED <<names, content, durable, told, met, late>>
  BY DEF SyncDirectory
<1>2. PICK q : /\ request' = [request EXCEPT ![r] = q]
               /\ q.at = "reopen" /\ q.file = request[r].file /\ q.of = request[r].of
  BY BuilderGoes DEF SyncDirectory
<1>3. q.file = 0
  BY <1>2, IdleHasNoFile DEF SyncDirectory, NextStep, Building
<1>4. Directories' = {names} /\ FileStep(0) /\ names'.hbt = names.hbt
  BY <1>1 DEF Directories, FileStep
<1>5. Checkpoints'
  BY <1>0, <1>1, <1>4, CheckpointsStay
<1>6. request'[r] = q
  BY <1>0, <1>2 DEF HvmTyped, RequestsTyped
<1>7. PICK v : v = request[r].of
  OBVIOUS
<1>8. names.hbt # 0 /\ Good(names.hbt, v)
  BY <1>0, <1>7 DEF RenamerInv, SyncDirectory, NextStep
<1>9. Good(names.hbt, v)'
  BY <1>1, <1>8 DEF Good
<1>10. BuilderInv(r)' /\ RenamerInv(r)'
  <2>1. BuilderInv(r)'
    BY <1>2, <1>3, <1>6 DEF BuilderInv, Building
  <2>2. RenamerInv(r)'
    BY <1>1, <1>2, <1>4, <1>6, <1>7, <1>8, <1>9 DEF RenamerInv, Good
  <2> QED
    BY <2>1, <2>2
<1> QED
  BY <1>2, <1>3, <1>4, <1>5, <1>10, StepKeeps

\* Whatever the caller is told is what every directory holds, or a newer one.
LEMMA ReopenKeeps ==
    ASSUME HvmCheckpointAssumption, HvmInv, HvmTyped', HistoryTyped', NEW r \in Requests, Reopen(r)
    PROVE  HvmInv'
<1>0. HvmTyped /\ Checkpoints /\ RenamerInv(r) /\ names \in Directories
  BY DEF HvmInv, Directories
<1>1. PICK f : f = names.hbt
  OBVIOUS
<1>2. UNCHANGED <<ledger, names, namesBack, met, late>> /\ request' = [request EXCEPT ![r] = IdleRequest]
  BY DEF Reopen, GivesUp
<1>3. told' \in {told, request[r].of}
  BY DEF Reopen
<1>4. \A d \in Directories : d.hbt # 0 /\ Good(d.hbt, request[r].of) /\ Good(d.hbt, told)
  <2>1. \A d \in Directories : d.hbt # 0 /\ Good(d.hbt, request[r].of)
    BY <1>0 DEF RenamerInv, Reopen, NextStep
  <2> QED
    BY <1>0, <2>1 DEF Checkpoints
<1>5. f \in met \/ UNCHANGED <<content, durable>>
  <2>1. f \in met \/ \E w \in Nat : content[f] = TreeOf(w)
    BY <1>0, <1>1, <1>4 DEF Good
  <2>2. f \in met \/ content[f] # NoPages
    BY <2>1, TreesAre
  <2> QED
    BY <1>1, <2>2 DEF Reopen
<1>6. \A g \in Files : g # f => content'[g] = content[g] /\ durable'[g] = durable[g]
  BY <1>0, <1>1 DEF Reopen, HvmTyped, FilesTyped
<1>7. Directories' = Directories /\ names'.hbt = names.hbt
  BY <1>2 DEF Directories
<1>8. PICK h : h = IF f \in met THEN f ELSE 0
  OBVIOUS
<1>9. FileStep(h)
  <2>1. CASE f \in met
    BY <1>2, <1>6, <1>7, <1>8, <2>1 DEF FileStep
  <2>2. CASE f \notin met
    BY <1>2, <1>5, <1>7, <1>8, <2>2 DEF FileStep
  <2> QED
    BY <2>1, <2>2
<1>10. Checkpoints'
  <2>1. PICK w : w = told'
    OBVIOUS
  <2>2. ASSUME NEW d \in Directories PROVE d.hbt # 0 /\ Good(d.hbt, w)'
    <3>1. d.hbt # 0 /\ Good(d.hbt, w)
      BY <1>3, <1>4, <2>1
    <3> QED
      BY <1>0, <1>9, <3>1, OldDirectoriesStay
  <2> QED
    BY <1>7, <2>1, <2>2 DEF Checkpoints, Good
<1>11. IdleRequest.file = 0 /\ IdleRequest.at = "idle"
  BY DEF IdleRequest
<1>12. request'[r] = IdleRequest
  BY <1>0, <1>2 DEF HvmTyped, RequestsTyped
<1>13. BuilderInv(r)' /\ RenamerInv(r)'
  BY <1>11, <1>12, FreeRequest
<1>14. h # 0 => h \in met'
  BY <1>2, <1>8
<1> QED
  BY <1>2, <1>7, <1>9, <1>10, <1>11, <1>13, <1>14, StepKeeps

\* When every request ends, only the checkpoints matter.
LEMMA AllEnd ==
    ASSUME HvmTyped', HistoryTyped', NobodyAsks, Checkpoints'
    PROVE  HvmInv'
<1>1. \A r \in Requests : request'[r].file = 0 /\ request'[r].at = "idle"
  BY DEF NobodyAsks, IdleRequest
<1>2. \A r \in Requests : BuilderInv(r)' /\ RenamerInv(r)'
  BY <1>1, FreeRequest
<1>3. Alone'
  BY <1>1 DEF Alone
<1> QED
  BY <1>2, <1>3 DEF HvmInv

LEMMA KillKeeps ==
    ASSUME HvmCheckpointAssumption, HvmInv, HvmTyped', HistoryTyped', HvmKill
    PROVE  HvmInv'
<1>1. UNCHANGED <<names, namesBack, content, durable, told, met, late>> /\ NobodyAsks
  BY DEF HvmKill
<1>2. FileStep(0) /\ names'.hbt = names.hbt
  BY <1>1 DEF FileStep, Directories
<1>3. Checkpoints'
  BY <1>1, <1>2, CheckpointsStay DEF HvmInv
<1> QED
  BY <1>1, <1>3, AllEnd

\* A file is left as it is, as it was synced, or with a broken superblock; a
\* checkpoint is as it was synced.
LEMMA PowerFailureKeeps ==
    ASSUME HvmCheckpointAssumption, HvmInv, HvmTyped', HistoryTyped', HvmPowerFails
    PROVE  HvmInv'
<1>0. HvmTyped /\ Checkpoints
  BY DEF HvmInv
<1>1. names' \in Directories /\ namesBack' = {} /\ UNCHANGED <<told, met, late>> /\ NobodyAsks
  BY DEF HvmPowerFails, Directories
<1>2. \A f \in Files : content'[f] \in LeftOfFile(f) /\ durable'[f] = content'[f]
  BY DEF HvmPowerFails
<1>3. Directories' = {names'}
  BY <1>1 DEF Directories
<1>4. PICK f : f = names'.hbt
  OBVIOUS
<1>5. CASE f = 0
  BY <1>0, <1>1, <1>3, <1>4, <1>5, AllEnd DEF Checkpoints
<1>6. CASE f # 0
  <2>1. f \in Files /\ Good(f, told)
    BY <1>0, <1>1, <1>4, <1>6, DirectoriesTyped, FileNumbers DEF Checkpoints
  <2>2. \A w \in Nat : content[f] = TreeOf(w) /\ durable[f] = TreeOf(w) =>
                        content'[f] = TreeOf(w) /\ durable'[f] = TreeOf(w)
    BY <1>2, <2>1 DEF LeftOfFile
  <2>3. Good(f, told)'
    BY <1>1, <2>1, <2>2, <1>4 DEF Good
  <2>4. Checkpoints'
    BY <1>3, <1>4, <1>6, <2>3 DEF Checkpoints, Good
  <2> QED
    BY <1>1, <2>4, AllEnd
<1> QED
  BY <1>5, <1>6

LEMMA AdvanceKeeps ==
    ASSUME HvmInv, HvmTyped', HistoryTyped', UNCHANGED <<names, namesBack, content, durable, request, told, met, late>>
    PROVE  HvmInv'
<1>1. Checkpoints' /\ Alone'
  BY DEF HvmInv, Checkpoints, Directories, Good, Alone
<1>2. \A r \in Requests : BuilderInv(r)' /\ RenamerInv(r)'
  BY DEF HvmInv, BuilderInv, RenamerInv, Directories, Good
<1> QED
  BY <1>1, <1>2 DEF HvmInv

LEMMA HvmStepKeeps ==
    ASSUME HvmCheckpointAssumption, HvmInv, [HvmNext]_hvmVars
    PROVE  HvmInv'
<1>1. HvmTyped' /\ HistoryTyped'
  BY HvmNextTyped, HistoryKept DEF HvmInv
<1>2. CASE UNCHANGED hvmVars
  BY <1>1, <1>2, AdvanceKeeps DEF hvmVars
<1>3. CASE Advance
  BY <1>1, <1>3, AdvanceKeeps DEF Advance
<1>4. ASSUME NEW r \in Requests, HvmFails(r) PROVE HvmInv'
  BY <1>1, <1>4, GivesUpKeeps DEF HvmFails
<1>5. CASE HvmNext
  BY <1>1, <1>3, <1>4, <1>5, LooksKeep, RemoveKeeps, CreateKeeps, FindKeeps, WritesKeep, RenameKeeps,
     DirectorySyncKeeps, ReopenKeeps, KillKeeps, PowerFailureKeeps DEF HvmNext
<1> QED
  BY <1>2, <1>5

LEMMA HvmBegins == ASSUME HvmCheckpointAssumption, HvmInit PROVE HvmInv
<1>1. HvmTyped /\ HistoryTyped
  BY HvmTyped_Init DEF HvmInit, HistoryTyped
<1>2. Checkpoints
  BY DEF HvmInit, Checkpoints, Directories
<1>3. \A r \in Requests : request[r].file = 0 /\ request[r].at = "idle"
  BY DEF HvmInit, IdleRequest
<1>4. Alone /\ \A r \in Requests : BuilderInv(r) /\ RenamerInv(r)
  BY <1>3 DEF Alone, BuilderInv, RenamerInv, Building
<1> QED
  BY <1>1, <1>2, <1>4 DEF HvmInv

LEMMA WholeFollows == ASSUME HvmInv PROVE CheckpointWhole
<1> SUFFICES ASSUME NEW d \in Directories
             PROVE  IF d.hbt = 0 THEN told = 0
                    ELSE d.hbt \in met \/ \A left \in LeftOfFile(d.hbt) :
                            left.tree = "whole" /\ (left.of >= told \/ d.hbt \in late)
  BY DEF CheckpointWhole, Directories
<1>1. CASE d.hbt = 0
  BY <1>1 DEF HvmInv, Checkpoints
<1>2. CASE d.hbt # 0 /\ d.hbt \notin met
  <2>1. PICK w \in Nat : /\ content[d.hbt] = TreeOf(w) /\ durable[d.hbt] = TreeOf(w)
                         /\ w >= told \/ d.hbt \in late
    BY <1>2 DEF HvmInv, Checkpoints, Good
  <2>2. LeftOfFile(d.hbt) = {TreeOf(w)}
    BY <2>1 DEF LeftOfFile
  <2> QED
    BY <1>2, <2>1, <2>2 DEF TreeOf
<1> QED
  BY <1>1, <1>2

\* At any moment, and after a power failure at that moment, hvm.hbt is the tree
\* of one version of the ledger and no older one than anybody was told is there,
\* however many requests overlap: but for a file that two of them had a hand in,
\* and for an older version that a slow request puts back (hvm_checkpoint,
\* from_map).
THEOREM CheckpointsAreWhole == HvmSpec => []CheckpointWhole
<1>1. HvmInit => HvmInv
  BY HvmCheckpointAssumption, HvmBegins
<1>2. HvmInv /\ [HvmNext]_hvmVars => HvmInv'
  BY HvmCheckpointAssumption, HvmStepKeeps
<1>3. HvmInv => CheckpointWhole
  BY WholeFollows
<1> QED
  BY <1>1, <1>2, <1>3, PTL DEF HvmSpec

-----------------------------------------------------------------------------
(* Side by side.                                                            *)

\* A behaviour of the three is a behaviour of each.
LEMMA PartsBehave == FilesSpec => Spec /\ RaftLogSpec /\ HvmSpec
<1>1. FilesInit => Init /\ RaftLogInit /\ HvmInit
  BY DEF FilesInit
<1>2. [FilesNext]_filesVars => [Next]_vars /\ [RaftLogNext]_raftLogVars /\ [HvmNext]_hvmVars
  BY DEF FilesNext, filesVars
<1> QED
  BY <1>1, <1>2, PTL DEF FilesSpec, Spec, RaftLogSpec, HvmSpec

\* Whichever of the three moves, the state of all keeps its types, provided the
\* unsynced bytes of the consensus log that survive are a prefix.
THEOREM FilesTypes ==
    ASSUME OrderedWriteback = TRUE
    PROVE  FilesSpec => []FilesTypeOK
<1>0. BoundsAssumption /\ RaftLogAssumption /\ OrderedWriteback
  BY BoundsAssumption, RaftLogAssumption
<1>1. RaftLogInit => RaftInv
  BY <1>0, RaftInitHolds
<1>2. RaftInv /\ [RaftLogNext]_raftLogVars => RaftInv'
  BY <1>0, RaftStepKeeps
<1>3. TypeOK /\ RaftInv /\ HvmTypeOK => FilesTypeOK
  BY DEF FilesTypeOK, RaftInv, Typed
<1> QED
  BY <1>1, <1>2, <1>3, PartsBehave, TypeCorrect, HvmTypeCorrect, PTL DEF RaftLogSpec
=============================================================================
