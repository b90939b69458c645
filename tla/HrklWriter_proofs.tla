--------------------------- MODULE HrklWriter_proofs ---------------------------
(***************************************************************************)
(* The safety of the write side of the HRKL v6 log and its refinement of   *)
(* DurableLog, for every number of segments, writes, kills, power failures *)
(* and failing system calls and both fsync policies.                       *)
(***************************************************************************)
EXTENDS HrklWriter, TLAPS, WellFoundedInduction, SequenceTheorems, FiniteSetTheorems

\* What the passing runs assume of the operating system.
Environment == OrderedWriteback /\ ~FsyncLosesPages /\ ~PowerLossExposed

Entries == [first : 0 .. MaxWrites, count : 1 .. MaxWrites]
Recs == UNION {[1 .. n -> 1 .. MaxWrites] : n \in 0 .. MaxWrites}

-----------------------------------------------------------------------------
(* The inductive invariant.  A crash forgets the memory, so what the disk   *)
(* holds must be good by itself, whatever operation was under way.          *)

(* A file whose records are on the disk has its header there; a footer ends *)
(* a file with records and with no garbage; only a sealed file is renamed,  *)
(* and unless a boot took it over, its bytes were on the disk before.       *)
FileOK(f) ==
    /\ f.lost = 0 /\ f.tail # "hole"
    /\ f.durable <= Len(f.recs)
    /\ f.durable > 0 => f.hdr = "durable"
    /\ f.recs # << >> => f.name # "none" /\ f.hdr # "stub" /\ (f.dname # "none" \/ f.adopted)
    /\ f.footer # "none" => f.recs # << >> /\ f.tail = "none"
    /\ f.footer = "durable" => f.durable = Len(f.recs)
    /\ f.dname = "raw" => f.name = "raw"
    /\ f.name = "raw" =>
          f.footer # "none" /\ (f.adopted \/ (f.footer = "durable" /\ f.dname # "none"))

Nameless(f) == f.name = "none" /\ f.dname = "none"

\* The catalogue names the first segments; one more file may follow them.
GoodDisk(fs, m, w) ==
    /\ fs \in [Segs -> File]
    /\ m \in Seq(Entries) /\ Len(m) \in Segs /\ Contiguous(m)
    /\ w \in 0 .. MaxWrites
    /\ \A s \in Segs :
          /\ FileOK(fs[s])
          /\ fs[s].base + Len(fs[s].recs) <= w
          /\ fs[s].footer # "none" => s + 1 \in Segs
          /\ s < Len(m) => /\ fs[s].name = "raw" /\ RangeOf(fs[s]) = m[s + 1]
                           /\ fs[s].adopted \/ OnDisk(fs[s])
          /\ s = Len(m) => Nameless(fs[s]) \/ fs[s].base = LsnAfter(m)
          /\ s > Len(m) => Nameless(fs[s])

LastSeg == Len(hrkm)
Last == files[LastSeg]

\* What was answered is in the files, what was promised is on the disk.
AnswersInv ==
    /\ promised <= LsnAfter(hrkm) + Last.durable
    /\ acked <= LsnAfter(hrkm) + Len(Last.recs)

AtRest == active = None /\ pending = None /\ ~syncError /\ ~degraded /\ ~poisoned

SealPcs == {"footer", "fsync", "rename", "dirsync", "commit"}
CreatePcs == {"create", "header", "hsync"}

\* The memory agrees with the disk and nothing is written after the catalogue.
Blank ==
    /\ manifest = hrkm /\ nextLsn = LsnAfter(hrkm)
    /\ Last.name # "raw" /\ Last.recs = << >>

CreateInv ==
    pc \in CreatePcs =>
        /\ Blank /\ active = None /\ ~degraded /\ target = LastSeg
        /\ pc # "create" => Last.name = "active" /\ Last.base = nextLsn /\ Last.tail = "none"

BootInv ==
    mode = "boot" =>
        /\ AtRest /\ resume = "idle"
        /\ pc \in {"promote", "publish", "tail"} \cup CreatePcs
        /\ pc = "promote" => manifest = hrkm /\ Last.name = "active" /\ Last.footer # "none"
        /\ pc = "publish" => /\ Last.name = "raw" /\ (Last.adopted \/ OnDisk(Last))
                             /\ manifest = Append(hrkm, RangeOf(Last))
        /\ pc = "tail" => /\ manifest = hrkm /\ Last.name # "raw"
                          /\ Last.name = "active" => Last.footer = "none" /\ Last.hdr # "stub"

WriterInv ==
    active # None =>
        /\ active = LastSeg /\ manifest = hrkm /\ ~degraded /\ pending = None
        /\ pc \in {"idle", "write", "wsync", "flush", "seal"}
        /\ Last.name = "active" /\ Last.footer = "none" /\ Last.hdr # "stub"
        /\ Last.dname # "none" \/ Last.adopted
        /\ Last.tail # "none" => poisoned
        /\ ~syncError => nextLsn + (IF pc = "wsync" THEN 1 ELSE 0) = Last.base + Len(Last.recs)
        /\ pc = "wsync" => acked <= nextLsn
        /\ pc = "seal" /\ Last.recs # << >> => active + 1 \in Segs

FreeInv == active = None /\ ~degraded /\ pc \notin SealPcs => Blank

PendingInv ==
    pending # None => pending = LastSeg /\ active = None /\ ~degraded /\ pc \notin SealPcs

SealedSoFar(at, f) ==
    /\ at \in {"footer", "fsync", "rename"} <=> f.name = "active"
    /\ at = "footer" => f.footer = "none"
    /\ at = "fsync" => f.footer # "none"
    /\ at \in {"rename", "dirsync", "commit"} => f.footer = "durable"
    /\ at = "commit" => OnDisk(f)

SealInv ==
    pc \in SealPcs =>
        /\ active = None /\ manifest = hrkm /\ target = LastSeg /\ ~degraded
        /\ Last.recs # << >> /\ nextLsn = Last.base + Len(Last.recs) /\ Last.tail = "none"
        /\ LastSeg + 1 \in Segs
        /\ SealedSoFar(pc, Last)

UpInv ==
    mode = "up" =>
        /\ pc # "idle" => ~syncError
        /\ pc \in {"idle", "write", "wsync", "flush", "seal", "sealed"} \cup SealPcs \cup CreatePcs
        /\ pc = "wsync" => active # None
        /\ WriterInv /\ FreeInv /\ PendingInv /\ SealInv

MemoryOK ==
    /\ manifest \in Seq(Entries) /\ Len(manifest) <= MaxSegs
    /\ active \in Segs \cup {None} /\ pending \in Segs \cup {None}
    /\ target \in Segs \cup {None} /\ nextLsn \in 0 .. MaxWrites
    /\ dirty \in BOOLEAN /\ syncError \in BOOLEAN /\ degraded \in BOOLEAN
    /\ poisoned \in BOOLEAN
    /\ mode \in {"up", "down", "boot"} /\ op \in {"none", "append", "flush", "seal"}
    /\ resume \in {"idle", "write", "flush", "seal"}
    /\ acked \in 0 .. MaxWrites /\ promised \in 0 .. MaxWrites

Spent == [writes : 0 .. MaxWrites, closes : Nat, kills : Nat, powerLosses : Nat, faults : Nat]

IInv ==
    /\ MemoryOK /\ used \in Spent
    /\ GoodDisk(files, hrkm, used.writes)
    /\ AnswersInv
    /\ mode = "down" => AtRest /\ pc = "idle" /\ resume = "idle"
    /\ BootInv /\ UpInv /\ CreateInv

-----------------------------------------------------------------------------
(* The records below a segment.  LogBelow is defined by recursion on the    *)
(* number of the segment; the smallest number for which a claim fails       *)
(* stands in for an induction.                                              *)

\* Every set of natural numbers with a member has a smallest one.
LEMMA SmallestExists ==
    ASSUME NEW T \in SUBSET Nat, T # {}
    PROVE  \E x \in T : \A y \in T : x <= y
<1> DEFINE R == OpToRel(<, Nat)
<1>1. IsWellFoundedOn(R, Nat)
  BY NatLessThanWellFounded
<1>2. PICK x \in T : \A y \in T : ~ (<<y, x>> \in R)
  BY <1>1, WFMin
<1>3. ASSUME NEW y \in T PROVE x <= y
  <2>1. ~ (<<y, x>> \in {p \in Nat \X Nat : p[1] < p[2]})
    BY <1>2 DEF OpToRel
  <2> QED
    BY <2>1
<1> QED
  BY <1>3

\* A set of natural numbers that has 0 and, with a number below a bound, the
\* next one, has every number up to the bound.
LEMMA UpTo ==
    ASSUME NEW T, NEW max \in Nat, 0 \in T,
           \A n \in 0 .. max - 1 : n \in T => n + 1 \in T
    PROVE  0 .. max \subseteq T
<1> DEFINE Missing == {n \in 0 .. max : n \notin T}
<1>1. SUFFICES ASSUME Missing # {} PROVE FALSE
  OBVIOUS
<1>2. Missing \in SUBSET Nat
  OBVIOUS
<1>3. PICK n \in Missing : \A k \in Missing : n <= k
  BY <1>1, <1>2, SmallestExists
<1>4. n - 1 \in 0 .. max - 1 /\ n - 1 \notin Missing
  BY <1>3
<1> QED
  BY <1>3, <1>4

LEMMA LogBelowExists ==
    ASSUME NEW fs
    PROVE  \E g : g = [n \in 0 .. MaxSegs |->
                          IF n = 0 THEN << >> ELSE g[n - 1] \o Content(fs[n - 1])]
<1> DEFINE Builds(k, g) ==
        g = [n \in 0 .. k |-> IF n = 0 THEN << >> ELSE g[n - 1] \o Content(fs[n - 1])]
           T == {k \in Nat : \E g : Builds(k, g)}
<1>1. 0 \in T
  <2> DEFINE g == [n \in 0 .. 0 |-> << >>]
  <2>1. Builds(0, g)
    OBVIOUS
  <2> HIDE DEF Builds
  <2> QED
    BY <2>1
<1>2. ASSUME NEW k \in Nat, k \in T PROVE k + 1 \in T
  <2>1. PICK h : Builds(k, h)
    BY <1>2
  <2>2. \A n \in 0 .. k : h[n] = IF n = 0 THEN << >> ELSE h[n - 1] \o Content(fs[n - 1])
    BY <2>1
  <2> DEFINE g == [n \in 0 .. k + 1 |-> IF n = k + 1 THEN h[k] \o Content(fs[k]) ELSE h[n]]
             gg == [n \in 0 .. k + 1 |->
                       IF n = 0 THEN << >> ELSE g[n - 1] \o Content(fs[n - 1])]
  <2>3. ASSUME NEW n \in 0 .. k + 1 PROVE g[n] = gg[n]
    <3>1. CASE n = k + 1
      <4>1. k \in 0 .. k + 1 /\ k # k + 1 /\ n # 0 /\ n - 1 = k
        BY <3>1
      <4>2. g[n] = h[k] \o Content(fs[k])
        BY <3>1
      <4>3. g[n - 1] = h[k]
        BY <4>1
      <4> HIDE DEF g
      <4> QED
        BY <4>1, <4>2, <4>3
    <3>2. CASE n # k + 1 /\ n # 0
      <4>1. n - 1 \in 0 .. k + 1 /\ n \in 0 .. k /\ n - 1 # k + 1 /\ n # 0
        BY <3>2
      <4>2. g[n] = h[n] /\ g[n - 1] = h[n - 1]
        BY <3>2, <4>1
      <4> HIDE DEF g
      <4>3. gg[n] = g[n - 1] \o Content(fs[n - 1])
        BY <4>1
      <4> QED
        BY <2>2, <4>1, <4>2, <4>3
    <3>3. CASE n = 0
      BY <2>2, <3>3
    <3> QED
      BY <3>1, <3>2, <3>3
  <2>4. g = gg
    BY <2>3
  <2>5. Builds(k + 1, g)
    BY <2>4
  <2> HIDE DEF Builds, g
  <2> QED
    BY <2>5
<1>3. MaxSegs \in T
  <2> HIDE DEF T
  <2>1. MaxSegs \in Nat /\ \A n \in 0 .. MaxSegs - 1 : n \in T => n + 1 \in T
    BY <1>2, ConstantsAssumption
  <2> QED
    BY <1>1, <2>1, UpTo
<1> QED
  BY <1>3

LEMMA LogBelowDef ==
    ASSUME NEW fs
    PROVE  LogBelow(fs) = [n \in 0 .. MaxSegs |->
                              IF n = 0 THEN << >>
                              ELSE LogBelow(fs)[n - 1] \o Content(fs[n - 1])]
<1> DEFINE P(g) == g = [n \in 0 .. MaxSegs |->
                           IF n = 0 THEN << >> ELSE g[n - 1] \o Content(fs[n - 1])]
<1>1. \E g : P(g)
  BY LogBelowExists
<1>2. LogBelow(fs) = CHOOSE g : P(g)
  BY DEF LogBelow
<1> HIDE DEF P
<1>3. P(LogBelow(fs))
  BY <1>1, <1>2
<1> QED
  BY <1>3 DEF P

LEMMA LogBelowStep ==
    ASSUME NEW fs
    PROVE  /\ LogBelow(fs)[0] = << >>
           /\ \A n \in 0 .. MaxSegs - 1 :
                 LogBelow(fs)[n + 1] = LogBelow(fs)[n] \o Content(fs[n])
<1> DEFINE L == LogBelow(fs)
<1>1. L = [n \in 0 .. MaxSegs |-> IF n = 0 THEN << >> ELSE L[n - 1] \o Content(fs[n - 1])]
  BY LogBelowDef
<1> HIDE DEF L
<1>2. L[0] = << >>
  BY <1>1, ConstantsAssumption
<1>3. ASSUME NEW n \in 0 .. MaxSegs - 1 PROVE L[n + 1] = L[n] \o Content(fs[n])
  <2>1. n + 1 \in 0 .. MaxSegs /\ n + 1 # 0 /\ (n + 1) - 1 = n
    BY ConstantsAssumption
  <2>2. L[n + 1] = L[(n + 1) - 1] \o Content(fs[(n + 1) - 1])
    BY <1>1, <2>1
  <2> QED
    BY <2>1, <2>2
<1> QED
  BY <1>2, <1>3 DEF L

\* Files with the same records make the same log.
LEMMA SameLogBelow ==
    ASSUME NEW fs, NEW gs, NEW max \in 0 .. MaxSegs,
           \A s \in Segs : s < max => Content(fs[s]) = Content(gs[s])
    PROVE  LogBelow(fs)[max] = LogBelow(gs)[max]
<1> DEFINE T == {n \in Nat : LogBelow(fs)[n] = LogBelow(gs)[n]}
<1>1. 0 \in T
  BY LogBelowStep
<1>2. ASSUME NEW n \in 0 .. max - 1, n \in T PROVE n + 1 \in T
  <2>1. n \in 0 .. MaxSegs - 1 /\ n \in Segs /\ n < max
    BY ConstantsAssumption DEF Segs
  <2>2. LogBelow(fs)[n + 1] = LogBelow(fs)[n] \o Content(fs[n])
    BY <2>1, LogBelowStep
  <2>3. LogBelow(gs)[n + 1] = LogBelow(gs)[n] \o Content(gs[n])
    BY <2>1, LogBelowStep
  <2>4. LogBelow(fs)[n] = LogBelow(gs)[n] /\ Content(fs[n]) = Content(gs[n])
    BY <1>2, <2>1
  <2>5. LogBelow(fs)[n + 1] = LogBelow(gs)[n + 1] /\ n + 1 \in Nat
    BY <2>1, <2>2, <2>3, <2>4
  <2> QED
    BY <2>5
<1>3. max \in Nat
  BY ConstantsAssumption
<1> HIDE DEF T
<1>4. max \in T
  BY <1>1, <1>2, <1>3, UpTo
<1> QED
  BY <1>4 DEF T

-----------------------------------------------------------------------------
(* Files *)

LEMMA RecsAre ==
    ASSUME NEW r
    PROVE  r \in Recs <=> r \in Seq(1 .. MaxWrites) /\ Len(r) <= MaxWrites
<1>1. ASSUME r \in Recs PROVE r \in Seq(1 .. MaxWrites) /\ Len(r) <= MaxWrites
  <2>1. PICK n \in 0 .. MaxWrites : r \in [1 .. n -> 1 .. MaxWrites]
    BY <1>1 DEF Recs
  <2>2. n \in Nat
    BY ConstantsAssumption
  <2>3. r \in Seq(1 .. MaxWrites)
    BY <2>1, <2>2, SeqDef
  <2>4. Len(r) = n
    BY <2>1, <2>2, <2>3, LenProperties
  <2> QED
    BY <2>3, <2>4
<1>2. ASSUME r \in Seq(1 .. MaxWrites), Len(r) <= MaxWrites PROVE r \in Recs
  <2>1. r \in [1 .. Len(r) -> 1 .. MaxWrites] /\ Len(r) \in 0 .. MaxWrites
    BY <1>2, LenProperties, ConstantsAssumption
  <2> QED
    BY <2>1 DEF Recs
<1> QED
  BY <1>1, <1>2

\* The fields of a file.
LEMMA FileFields ==
    ASSUME NEW f \in File
    PROVE  /\ f.name \in {"none", "active", "raw"} /\ f.dname \in {"none", "active", "raw"}
           /\ f.hdr \in {"stub", "cached", "durable"}
           /\ f.base \in 0 .. MaxWrites /\ f.durable \in 0 .. MaxWrites
           /\ f.lost \in 0 .. MaxWrites
           /\ f.recs \in Seq(1 .. MaxWrites) /\ Len(f.recs) \in 0 .. MaxWrites
           /\ f.footer \in {"none", "cached", "durable"}
           /\ f.tail \in {"none", "torn", "hole"} /\ f.adopted \in BOOLEAN
<1>1. f.recs \in Recs
  BY DEF File, Recs
<1>2. f.recs \in Seq(1 .. MaxWrites) /\ Len(f.recs) \in 0 .. MaxWrites
  BY <1>1, RecsAre, LenProperties
<1> QED
  BY <1>2 DEF File

\* A file with one field replaced is a file.
LEMMA FileWith ==
    ASSUME NEW f \in File
    PROVE  /\ \A x \in {"none", "active", "raw"} :
                 [f EXCEPT !.name = x] \in File /\ [f EXCEPT !.dname = x] \in File
           /\ \A x \in {"stub", "cached", "durable"} : [f EXCEPT !.hdr = x] \in File
           /\ \A x \in 0 .. MaxWrites :
                 [f EXCEPT !.base = x] \in File /\ [f EXCEPT !.durable = x] \in File
           /\ \A x \in {"none", "cached", "durable"} : [f EXCEPT !.footer = x] \in File
           /\ \A x \in {"none", "torn", "hole"} : [f EXCEPT !.tail = x] \in File
           /\ \A x \in BOOLEAN : [f EXCEPT !.adopted = x] \in File
           /\ \A x \in Recs : [f EXCEPT !.recs = x] \in File
  BY DEF File, Recs

LEMMA NoFileOK == NoFile \in File /\ FileOK(NoFile) /\ Nameless(NoFile) /\ NoFile.recs = << >>
<1>1. << >> \in Recs
  <2>1. << >> \in [1 .. 0 -> 1 .. MaxWrites] /\ 0 \in 0 .. MaxWrites
    BY ConstantsAssumption
  <2> QED
    BY <2>1 DEF Recs
<1> QED
  BY <1>1, ConstantsAssumption DEF NoFile, File, Recs, FileOK, Nameless

\* A file that is synced has everything on the disk.
LEMMA SyncedFile ==
    ASSUME NEW f \in File, FileOK(f), f.hdr # "stub" \/ f.recs = << >>
    PROVE  /\ Synced(f) \in File /\ FileOK(Synced(f))
           /\ Synced(f) = [f EXCEPT !.durable = Len(f.recs), !.hdr = "durable",
                                    !.footer = IF f.footer = "none" THEN "none" ELSE "durable"]
<1> DEFINE g == [f EXCEPT !.durable = Len(f.recs), !.hdr = "durable",
                          !.footer = IF f.footer = "none" THEN "none" ELSE "durable"]
<1>1. Synced(f) = g
  BY DEF Synced, FileOK
<1>2. /\ f.recs \in Seq(1 .. MaxWrites) /\ Len(f.recs) \in 0 .. MaxWrites
      /\ f.footer \in {"none", "cached", "durable"}
  BY FileFields
<1>3. g \in File
  BY <1>2 DEF File
<1>4. /\ g.name = f.name /\ g.dname = f.dname /\ g.recs = f.recs /\ g.lost = f.lost
      /\ g.tail = f.tail /\ g.adopted = f.adopted /\ g.durable = Len(f.recs) /\ g.hdr = "durable"
      /\ g.footer = IF f.footer = "none" THEN "none" ELSE "durable"
  BY DEF File
<1> HIDE DEF g
<1>5. FileOK(g)
  BY <1>2, <1>4 DEF FileOK
<1> QED
  BY <1>1, <1>3, <1>5 DEF g

-----------------------------------------------------------------------------
(* The catalogue and the log *)

LEMMA ContiguousMeans ==
    ASSUME NEW m \in Seq(Entries)
    PROVE  Contiguous(m) <=>
              \A i \in 1 .. Len(m) :
                  m[i].first = IF i = 1 THEN 0 ELSE m[i - 1].first + m[i - 1].count
<1>1. DOMAIN m = 1 .. Len(m) /\ Len(m) \in Nat
  BY LenProperties
<1>2. ASSUME NEW i \in 1 .. Len(m)
      PROVE  /\ m[i].count > 0
             /\ LsnAfter(SubSeq(m, 1, i - 1)) =
                   IF i = 1 THEN 0 ELSE m[i - 1].first + m[i - 1].count
  <2> DEFINE before == SubSeq(m, 1, i - 1)
  <2>1. \A j \in 1 .. i - 1 : m[j] \in Entries
    BY <1>1, ElementOfSeq
  <2>2. m[i] \in Entries
    BY ElementOfSeq
  <2>3. /\ before \in Seq(Entries)
        /\ Len(before) = i - 1
        /\ \A j \in 1 .. i - 1 : before[j] = m[j]
    BY <1>1, <2>1, SubSeqProperties
  <2>4. before = << >> <=> i = 1
    BY <2>3, EmptySeq
  <2> HIDE DEF before
  <2>5. LsnAfter(before) = IF i = 1 THEN 0 ELSE m[i - 1].first + m[i - 1].count
    <3>1. CASE i = 1
      BY <2>4, <3>1 DEF LsnAfter
    <3>2. CASE i # 1
      BY <1>1, <2>3, <2>4, <3>2 DEF LsnAfter
    <3> QED
      BY <3>1, <3>2
  <2> QED
    BY SMTT(20), <2>2, <2>5, ConstantsAssumption DEF Entries, before
<1> QED
  BY <1>1, <1>2 DEF Contiguous

LEMMA LsnAfterIs ==
    ASSUME NEW m \in Seq(Entries)
    PROVE  /\ LsnAfter(m) \in Nat
           /\ LsnAfter(m) = IF Len(m) = 0 THEN 0 ELSE m[Len(m)].first + m[Len(m)].count
<1>1. Len(m) \in Nat /\ (m = << >> <=> Len(m) = 0)
  BY LenProperties, EmptySeq
<1>2. Len(m) # 0 => m[Len(m)] \in Entries
  BY <1>1, ElementOfSeq
<1> QED
  BY <1>1, <1>2, ConstantsAssumption DEF LsnAfter, Entries

LEMMA ContiguousAppend ==
    ASSUME NEW m \in Seq(Entries), NEW e \in Entries, Contiguous(m), e.first = LsnAfter(m)
    PROVE  /\ Append(m, e) \in Seq(Entries) /\ Len(Append(m, e)) = Len(m) + 1
           /\ \A i \in 1 .. Len(m) : Append(m, e)[i] = m[i]
           /\ Append(m, e)[Len(m) + 1] = e
           /\ Contiguous(Append(m, e))
           /\ LsnAfter(Append(m, e)) = e.first + e.count
<1> DEFINE n == Append(m, e)
<1>1. /\ n \in Seq(Entries) /\ Len(n) = Len(m) + 1
      /\ \A i \in 1 .. Len(m) : n[i] = m[i]
      /\ n[Len(m) + 1] = e
  BY AppendProperties
<1>2. Len(m) \in Nat
  BY LenProperties
<1> HIDE DEF n
<1>3. ASSUME NEW i \in 1 .. Len(n)
      PROVE  n[i].first = IF i = 1 THEN 0 ELSE n[i - 1].first + n[i - 1].count
  <2>1. CASE i <= Len(m)
    <3>1. i \in 1 .. Len(m) /\ (i # 1 => i - 1 \in 1 .. Len(m))
      BY <1>2, <2>1
    <3> QED
      BY SMTT(20), <1>1, <3>1, ContiguousMeans
  <2>2. CASE i = Len(m) + 1
    <3>1. Len(m) # 0 => i # 1 /\ i - 1 = Len(m) /\ Len(m) \in 1 .. Len(m)
      BY <1>2, <2>2
    <3>2. e.first = IF Len(m) = 0 THEN 0 ELSE m[Len(m)].first + m[Len(m)].count
      BY LsnAfterIs
    <3> QED
      BY <1>1, <1>2, <2>2, <3>1, <3>2
  <2> QED
    BY <1>1, <1>2, <2>1, <2>2
<1>4. Contiguous(n)
  BY <1>1, <1>3, ContiguousMeans
<1>5. LsnAfter(n) = e.first + e.count
  BY <1>1, <1>2, LsnAfterIs
<1> QED
  BY <1>1, <1>4, <1>5 DEF n

LEMMA Joined ==
    \A a, b \in Seq(1 .. MaxWrites) :
        a \o b \in Seq(1 .. MaxWrites) /\ Len(a \o b) = Len(a) + Len(b)
<1> TAKE a, b \in Seq(1 .. MaxWrites)
<1> QED
  BY ConcatProperties

\* The catalogue accounts for all records but those of the segment after it.
LEMMA LogOfDisk ==
    ASSUME NEW fs, NEW m, NEW w, GoodDisk(fs, m, w)
    PROVE  LET log == LogBelow(fs)[MaxSegs]  below == LogBelow(fs)[Len(m)] IN
           /\ below \in Seq(1 .. MaxWrites) /\ Len(below) = LsnAfter(m)
           /\ fs[Len(m)].recs \in Seq(1 .. MaxWrites)
           /\ log = below \o fs[Len(m)].recs
           /\ log \in Seq(1 .. MaxWrites)
           /\ Len(log) = LsnAfter(m) + Len(fs[Len(m)].recs)
<1> DEFINE L == LogBelow(fs)
<1>0. /\ m \in Seq(Entries) /\ Len(m) \in Segs /\ Len(m) \in 0 .. MaxSegs - 1
      /\ MaxSegs \in Nat /\ Contiguous(m) /\ \A s \in Segs : fs[s] \in File
  BY ConstantsAssumption DEF GoodDisk, Segs
<1>1. \A s \in Segs : fs[s].recs \in Seq(1 .. MaxWrites) /\ Content(fs[s]) = fs[s].recs
  BY <1>0, FileFields DEF GoodDisk, FileOK, Content
<1>2. /\ L[0] = << >>
      /\ \A n \in 0 .. MaxSegs - 1 : L[n + 1] = L[n] \o fs[n].recs
  BY <1>1, LogBelowStep DEF Segs
<1> HIDE DEF L
<1>3. L[Len(m)] \in Seq(1 .. MaxWrites) /\ Len(L[Len(m)]) = LsnAfter(m)
  <2> DEFINE end(n) == IF n = 0 THEN 0 ELSE m[n].first + m[n].count
             T == {n \in Nat : L[n] \in Seq(1 .. MaxWrites) /\ Len(L[n]) = end(n)}
  <2>1. 0 \in T
    BY <1>2, EmptySeq
  <2>2. ASSUME NEW n \in 0 .. Len(m) - 1, n \in T PROVE n + 1 \in T
    <3>1. n \in Segs /\ n \in 0 .. MaxSegs - 1 /\ n < Len(m) /\ n + 1 \in 1 .. Len(m)
      BY <1>0 DEF Segs
    <3>2. RangeOf(fs[n]) = m[n + 1]
      BY <3>1 DEF GoodDisk
    <3>3. m[n + 1].count = Len(fs[n].recs)
      BY <3>2 DEF RangeOf
    <3>4. m[n + 1].first = end(n)
      BY <1>0, <3>1, ContiguousMeans
    <3>5. /\ L[n] \in Seq(1 .. MaxWrites) /\ Len(L[n]) = end(n)
          /\ fs[n].recs \in Seq(1 .. MaxWrites) /\ L[n + 1] = L[n] \o fs[n].recs
      BY <1>1, <1>2, <2>2, <3>1
    <3>6. L[n + 1] \in Seq(1 .. MaxWrites) /\ Len(L[n + 1]) = Len(L[n]) + Len(fs[n].recs)
      BY <3>5, Joined
    <3>7. end(n + 1) = m[n + 1].first + m[n + 1].count /\ n + 1 \in Nat
      BY <3>1
    <3> HIDE DEF end
    <3>8. Len(L[n + 1]) = end(n + 1)
      BY <3>3, <3>4, <3>5, <3>6, <3>7
    <3> QED
      BY <3>6, <3>7, <3>8
  <2> HIDE DEF T
  <2>3. Len(m) \in Nat /\ \A n \in 0 .. Len(m) - 1 : n \in T => n + 1 \in T
    BY <1>0, <2>2
  <2>4. Len(m) \in 0 .. Len(m) /\ 0 .. Len(m) \subseteq T
    BY <2>1, <2>3, UpTo
  <2> QED
    BY <1>0, <2>4, LsnAfterIs DEF T
<1>4. L[MaxSegs] = L[Len(m)] \o fs[Len(m)].recs
  <2> DEFINE T == {n \in Nat : L[Len(m) + 1 + n] = L[Len(m) + 1]}
  <2>1. 0 \in T
    BY <1>0
  <2>2. ASSUME NEW n \in 0 .. MaxSegs - Len(m) - 1 - 1, n \in T PROVE n + 1 \in T
    <3> DEFINE s == Len(m) + 1 + n
    <3>1. s \in Segs /\ s \in 0 .. MaxSegs - 1 /\ s > Len(m) /\ s + 1 = Len(m) + 1 + (n + 1)
      BY <1>0 DEF Segs
    <3>2. fs[s].recs = << >>
      BY <3>1 DEF GoodDisk, Nameless, FileOK
    <3>3. L[Len(m) + 1] \in Seq(1 .. MaxWrites)
      BY <1>0, <1>1, <1>2, <1>3, ConcatProperties
    <3>4. L[s + 1] = L[s] \o << >> /\ L[s] = L[Len(m) + 1]
      BY <1>2, <2>2, <3>1, <3>2
    <3>5. L[s + 1] = L[Len(m) + 1]
      BY <3>3, <3>4, ConcatEmptySeq
    <3> QED
      BY <3>1, <3>5
  <2>3. MaxSegs - Len(m) - 1 \in Nat
    BY <1>0
  <2> HIDE DEF T
  <2>4. MaxSegs - Len(m) - 1 \in T
    BY SMTT(20), <2>1, <2>2, <2>3, UpTo
  <2>5. L[MaxSegs] = L[Len(m) + 1]
    BY <1>0, <2>4 DEF T
  <2> QED
    BY <1>0, <1>2, <2>5
<1>5. /\ L[Len(m)] \o fs[Len(m)].recs \in Seq(1 .. MaxWrites)
      /\ Len(L[Len(m)] \o fs[Len(m)].recs) = LsnAfter(m) + Len(fs[Len(m)].recs)
  BY <1>0, <1>1, <1>3, Joined
<1> QED
  BY <1>0, <1>1, <1>3, <1>4, <1>5 DEF L

-----------------------------------------------------------------------------
(* What keeps the disk good *)

\* Names, durability and adoption of files may change; records and bases not.
LEMMA DiskKept ==
    ASSUME NEW fs, NEW m, NEW w, GoodDisk(fs, m, w), NEW gs \in [Segs -> File],
           \A s \in Segs :
              /\ FileOK(gs[s])
              /\ gs[s].base = fs[s].base /\ gs[s].recs = fs[s].recs
              /\ gs[s].footer # "none" => fs[s].footer # "none" \/ s + 1 \in Segs
              /\ s < Len(m) => gs[s].name = "raw" /\ (gs[s].adopted \/ OnDisk(gs[s]))
              /\ s >= Len(m) /\ Nameless(fs[s]) => Nameless(gs[s])
    PROVE  GoodDisk(gs, m, w)
<1>1. \A s \in Segs : RangeOf(gs[s]) = RangeOf(fs[s])
  BY DEF RangeOf
<1>2. Len(m) \in Nat /\ Segs \subseteq Nat
  BY ConstantsAssumption DEF GoodDisk, Segs
<1> QED
  BY <1>1, <1>2 DEF GoodDisk

\* The file after the catalogue may be replaced by a good one.
LEMMA LastReplaced ==
    ASSUME NEW fs, NEW m, NEW w, GoodDisk(fs, m, w), NEW f \in File, FileOK(f),
           NEW v \in 0 .. MaxWrites, w <= v, f.base + Len(f.recs) <= v,
           f.footer # "none" => Len(m) + 1 \in Segs,
           Nameless(f) \/ f.base = LsnAfter(m)
    PROVE  /\ GoodDisk([fs EXCEPT ![Len(m)] = f], m, v)
           /\ [fs EXCEPT ![Len(m)] = f][Len(m)] = f
<1> DEFINE gs == [fs EXCEPT ![Len(m)] = f]
<1>1. /\ fs \in [Segs -> File] /\ Len(m) \in Segs /\ Segs \subseteq Nat /\ w \in Nat
      /\ gs \in [Segs -> File]
      /\ gs[Len(m)] = f /\ \A s \in Segs : s # Len(m) => gs[s] = fs[s]
  BY ConstantsAssumption DEF GoodDisk, Segs
<1>2. ASSUME NEW s \in Segs PROVE fs[s].base + Len(fs[s].recs) \in Nat
  <2>1. fs[s] \in File
    BY <1>1
  <2> QED
    BY SMTT(20), <2>1, FileFields, ConstantsAssumption
<1> HIDE DEF gs
<1>3. ASSUME NEW s \in Segs
      PROVE  /\ FileOK(gs[s])
             /\ gs[s].base + Len(gs[s].recs) <= v
             /\ gs[s].footer # "none" => s + 1 \in Segs
             /\ s < Len(m) => /\ gs[s].name = "raw" /\ RangeOf(gs[s]) = m[s + 1]
                              /\ gs[s].adopted \/ OnDisk(gs[s])
             /\ s = Len(m) => Nameless(gs[s]) \/ gs[s].base = LsnAfter(m)
             /\ s > Len(m) => Nameless(gs[s])
  <2>1. CASE s = Len(m)
    BY <1>1, <2>1
  <2>2. CASE s # Len(m)
    <3>1. fs[s].base + Len(fs[s].recs) <= w
      BY DEF GoodDisk
    <3>2. fs[s].base + Len(fs[s].recs) <= v
      BY <1>1, <1>2, <3>1, ConstantsAssumption
    <3> QED
      BY <1>1, <2>2, <3>2 DEF GoodDisk
  <2> QED
    BY <2>1, <2>2
<1>4. GoodDisk(gs, m, v)
  BY <1>1, <1>3 DEF GoodDisk
<1> QED
  BY <1>1, <1>4 DEF gs

\* A sealed file is catalogued.
LEMMA CatalogueExtended ==
    ASSUME NEW fs, NEW m, NEW w, GoodDisk(fs, m, w),
           fs[Len(m)].name = "raw", fs[Len(m)].adopted \/ OnDisk(fs[Len(m)])
    PROVE  LET n == Append(m, RangeOf(fs[Len(m)])) IN
           /\ GoodDisk(fs, n, w) /\ Len(n) = Len(m) + 1
           /\ LsnAfter(n) = LsnAfter(m) + Len(fs[Len(m)].recs)
           /\ Nameless(fs[Len(n)])
<1> DEFINE f == fs[Len(m)]
           e == RangeOf(f)
           n == Append(m, e)
<1>1. /\ fs \in [Segs -> File] /\ m \in Seq(Entries) /\ Len(m) \in Segs /\ Contiguous(m)
      /\ f \in File /\ FileOK(f) /\ f.base + Len(f.recs) <= w /\ w \in 0 .. MaxWrites
      /\ Segs \subseteq Nat
  BY ConstantsAssumption DEF GoodDisk, Segs
<1>2. f.footer # "none" /\ f.recs # << >> /\ ~Nameless(f)
  BY <1>1 DEF FileOK, Nameless
<1>3. Len(m) + 1 \in Segs /\ f.base = LsnAfter(m)
  BY <1>1, <1>2 DEF GoodDisk
<1>4. f.base \in 0 .. MaxWrites /\ Len(f.recs) \in 1 .. MaxWrites
  BY <1>1, <1>2, FileFields, EmptySeq
<1>5. e \in Entries /\ e.first = f.base /\ e.count = Len(f.recs)
  BY <1>4 DEF RangeOf, Entries
<1>6. /\ n \in Seq(Entries) /\ Len(n) = Len(m) + 1 /\ Contiguous(n)
      /\ \A i \in 1 .. Len(m) : n[i] = m[i]
      /\ n[Len(m) + 1] = e
      /\ LsnAfter(n) = LsnAfter(m) + Len(f.recs)
  BY <1>1, <1>3, <1>5, ContiguousAppend
<1> HIDE DEF n, f, e
<1>7. ASSUME NEW s \in Segs
      PROVE  /\ s < Len(n) => /\ fs[s].name = "raw" /\ RangeOf(fs[s]) = n[s + 1]
                              /\ fs[s].adopted \/ OnDisk(fs[s])
             /\ s >= Len(n) => Nameless(fs[s])
  <2>1. CASE s < Len(m)
    <3>1. s + 1 \in 1 .. Len(m) /\ s < Len(n) /\ n[s + 1] = m[s + 1]
      BY <1>1, <1>6, <2>1
    <3> QED
      BY <1>1, <1>6, <2>1, <3>1 DEF GoodDisk
  <2>2. CASE s = Len(m)
    BY <1>1, <1>6, <2>2 DEF f, e
  <2>3. CASE s > Len(m)
    <3>1. s >= Len(n)
      BY <1>1, <1>6, <2>3
    <3> QED
      BY <1>1, <1>6, <2>3, <3>1 DEF GoodDisk
  <2> QED
    BY <1>1, <2>1, <2>2, <2>3
<1>8. GoodDisk(fs, n, w)
  BY <1>1, <1>3, <1>6, <1>7 DEF GoodDisk
<1>9. Nameless(fs[Len(n)])
  BY <1>1, <1>3, <1>6, <1>7
<1> QED
  BY <1>6, <1>8, <1>9 DEF n, e, f

LEMMA DirSyncedDisk ==
    ASSUME NEW fs, NEW m, NEW w, GoodDisk(fs, m, w)
    PROVE  /\ GoodDisk(DirSynced(fs), m, w)
           /\ DirSynced(fs)[Len(m)] = [fs[Len(m)] EXCEPT !.dname = fs[Len(m)].name]
<1> DEFINE gs == DirSynced(fs)
<1>1. /\ fs \in [Segs -> File] /\ Len(m) \in Segs
      /\ \A s \in Segs : FileOK(fs[s])
  BY DEF GoodDisk
<1>2. \A s \in Segs : gs[s] = [fs[s] EXCEPT !.dname = fs[s].name]
  BY DEF DirSynced
<1>3. gs \in [Segs -> File]
  <2>1. \A s \in Segs : [fs[s] EXCEPT !.dname = fs[s].name] \in File
    BY <1>1, FileFields, FileWith
  <2> QED
    BY <2>1 DEF DirSynced
<1> HIDE DEF gs
<1>4. ASSUME NEW s \in Segs
      PROVE  /\ gs[s].name = fs[s].name /\ gs[s].dname = fs[s].name /\ gs[s].hdr = fs[s].hdr
             /\ gs[s].base = fs[s].base /\ gs[s].recs = fs[s].recs
             /\ gs[s].durable = fs[s].durable /\ gs[s].lost = fs[s].lost
             /\ gs[s].footer = fs[s].footer /\ gs[s].tail = fs[s].tail
             /\ gs[s].adopted = fs[s].adopted
  <2>1. fs[s] \in File /\ gs[s] = [fs[s] EXCEPT !.dname = fs[s].name]
    BY <1>1, <1>2
  <2> QED
    BY <2>1 DEF File
<1>5. \A s \in Segs : FileOK(gs[s])
  BY <1>1, <1>4 DEF FileOK
<1>6. \A s \in Segs : /\ s < Len(m) => gs[s].name = "raw" /\ (gs[s].adopted \/ OnDisk(gs[s]))
                      /\ Nameless(fs[s]) => Nameless(gs[s])
  BY <1>4 DEF GoodDisk, OnDisk, Nameless
<1>7. GoodDisk(gs, m, w)
  BY <1>3, <1>4, <1>5, <1>6, DiskKept
<1> QED
  BY <1>1, <1>2, <1>7 DEF gs

-----------------------------------------------------------------------------
(* What the invariant says of the disk *)

\* What every step may use.
LEMMA DiskFacts ==
    ASSUME IInv
    PROVE  /\ Segs \subseteq Nat /\ None \notin Segs
           /\ LastSeg \in Segs /\ files \in [Segs -> File] /\ hrkm \in Seq(Entries)
           /\ Last \in File /\ FileOK(Last)
           /\ Len(Last.recs) \in Nat /\ Last.durable \in Nat
           /\ Last.recs = << >> <=> Len(Last.recs) = 0
           /\ Last.footer # "none" => LastSeg + 1 \in Segs
           /\ Nameless(Last) \/ Last.base = LsnAfter(hrkm)
           /\ Last.base + Len(Last.recs) <= used.writes
           /\ used.writes \in 0 .. MaxWrites /\ used.writes \in Nat /\ MaxWrites \in Nat
           /\ LsnAfter(hrkm) \in 0 .. MaxWrites /\ LsnAfter(hrkm) \in Nat
           /\ Last.base \in Nat
           /\ LsnAfter(hrkm) + Len(Last.recs) <= used.writes
           /\ \A s \in Segs : s > LastSeg => Nameless(files[s])
           /\ \A s \in Segs : s < LastSeg => files[s].name = "raw"
<1>1. /\ files \in [Segs -> File] /\ hrkm \in Seq(Entries) /\ LastSeg \in Segs
      /\ used.writes \in 0 .. MaxWrites /\ Segs \subseteq Nat /\ None \notin Segs
  BY ConstantsAssumption DEF IInv, GoodDisk, LastSeg, Segs, None
<1>2. /\ Last \in File /\ FileOK(Last)
      /\ Last.footer # "none" => LastSeg + 1 \in Segs
      /\ Nameless(Last) \/ Last.base = LsnAfter(hrkm)
      /\ Last.base + Len(Last.recs) <= used.writes
      /\ \A s \in Segs : s > LastSeg => Nameless(files[s])
      /\ \A s \in Segs : s < LastSeg => files[s].name = "raw"
  BY <1>1 DEF IInv, GoodDisk, LastSeg, Last
<1>3. LsnAfter(hrkm) \in Nat /\ LsnAfter(hrkm) <= used.writes
  <2>1. CASE LastSeg = 0
    BY <1>1, <2>1, LsnAfterIs, ConstantsAssumption DEF LastSeg
  <2>2. CASE LastSeg # 0
    <3>1. LastSeg - 1 \in Segs /\ LastSeg - 1 < LastSeg
      BY <1>1, <2>2, ConstantsAssumption DEF Segs
    <3>2. /\ RangeOf(files[LastSeg - 1]) = hrkm[LastSeg]
          /\ files[LastSeg - 1].base + Len(files[LastSeg - 1].recs) <= used.writes
      BY <1>1, <3>1 DEF IInv, GoodDisk, LastSeg
    <3>3. LsnAfter(hrkm) = hrkm[LastSeg].first + hrkm[LastSeg].count /\ LsnAfter(hrkm) \in Nat
      BY <1>1, <2>2, LsnAfterIs DEF LastSeg
    <3> QED
      BY <3>2, <3>3 DEF RangeOf
  <2> QED
    BY <2>1, <2>2
<1>4. LsnAfter(hrkm) + Len(Last.recs) <= used.writes
  <2>1. CASE Nameless(Last)
    BY <1>2, <1>3, <2>1, EmptySeq DEF Nameless, FileOK
  <2> QED
    BY <1>2, <2>1
<1>5. Len(Last.recs) \in Nat /\ Last.durable \in Nat /\ Last.base \in Nat /\ (Last.recs = << >> <=> Len(Last.recs) = 0)
  BY <1>2, FileFields, EmptySeq, ConstantsAssumption
<1> QED
  BY SMTT(20), <1>1, <1>2, <1>3, <1>4, <1>5, ConstantsAssumption

\* A system call that spends a bound writes no record.
LEMMA SpendKeeps ==
    ASSUME used \in Spent, NEW what \in {"closes", "kills", "powerLosses", "faults"}, NEW bound,
           Spend(what, bound)
    PROVE  used' \in Spent /\ used'.writes = used.writes
  BY DEF Spend, Spent

\* The disk is as it was.
LEMMA DiskSame ==
    ASSUME IInv, UNCHANGED disk, used' \in Spent, used'.writes = used.writes
    PROVE  /\ GoodDisk(files', hrkm', used'.writes)
           /\ LastSeg' = LastSeg /\ Last' = Last
  BY DEF IInv, disk, LastSeg, Last

\* The file after the catalogue may be replaced by a good one.
LEMMA LastReplacedNow ==
    ASSUME IInv, NEW f \in File, FileOK(f), NEW v \in 0 .. MaxWrites, used.writes <= v,
           f.base + Len(f.recs) <= v,
           f.footer # "none" => LastSeg + 1 \in Segs,
           Nameless(f) \/ f.base = LsnAfter(hrkm)
    PROVE  /\ GoodDisk([files EXCEPT ![LastSeg] = f], hrkm, v)
           /\ [files EXCEPT ![LastSeg] = f][LastSeg] = f
<1>1. ASSUME NEW fs, NEW m, NEW w, GoodDisk(fs, m, w), w <= v,
             f.footer # "none" => Len(m) + 1 \in Segs,
             Nameless(f) \/ f.base = LsnAfter(m)
      PROVE  GoodDisk([fs EXCEPT ![Len(m)] = f], m, v) /\ [fs EXCEPT ![Len(m)] = f][Len(m)] = f
  BY <1>1, LastReplaced
<1>2. GoodDisk(files, hrkm, used.writes)
  BY DEF IInv
<1> QED
  BY <1>1, <1>2 DEF LastSeg

\* One system call changed the file after the catalogue.
LEMMA LastChanges ==
    ASSUME IInv, NEW f \in File, FileOK(f),
           files' = [files EXCEPT ![LastSeg] = f], UNCHANGED hrkm,
           used' \in Spent, used'.writes = used.writes,
           f.base + Len(f.recs) <= used.writes,
           f.footer # "none" => LastSeg + 1 \in Segs,
           Nameless(f) \/ f.base = LsnAfter(hrkm)
    PROVE  /\ GoodDisk(files', hrkm', used'.writes) /\ files' \in [Segs -> File]
           /\ LastSeg' = LastSeg /\ Last' = f
<1>1. used.writes \in 0 .. MaxWrites /\ used.writes <= used.writes
  BY DiskFacts, ConstantsAssumption
<1>2. GoodDisk([files EXCEPT ![LastSeg] = f], hrkm, used.writes)
      /\ [files EXCEPT ![LastSeg] = f][LastSeg] = f
  BY <1>1, LastReplacedNow
<1>3. files' \in [Segs -> File]
  BY <1>2 DEF GoodDisk
<1> QED
  BY <1>2, <1>3 DEF LastSeg, Last

-----------------------------------------------------------------------------
(* What one system call does to the file after the catalogue *)

\* A call that fails spends a bound; one that does not spends none.
LEMMA Counted ==
    ASSUME used \in Spent, Fault \/ NoFault
    PROVE  used' \in Spent /\ used'.writes = used.writes
  BY SpendKeeps DEF Fault, NoFault

\* It is removed.
LEMMA LastRemoved ==
    ASSUME IInv, Last.recs = << >>, files' = [files EXCEPT ![LastSeg].name = "none"],
           Last.name = "active" \/ Nameless(Last) \/ Last.name = "none",
           UNCHANGED <<hrkm, used>>
    PROVE  /\ GoodDisk(files', hrkm', used'.writes) /\ LastSeg' = LastSeg
           /\ Last'.name = "none" /\ Last'.recs = << >> /\ Last'.durable = Last.durable
<1> DEFINE f == [Last EXCEPT !.name = "none"]
<1>1. f \in File
  BY DiskFacts, FileWith
<1>2. /\ f.name = "none" /\ f.dname = Last.dname /\ f.recs = Last.recs /\ f.base = Last.base
      /\ f.lost = Last.lost /\ f.tail = Last.tail /\ f.durable = Last.durable /\ f.hdr = Last.hdr
      /\ f.footer = Last.footer /\ f.adopted = Last.adopted
  BY DiskFacts DEF File
<1>3. files' = [files EXCEPT ![LastSeg] = f]
  BY DEF Last
<1> HIDE DEF f
<1>4. FileOK(f) /\ f.footer = "none"
  BY <1>2, DiskFacts DEF FileOK, Nameless
<1>5. Nameless(f) \/ f.base = LsnAfter(hrkm)
  BY <1>2, DiskFacts DEF Nameless
<1>6. used' \in Spent /\ used'.writes = used.writes
  BY DEF IInv
<1>7. f.base + Len(f.recs) <= used.writes
  BY <1>2, DiskFacts
<1> QED
  BY <1>1, <1>2, <1>3, <1>4, <1>5, <1>6, <1>7, LastChanges

\* A write to it was interrupted.
LEMMA LastTorn ==
    ASSUME IInv, Last.footer = "none", Last.name = "active",
           files' = [files EXCEPT ![LastSeg].tail = "torn"],
           UNCHANGED hrkm, used' \in Spent, used'.writes = used.writes
    PROVE  /\ GoodDisk(files', hrkm', used'.writes) /\ LastSeg' = LastSeg
           /\ Last'.name = "active" /\ Last'.dname = Last.dname /\ Last'.recs = Last.recs
           /\ Last'.base = Last.base /\ Last'.durable = Last.durable /\ Last'.hdr = Last.hdr
           /\ Last'.footer = "none" /\ Last'.adopted = Last.adopted
<1> DEFINE f == [Last EXCEPT !.tail = "torn"]
<1>1. f \in File
  BY DiskFacts, FileWith
<1>2. /\ f.name = Last.name /\ f.dname = Last.dname /\ f.recs = Last.recs /\ f.base = Last.base
      /\ f.lost = Last.lost /\ f.tail = "torn" /\ f.durable = Last.durable /\ f.hdr = Last.hdr
      /\ f.footer = Last.footer /\ f.adopted = Last.adopted
  BY DiskFacts DEF File
<1>3. files' = [files EXCEPT ![LastSeg] = f]
  BY DEF Last
<1> HIDE DEF f
<1>4. FileOK(f)
  BY <1>2, DiskFacts DEF FileOK
<1>5. Nameless(f) \/ f.base = LsnAfter(hrkm)
  BY <1>2, DiskFacts DEF Nameless
<1>6. f.base + Len(f.recs) <= used.writes
  BY <1>2, DiskFacts
<1> QED
  BY <1>1, <1>2, <1>3, <1>4, <1>5, <1>6, LastChanges

\* It is synced.
LEMMA LastSynced ==
    ASSUME IInv, Last.hdr # "stub" \/ Last.recs = << >>, Last.name # "none",
           files' = [files EXCEPT ![LastSeg] = Synced(@)],
           UNCHANGED hrkm, used' \in Spent, used'.writes = used.writes
    PROVE  /\ GoodDisk(files', hrkm', used'.writes) /\ LastSeg' = LastSeg
           /\ Last'.name = Last.name /\ Last'.dname = Last.dname /\ Last'.recs = Last.recs
           /\ Last'.base = Last.base /\ Last'.durable = Len(Last.recs) /\ Last'.hdr = "durable"
           /\ Last'.footer = IF Last.footer = "none" THEN "none" ELSE "durable"
           /\ Last'.tail = Last.tail /\ Last'.adopted = Last.adopted
<1> DEFINE f == Synced(Last)
<1>1. /\ f \in File /\ FileOK(f)
      /\ f = [Last EXCEPT !.durable = Len(Last.recs), !.hdr = "durable",
                          !.footer = IF Last.footer = "none" THEN "none" ELSE "durable"]
  BY DiskFacts, SyncedFile
<1>2. /\ f.name = Last.name /\ f.dname = Last.dname /\ f.recs = Last.recs /\ f.base = Last.base
      /\ f.tail = Last.tail /\ f.durable = Len(Last.recs) /\ f.hdr = "durable"
      /\ f.footer = IF Last.footer = "none" THEN "none" ELSE "durable"
      /\ f.adopted = Last.adopted
  BY <1>1, DiskFacts DEF File
<1>3. files' = [files EXCEPT ![LastSeg] = f]
  BY DEF Last
<1> HIDE DEF f
<1>4. Nameless(f) \/ f.base = LsnAfter(hrkm)
  BY <1>2, DiskFacts DEF Nameless
<1>5. f.base + Len(f.recs) <= used.writes /\ (f.footer # "none" => LastSeg + 1 \in Segs)
  BY <1>2, DiskFacts
<1> QED
  BY <1>1, <1>2, <1>3, <1>4, <1>5, LastChanges

\* A failed fsync leaves the file as it was.
LEMMA FsyncFails ==
    ASSUME Environment, IInv, NEW s \in Segs, NEW f \in SyncFailed(files[s]),
           files' = [files EXCEPT ![s] = f]
    PROVE  files' = files
<1>1. f = files[s]
  BY DEF Environment, SyncFailed
<1> QED
  BY <1>1, DiskFacts

-----------------------------------------------------------------------------
(* The invariant, action by action *)

\* An operation takes the mutex, is refused, or goes on without the disk.
LEMMA BeginStep == ASSUME IInv, Begin PROVE IInv'
<1>0. UNCHANGED <<disk, memory, mode, target, resume, answers, used>>
  BY DEF Begin, BeginAppend, BeginFlush, BeginSeal, LockRefused, Lock, vars, control
<1>1. GoodDisk(files', hrkm', used'.writes) /\ LastSeg' = LastSeg /\ Last' = Last
  BY <1>0, DiskSame DEF IInv
<1>2. ASSUME NEW o \in {"append", "flush", "seal"}, NEW first \in {"write", "flush", "seal"},
             Lock(o, first), first = "seal" => MayRoll
      PROVE  IInv'
  BY <1>0, <1>1, <1>2, DiskFacts
     DEF IInv, Lock, MemoryOK, AnswersInv, AtRest, BootInv, UpInv, CreateInv, WriterInv, FreeInv,
         PendingInv, SealInv, SealPcs, CreatePcs, Blank, disk, memory, answers, MayRoll, HasRecords,
         LastSeg, Last
<1>3. CASE LockRefused
  BY <1>3, <1>1 DEF LockRefused, IInv, MemoryOK, AnswersInv, AtRest, BootInv, UpInv, CreateInv, WriterInv, FreeInv,
         PendingInv, SealInv, Blank, disk, memory, answers, control, vars
<1> QED
  BY <1>2, <1>3 DEF Begin, BeginAppend, BeginFlush, BeginSeal

LEMMA RestoreRefusedStep == ASSUME IInv, RestoreRefused PROVE IInv'
<1>1. /\ UNCHANGED <<disk, memory, answers, used>> /\ NeedsActive
      /\ pc' = "idle" /\ op' = "none" /\ UNCHANGED <<mode, target, resume>>
  BY DEF RestoreRefused, Return
<1>2. GoodDisk(files', hrkm', used'.writes) /\ LastSeg' = LastSeg /\ Last' = Last
  BY <1>1, DiskSame DEF IInv
<1> QED
  BY <1>1, <1>2 DEF disk, memory, answers, NeedsActive, IInv, MemoryOK, AnswersInv, BootInv,
     CreateInv, UpInv, WriterInv, FreeInv, PendingInv, SealInv, SealPcs, CreatePcs, AtRest,
     Blank

\* What repor_ativo removes is an empty file.
LEMMA RestoreActiveStep == ASSUME IInv, RestoreActive PROVE IInv'
<1>1. /\ mode = "up" /\ pc \in {"write", "flush", "seal", "sealed"} /\ active = None
      /\ ~degraded /\ pending = LastSeg /\ Blank /\ LastSeg \in Segs
      /\ UNCHANGED <<hrkm, memory, answers>>
  BY DiskFacts DEF RestoreActive, NeedsActive, IInv, UpInv, PendingInv, FreeInv, SealPcs
<1>2. Last.name \in {"none", "active"} /\ Last.recs = << >>
  BY <1>1, DiskFacts, FileFields DEF Blank
<1>3. CASE /\ files' = [files EXCEPT ![pending].name = "none"]
           /\ target' = pending /\ resume' = IF pc = "sealed" THEN "idle" ELSE pc
           /\ pc' = "create" /\ UNCHANGED <<mode, op>> /\ UNCHANGED used
  <2>1. /\ GoodDisk(files', hrkm', used'.writes) /\ LastSeg' = LastSeg
        /\ Last'.name = "none" /\ Last'.recs = << >> /\ Last'.durable = Last.durable
    BY <1>1, <1>2, <1>3, LastRemoved
  <2>2. /\ UNCHANGED memory /\ target' = LastSeg /\ pc' = "create" /\ UNCHANGED <<mode, op>>
        /\ resume' \in {"idle", "write", "flush", "seal"}
    BY <1>1, <1>3
  <2> QED
    BY <1>1, <1>2, <1>3, <2>1, <2>2 DEF memory, answers, IInv, MemoryOK, AnswersInv, BootInv,
       CreateInv, UpInv, WriterInv, FreeInv, PendingInv, SealInv, SealPcs, CreatePcs, AtRest,
       Blank
<1>4. CASE Fault /\ Return /\ UNCHANGED files
  <2>1. GoodDisk(files', hrkm', used'.writes) /\ LastSeg' = LastSeg /\ Last' = Last /\ used' \in Spent
    BY <1>1, <1>4, Counted, DiskSame DEF disk, IInv
  <2> QED
    BY <1>1, <1>4, <2>1 DEF memory, answers, Return, IInv, MemoryOK, AnswersInv, BootInv,
       CreateInv, UpInv, WriterInv, FreeInv, PendingInv, SealInv, SealPcs, CreatePcs, AtRest,
       Blank
<1> QED
  BY <1>3, <1>4 DEF RestoreActive, NoFault

LEMMA CreateNewStep == ASSUME IInv, CreateNew PROVE IInv'
<1>1. /\ pc = "create" /\ Blank /\ active = None /\ ~degraded /\ target = LastSeg
      /\ mode \in {"up", "boot"} /\ UNCHANGED <<hrkm, memory, answers>>
      /\ nextLsn \in 0 .. MaxWrites
  BY DEF CreateNew, IInv, MemoryOK, CreateInv, CreatePcs
<1> DEFINE f == [NoFile EXCEPT !.name = "active", !.dname = Last.dname, !.base = nextLsn]
<1>2. f \in File
  <2>1. [NoFile EXCEPT !.name = "active"] \in File
    BY NoFileOK, FileWith
  <2>2. [[NoFile EXCEPT !.name = "active"] EXCEPT !.dname = Last.dname] \in File
    BY <2>1, DiskFacts, FileWith, FileFields
  <2>3. [[[NoFile EXCEPT !.name = "active"] EXCEPT !.dname = Last.dname] EXCEPT !.base = nextLsn]
        \in File
    BY <1>1, <2>2, FileWith
  <2> QED
    BY <2>3
<1>3. /\ f.name = "active" /\ f.dname = Last.dname /\ f.recs = << >> /\ f.base = nextLsn
      /\ f.lost = 0 /\ f.tail = "none" /\ f.durable = 0 /\ f.hdr = "stub"
      /\ f.footer = "none" /\ f.adopted = FALSE
  BY DEF NoFile
<1>4. CASE files' = [files EXCEPT ![target] = f] /\ Goto("header") /\ NoFault
  <2> HIDE DEF f
  <2>1. FileOK(f) /\ Len(f.recs) = 0 /\ f.base = LsnAfter(hrkm)
    BY <1>1, <1>3, DiskFacts, EmptySeq DEF FileOK, Blank
  <2>2. f.base + Len(f.recs) <= used.writes /\ UNCHANGED <<hrkm, used>> /\ used \in Spent
    BY <1>1, <1>4, <2>1, DiskFacts DEF NoFault, IInv
  <2>3. GoodDisk(files', hrkm', used'.writes) /\ LastSeg' = LastSeg /\ Last' = f
    BY <1>1, <1>2, <1>3, <1>4, <2>1, <2>2, LastChanges
  <2>4. Last.durable = 0
    BY <1>1, DiskFacts, EmptySeq DEF FileOK, Blank
  <2> QED
    BY <1>1, <1>3, <1>4, <2>2, <2>3, <2>4 DEF memory, answers, Goto, IInv, MemoryOK,
       AnswersInv, BootInv, CreateInv, UpInv, WriterInv, FreeInv, PendingInv, SealInv, SealPcs,
       CreatePcs, AtRest, Blank
<1>5. CASE Fault /\ Return /\ UNCHANGED files
  <2>1. GoodDisk(files', hrkm', used'.writes) /\ LastSeg' = LastSeg /\ Last' = Last /\ used' \in Spent
    BY <1>1, <1>5, Counted, DiskSame DEF disk, IInv
  <2> QED
    BY <1>1, <1>5, <2>1 DEF memory, answers, Return, Fault, IInv, MemoryOK, AnswersInv,
       BootInv, CreateInv, UpInv, WriterInv, FreeInv, PendingInv, SealInv, SealPcs, CreatePcs,
       AtRest, Blank
<1> QED
  BY <1>1, <1>4, <1>5 DEF CreateNew, Last

LEMMA WriteHeaderStep == ASSUME IInv, WriteHeader PROVE IInv'
<1>1. /\ pc = "header" /\ Blank /\ active = None /\ ~degraded /\ target = LastSeg
      /\ Last.name = "active" /\ Last.base = nextLsn /\ Last.tail = "none"
      /\ mode \in {"up", "boot"} /\ UNCHANGED <<hrkm, memory, answers>>
  BY DEF WriteHeader, IInv, MemoryOK, CreateInv, CreatePcs
<1> DEFINE f == [Last EXCEPT !.hdr = "cached"]
<1>2. f \in File
  BY DiskFacts, FileWith
<1>3. /\ f.hdr = "cached" /\ f.dname = Last.dname /\ f.recs = Last.recs /\ f.base = Last.base
      /\ f.lost = Last.lost /\ f.tail = Last.tail /\ f.durable = Last.durable /\ f.name = Last.name
      /\ f.footer = Last.footer /\ f.adopted = Last.adopted
  BY DiskFacts DEF File
<1>4. CASE files' = [files EXCEPT ![target].hdr = "cached"] /\ Goto("hsync") /\ NoFault
  <2>1. files' = [files EXCEPT ![LastSeg] = f] /\ UNCHANGED <<hrkm, used>> /\ used \in Spent
    BY <1>1, <1>4 DEF Last, NoFault, IInv
  <2> HIDE DEF f
  <2>2. FileOK(f) /\ f.footer = "none" /\ f.base = LsnAfter(hrkm)
        /\ f.base + Len(f.recs) <= used.writes
    BY <1>1, <1>3, DiskFacts, EmptySeq DEF FileOK, Blank
  <2>3. GoodDisk(files', hrkm', used'.writes) /\ LastSeg' = LastSeg /\ Last' = f
    BY <1>2, <2>1, <2>2, LastChanges
  <2> QED
    BY <1>1, <1>3, <1>4, <2>1, <2>3 DEF memory, answers, Goto, IInv, MemoryOK, AnswersInv,
       BootInv, CreateInv, UpInv, WriterInv, FreeInv, PendingInv, SealInv, SealPcs, CreatePcs,
       AtRest, Blank
<1>5. CASE Fault /\ Return /\ UNCHANGED files
  <2>1. GoodDisk(files', hrkm', used'.writes) /\ LastSeg' = LastSeg /\ Last' = Last /\ used' \in Spent
    BY <1>1, <1>5, Counted, DiskSame DEF disk, IInv
  <2> QED
    BY <1>1, <1>5, <2>1 DEF memory, answers, Return, Fault, IInv, MemoryOK, AnswersInv,
       BootInv, CreateInv, UpInv, WriterInv, FreeInv, PendingInv, SealInv, SealPcs, CreatePcs,
       AtRest, Blank
<1> QED
  BY <1>4, <1>5 DEF WriteHeader

LEMMA SyncHeaderStep == ASSUME IInv, SyncHeader PROVE IInv'
<1>1. /\ pc = "hsync" /\ Blank /\ active = None /\ ~degraded /\ target = LastSeg
      /\ Last.name = "active" /\ Last.base = nextLsn /\ Last.tail = "none" /\ LastSeg \in Segs
      /\ mode \in {"up", "boot"} /\ ~syncError
      /\ resume \in {"idle", "write", "flush", "seal"}
      /\ UNCHANGED <<hrkm, manifest, nextLsn, dirty, syncError, degraded, answers>>
  BY DiskFacts DEF SyncHeader, IInv, MemoryOK, CreateInv, CreatePcs, UpInv, BootInv, AtRest
<1> DEFINE f == [Last EXCEPT !.hdr = "durable"]
           fs == [files EXCEPT ![LastSeg] = f]
<1>2. f \in File
  BY DiskFacts, FileWith
<1>3. /\ f.hdr = "durable" /\ f.dname = Last.dname /\ f.recs = Last.recs /\ f.base = Last.base
      /\ f.lost = Last.lost /\ f.tail = Last.tail /\ f.durable = Last.durable /\ f.name = Last.name
      /\ f.footer = Last.footer /\ f.adopted = Last.adopted
  BY DiskFacts DEF File
<1>4. [files EXCEPT ![target].hdr = "durable"] = fs
  BY <1>1 DEF Last
<1> HIDE DEF f
<1>5. FileOK(f) /\ f.footer = "none" /\ f.base = LsnAfter(hrkm)
      /\ f.base + Len(f.recs) <= used.writes
  BY <1>1, <1>3, DiskFacts DEF FileOK, Blank
<1>6. GoodDisk(fs, hrkm, used.writes) /\ fs[LastSeg] = f
  <2>1. used.writes \in 0 .. MaxWrites /\ used.writes <= used.writes
    BY DiskFacts, ConstantsAssumption
  <2> QED
    BY <1>2, <1>5, <2>1, LastReplacedNow
<1> HIDE DEF fs
<1>7. CASE /\ files' = DirSynced(fs)
           /\ active' = target /\ pending' = None /\ poisoned' = FALSE
           /\ mode' = "up" /\ pc' = resume /\ op' = IF resume = "idle" THEN "none" ELSE op
           /\ UNCHANGED used /\ UNCHANGED <<target, resume>>
  <2> DEFINE g == [f EXCEPT !.dname = f.name]
  <2>1. /\ GoodDisk(files', hrkm', used'.writes) /\ LastSeg' = LastSeg
        /\ Last' = g
    BY <1>1, <1>6, <1>7, DirSyncedDisk DEF LastSeg, Last
  <2>2. /\ g.hdr = "durable" /\ g.dname = "active" /\ g.recs = << >> /\ g.base = nextLsn
        /\ g.tail = Last.tail /\ g.durable = Last.durable /\ g.name = "active"
        /\ g.footer = "none" /\ g.adopted = Last.adopted /\ Last.tail = "none"
    BY <1>1, <1>2, <1>3, <1>5 DEF File, Blank
  <2> HIDE DEF g
  <2> QED
    BY <1>1, <1>7, <2>1, <2>2, DiskFacts DEF answers, IInv, MemoryOK, AnswersInv, BootInv,
       CreateInv, UpInv, WriterInv, FreeInv, PendingInv, SealInv, SealPcs, CreatePcs, AtRest,
       Blank
<1>8. CASE /\ Fault /\ Return
           /\ files' \in {files, fs}
           /\ UNCHANGED <<active, pending, poisoned>>
  <2>1. used' \in Spent /\ used'.writes = used.writes /\ mode = "up"
    BY <1>8, Counted DEF IInv, Fault
  <2>2. GoodDisk(files', hrkm', used'.writes) /\ LastSeg' = LastSeg /\ Last' \in {Last, f}
    BY <1>1, <1>6, <1>8, <2>1 DEF LastSeg, Last, IInv
  <2>3. Last'.recs = Last.recs /\ Last'.durable = Last.durable /\ Last'.name = Last.name
    BY <1>3, <2>2
  <2> QED
    BY <1>1, <1>8, <2>1, <2>2, <2>3 DEF answers, Return, IInv, MemoryOK, AnswersInv, BootInv,
       CreateInv, UpInv, WriterInv, FreeInv, PendingInv, SealInv, SealPcs, CreatePcs, AtRest,
       Blank
<1> QED
  BY <1>1, <1>4, <1>7, <1>8 DEF SyncHeader, NoFault

\* The file a writer writes to.
LEMMA WriterFacts ==
    ASSUME IInv, mode = "up", active # None
    PROVE  /\ active = LastSeg /\ manifest = hrkm /\ ~degraded /\ pending = None
           /\ pc \in {"idle", "write", "wsync", "flush", "seal"}
           /\ Last.name = "active" /\ Last.footer = "none" /\ Last.hdr # "stub"
           /\ Last.dname # "none" \/ Last.adopted
           /\ Last.tail # "none" => poisoned
           /\ Last.base = LsnAfter(hrkm) /\ Last.base \in Nat /\ nextLsn \in Nat
           /\ ~syncError /\ pc # "wsync" => nextLsn = Last.base + Len(Last.recs)
           /\ pc = "wsync" => nextLsn + 1 = Last.base + Len(Last.recs)
           /\ pc # "idle" => ~syncError
           /\ pc = "wsync" => acked <= nextLsn
<1>1. /\ active = LastSeg /\ manifest = hrkm /\ ~degraded /\ pending = None
      /\ pc \in {"idle", "write", "wsync", "flush", "seal"}
      /\ Last.name = "active" /\ Last.footer = "none" /\ Last.hdr # "stub"
      /\ Last.dname # "none" \/ Last.adopted
      /\ Last.tail # "none" => poisoned
      /\ ~syncError => nextLsn + (IF pc = "wsync" THEN 1 ELSE 0) = Last.base + Len(Last.recs)
      /\ pc # "idle" => ~syncError
      /\ pc = "wsync" => acked <= nextLsn
  BY DEF IInv, UpInv, WriterInv
<1>2. nextLsn \in Nat /\ Last.base \in Nat
  BY DiskFacts DEF IInv, MemoryOK
<1>3. Last.base = LsnAfter(hrkm)
  BY <1>1, DiskFacts DEF Nameless
<1>4. pc # "wsync" => nextLsn + 0 = nextLsn
  BY <1>2
<1> QED
  BY <1>1, <1>2, <1>3, <1>4

\* An empty segment is removed.
LEMMA SealEmptyStep == ASSUME IInv, SealEmpty PROVE IInv'
<1>1. /\ mode = "up" /\ pc = "seal" /\ active = LastSeg /\ Last.recs = << >> /\ manifest = hrkm
      /\ ~degraded /\ ~syncError /\ pending = None /\ Last.name = "active" /\ Last.footer = "none"
      /\ nextLsn = Last.base /\ active' = None /\ LastSeg \in Segs
      /\ UNCHANGED <<hrkm, manifest, nextLsn, dirty, syncError, pending, degraded, poisoned, answers>>
  <2>1. mode = "up" /\ pc = "seal" /\ active # None /\ files[active].recs = << >>
    BY DEF SealEmpty
  <2>2. /\ active = LastSeg /\ manifest = hrkm /\ ~degraded /\ ~syncError /\ pending = None
        /\ Last.name = "active" /\ Last.footer = "none" /\ Last.base \in Nat
        /\ nextLsn = Last.base + Len(Last.recs)
    BY <2>1, WriterFacts
  <2>3. Last.recs = << >> /\ Len(Last.recs) = 0 /\ LastSeg \in Segs
    BY <2>1, <2>2, DiskFacts DEF Last
  <2>4. nextLsn = Last.base
    BY <2>2, <2>3
  <2> QED
    BY <2>1, <2>2, <2>3, <2>4 DEF SealEmpty
<1>2. Last.base = LsnAfter(hrkm)
  BY <1>1, DiskFacts DEF Nameless
<1>3. CASE /\ files' = [files EXCEPT ![active].name = "none"]
           /\ target' = active /\ resume' = "idle" /\ pc' = "create"
           /\ UNCHANGED <<mode, op>> /\ UNCHANGED used
  <2>1. /\ GoodDisk(files', hrkm', used'.writes) /\ LastSeg' = LastSeg
        /\ Last'.name = "none" /\ Last'.recs = << >> /\ Last'.durable = Last.durable
    BY <1>1, <1>3, LastRemoved
  <2> QED
    BY <1>1, <1>2, <1>3, <2>1 DEF answers, IInv, MemoryOK, AnswersInv, BootInv, CreateInv,
       UpInv, WriterInv, FreeInv, PendingInv, SealInv, SealPcs, CreatePcs, AtRest, Blank
<1>4. CASE Fault /\ Return /\ UNCHANGED files
  <2>1. GoodDisk(files', hrkm', used'.writes) /\ LastSeg' = LastSeg /\ Last' = Last /\ used' \in Spent
    BY <1>1, <1>4, Counted, DiskSame DEF disk, IInv
  <2> QED
    BY <1>1, <1>2, <1>4, <2>1 DEF answers, Return, IInv, MemoryOK, AnswersInv, BootInv,
       CreateInv, UpInv, WriterInv, FreeInv, PendingInv, SealInv, SealPcs, CreatePcs, AtRest,
       Blank
<1> QED
  BY <1>3, <1>4 DEF SealEmpty, NoFault

LEMMA SealTakeStep == ASSUME IInv, SealTake PROVE IInv'
<1>1. /\ mode = "up" /\ pc = "seal" /\ active = LastSeg /\ Last.recs # << >> /\ LastSeg \in Segs
      /\ UNCHANGED <<disk, used>>
  BY DiskFacts DEF SealTake, HasRecords, Last, IInv, UpInv, WriterInv
<1>2. GoodDisk(files', hrkm', used'.writes) /\ LastSeg' = LastSeg /\ Last' = Last
  BY <1>1, DiskSame DEF IInv
<1> QED
  BY SMTT(20), <1>1, <1>2, DiskFacts DEF SealTake, disk, answers, SealedSoFar, IInv, MemoryOK, AnswersInv, BootInv,
     CreateInv, UpInv, WriterInv, FreeInv, PendingInv, SealInv, SealPcs, CreatePcs, AtRest,
     Blank

\* No answer is given, and no record is lost.
LEMMA AnswersKept ==
    ASSUME IInv, UNCHANGED <<acked, promised>>,
           LsnAfter(hrkm') \in Nat, Last'.durable \in Nat, Len(Last'.recs) \in Nat,
           LsnAfter(hrkm') + Last'.durable >= LsnAfter(hrkm) + Last.durable,
           LsnAfter(hrkm') + Len(Last'.recs) >= LsnAfter(hrkm) + Len(Last.recs)
    PROVE  AnswersInv'
<1>1. /\ acked \in Nat /\ promised \in Nat
      /\ promised <= LsnAfter(hrkm) + Last.durable
      /\ acked <= LsnAfter(hrkm) + Len(Last.recs)
  BY ConstantsAssumption DEF IInv, MemoryOK, AnswersInv
<1>2. LsnAfter(hrkm) \in Nat /\ Last.durable \in Nat /\ Len(Last.recs) \in Nat
  BY DiskFacts, ConstantsAssumption
<1>3. promised <= LsnAfter(hrkm') + Last'.durable /\ acked <= LsnAfter(hrkm') + Len(Last'.recs)
  BY SMTT(20), <1>1, <1>2
<1> QED
  BY <1>3 DEF AnswersInv

\* The file after the catalogue joined it, and nothing follows.
LEMMA AnswersPublished ==
    ASSUME IInv, UNCHANGED <<acked, promised>>,
           LsnAfter(hrkm') = LsnAfter(hrkm) + Len(Last.recs),
           Last'.durable \in Nat, Len(Last'.recs) = 0
    PROVE  AnswersInv'
<1> DEFINE a == LsnAfter(hrkm)  l == Len(Last.recs)  d == Last.durable
           aa == LsnAfter(hrkm')  ll == Len(Last'.recs)  dd == Last'.durable
<1>1. a \in Nat /\ l \in Nat /\ d \in Nat
  BY DiskFacts
<1>2. d <= l
  BY DiskFacts DEF FileOK
<1>3. aa = a + l /\ ll = 0 /\ dd \in Nat
  OBVIOUS
<1> HIDE DEF a, l, d, aa, ll, dd
<1>4. aa \in Nat /\ ll \in Nat /\ aa + dd >= a + d /\ aa + ll >= a + l
  BY <1>1, <1>2, <1>3
<1> QED
  BY <1>3, <1>4, AnswersKept DEF a, l, d, aa, ll, dd

\* A seal that fails degrades the engine.
LEMMA SealFailsStep ==
    ASSUME IInv, mode = "up", pc \in SealPcs, SealFails, UNCHANGED hrkm,
           GoodDisk(files', hrkm', used'.writes), LastSeg' = LastSeg,
           Last'.recs = Last.recs, Last'.durable = Last.durable
    PROVE  IInv'
<1>1. used' \in Spent
  BY Counted DEF SealFails, IInv
<1> QED
  BY <1>1 DEF SealFails, Return, answers, IInv, MemoryOK, AnswersInv, BootInv, CreateInv,
     UpInv, WriterInv, FreeInv, PendingInv, SealInv, SealPcs, CreatePcs, AtRest, Blank

\* The operation goes on with the next system call of the seal.
LEMMA SealGoesOn ==
    ASSUME IInv, mode = "up", pc \in SealPcs, NEW next \in SealPcs, Goto(next), NoFault,
           UNCHANGED <<hrkm, memory, answers>>,
           GoodDisk(files', hrkm', used'.writes), LastSeg' = LastSeg,
           Last'.recs = Last.recs, Last'.base = Last.base, Last'.tail = "none",
           Last'.durable >= Last.durable, Last'.durable \in Nat,
           SealedSoFar(next, Last')
    PROVE  IInv'
<1>1. /\ pc' = next /\ UNCHANGED <<mode, op, target, resume, used>>
      /\ UNCHANGED <<hrkm, memory, answers>> /\ Last'.recs # << >>
      /\ active = None /\ manifest = hrkm /\ target = LastSeg /\ ~degraded /\ pending = None
      /\ nextLsn = Last.base + Len(Last.recs) /\ LastSeg + 1 \in Segs /\ ~syncError
  BY DEF Goto, NoFault, IInv, UpInv, SealInv, PendingInv, SealPcs
<1>2. AnswersInv'
  <2>1. /\ LsnAfter(hrkm) \in Nat /\ Len(Last.recs) \in Nat /\ Last.durable \in Nat
        /\ UNCHANGED <<acked, promised>>
        /\ LsnAfter(hrkm') = LsnAfter(hrkm) /\ Len(Last'.recs) = Len(Last.recs)
    BY <1>1, DiskFacts, ConstantsAssumption DEF answers
  <2>2. LsnAfter(hrkm) + Last'.durable >= LsnAfter(hrkm) + Last.durable
    BY <2>1
  <2> QED
    BY <2>1, <2>2, AnswersKept
<1>3. UpInv' /\ BootInv' /\ CreateInv'
  BY <1>1 DEF memory, UpInv, BootInv, CreateInv, WriterInv, FreeInv, PendingInv, SealInv,
              SealPcs, CreatePcs
<1>4. MemoryOK'
  BY <1>1 DEF memory, answers, IInv, MemoryOK
<1> QED
  BY <1>1, <1>2, <1>3, <1>4 DEF IInv

LEMMA WriteFooterStep == ASSUME IInv, mode = "up", WriteFooter PROVE IInv'
<1>1. /\ pc = "footer" /\ target = LastSeg /\ Last.recs # << >> /\ Last.tail = "none"
      /\ Last.name = "active" /\ Last.footer = "none" /\ LastSeg + 1 \in Segs
      /\ UNCHANGED hrkm /\ pc \in SealPcs
  BY DEF WriteFooter, SealStep, IInv, UpInv, SealInv, SealPcs, SealedSoFar
<1>2. CASE /\ files' = [files EXCEPT ![target].footer = "cached"] /\ Goto("fsync") /\ NoFault
           /\ UNCHANGED <<memory, answers>>
  <2> DEFINE f == [Last EXCEPT !.footer = "cached"]
  <2>1. f \in File
    BY DiskFacts, FileWith
  <2>2. /\ f.hdr = Last.hdr /\ f.dname = Last.dname /\ f.recs = Last.recs /\ f.base = Last.base
        /\ f.lost = Last.lost /\ f.tail = "none" /\ f.durable = Last.durable
        /\ f.name = "active" /\ f.footer = "cached" /\ f.adopted = Last.adopted
    BY <1>1, DiskFacts DEF File
  <2>3. files' = [files EXCEPT ![LastSeg] = f] /\ UNCHANGED <<hrkm, used>> /\ used \in Spent
    BY <1>1, <1>2 DEF Last, NoFault, IInv
  <2> HIDE DEF f
  <2>4. FileOK(f) /\ f.base + Len(f.recs) <= used.writes
        /\ (Nameless(f) \/ f.base = LsnAfter(hrkm))
    BY <1>1, <2>2, DiskFacts DEF FileOK, Nameless
  <2>5. GoodDisk(files', hrkm', used'.writes) /\ LastSeg' = LastSeg /\ Last' = f
    BY <1>1, <2>1, <2>3, <2>4, LastChanges
  <2>6. "fsync" \in SealPcs /\ SealedSoFar("fsync", Last')
    BY <2>2, <2>5 DEF SealPcs, SealedSoFar
  <2>7. /\ Last'.recs = Last.recs /\ Last'.base = Last.base /\ Last'.tail = "none"
        /\ Last'.durable >= Last.durable /\ Last'.durable \in Nat
    BY <2>2, <2>5, DiskFacts
  <2> QED
    BY <1>1, <1>2, <2>3, <2>5, <2>6, <2>7, SealGoesOn
<1>3. CASE SealFails /\ files' \in {files, [files EXCEPT ![target].tail = "torn"]}
  <2>1. used' \in Spent /\ used'.writes = used.writes
    BY <1>3, Counted DEF SealFails, IInv
  <2>2. /\ GoodDisk(files', hrkm', used'.writes) /\ LastSeg' = LastSeg
        /\ Last'.recs = Last.recs /\ Last'.durable = Last.durable
    <3>1. CASE files' = files
      BY <1>1, <2>1, <3>1, DiskSame DEF disk
    <3>2. CASE files' = [files EXCEPT ![target].tail = "torn"]
      BY <1>1, <2>1, <3>2, LastTorn
    <3> QED
      BY <1>3, <3>1, <3>2
  <2> QED
    BY <1>1, <1>3, <2>2, SealFailsStep
<1> QED
  BY <1>2, <1>3 DEF WriteFooter, SealStep

LEMMA SyncFooterStep == ASSUME Environment, IInv, mode = "up", SyncFooter PROVE IInv'
<1>1. /\ pc = "fsync" /\ target = LastSeg /\ Last.recs # << >> /\ Last.tail = "none"
      /\ Last.name = "active" /\ Last.footer # "none" /\ LastSeg \in Segs
      /\ UNCHANGED hrkm /\ pc \in SealPcs /\ used \in Spent
  BY DiskFacts DEF SyncFooter, SealStep, IInv, UpInv, SealInv, SealPcs, SealedSoFar
<1>2. CASE /\ files' = [files EXCEPT ![target] = Synced(@)] /\ Goto("rename") /\ NoFault
           /\ UNCHANGED <<memory, answers>>
  <2>1. Last.hdr # "stub" /\ files' = [files EXCEPT ![LastSeg] = Synced(@)] /\ UNCHANGED used
    BY <1>1, <1>2, DiskFacts DEF FileOK, NoFault
  <2>2. /\ GoodDisk(files', hrkm', used'.writes) /\ LastSeg' = LastSeg
        /\ Last'.name = Last.name /\ Last'.recs = Last.recs
        /\ Last'.base = Last.base /\ Last'.durable = Len(Last.recs)
        /\ Last'.footer = "durable" /\ Last'.tail = Last.tail
    BY <1>1, <2>1, LastSynced
  <2>3. /\ "rename" \in SealPcs /\ Last'.durable >= Last.durable /\ Last'.durable \in Nat
        /\ SealedSoFar("rename", Last')
    BY <1>1, <2>2, DiskFacts DEF SealPcs, FileOK, SealedSoFar
  <2> QED
    BY <1>1, <1>2, <2>2, <2>3, SealGoesOn
<1>3. CASE /\ SealFails
           /\ files' \in {[files EXCEPT ![target] = f] : f \in SyncFailed(files[target])}
  <2>1. used' \in Spent /\ used'.writes = used.writes /\ UNCHANGED disk
    BY <1>1, <1>3, Counted, FsyncFails DEF SealFails, disk
  <2> QED
    BY <1>1, <1>3, <2>1, DiskSame, SealFailsStep
<1> QED
  BY <1>2, <1>3 DEF SyncFooter, SealStep

LEMMA RenameSealedStep == ASSUME IInv, mode = "up", RenameSealed PROVE IInv'
<1>1. /\ pc = "rename" /\ target = LastSeg /\ Last.recs # << >> /\ Last.tail = "none"
      /\ Last.name = "active" /\ Last.footer = "durable" /\ LastSeg + 1 \in Segs
      /\ UNCHANGED hrkm /\ pc \in SealPcs /\ used \in Spent
  BY DEF RenameSealed, SealStep, IInv, UpInv, SealInv, SealPcs, SealedSoFar
<1>2. CASE /\ files' = [files EXCEPT ![target].name = "raw"] /\ Goto("dirsync") /\ NoFault
           /\ UNCHANGED <<memory, answers>>
  <2> DEFINE f == [Last EXCEPT !.name = "raw"]
  <2>1. f \in File
    BY DiskFacts, FileWith
  <2>2. /\ f.hdr = Last.hdr /\ f.dname = Last.dname /\ f.recs = Last.recs /\ f.base = Last.base
        /\ f.lost = Last.lost /\ f.tail = "none" /\ f.durable = Last.durable
        /\ f.name = "raw" /\ f.footer = "durable" /\ f.adopted = Last.adopted
    BY <1>1, DiskFacts DEF File
  <2>3. files' = [files EXCEPT ![LastSeg] = f] /\ UNCHANGED <<hrkm, used>> /\ used \in Spent
    BY <1>1, <1>2 DEF Last, NoFault
  <2> HIDE DEF f
  <2>4. FileOK(f) /\ f.base + Len(f.recs) <= used.writes
        /\ (Nameless(f) \/ f.base = LsnAfter(hrkm))
    BY <1>1, <2>2, DiskFacts DEF FileOK, Nameless
  <2>5. GoodDisk(files', hrkm', used'.writes) /\ LastSeg' = LastSeg /\ Last' = f
    BY <1>1, <2>1, <2>3, <2>4, LastChanges
  <2>6. "dirsync" \in SealPcs /\ SealedSoFar("dirsync", Last')
    BY <2>2, <2>5 DEF SealPcs, SealedSoFar
  <2>7. /\ Last'.recs = Last.recs /\ Last'.base = Last.base /\ Last'.tail = "none"
        /\ Last'.durable >= Last.durable /\ Last'.durable \in Nat
    BY <2>2, <2>5, DiskFacts
  <2> QED
    BY <1>1, <1>2, <2>3, <2>5, <2>6, <2>7, SealGoesOn
<1>3. CASE SealFails /\ files' = files
  <2>1. used' \in Spent /\ used'.writes = used.writes
    BY <1>1, <1>3, Counted DEF SealFails
  <2> QED
    BY <1>1, <1>3, <2>1, DiskSame, SealFailsStep DEF disk
<1> QED
  BY <1>2, <1>3 DEF RenameSealed, SealStep

LEMMA SyncSealedDirStep == ASSUME IInv, mode = "up", SyncSealedDir PROVE IInv'
<1>1. /\ pc = "dirsync" /\ target = LastSeg /\ Last.recs # << >> /\ Last.tail = "none"
      /\ Last.name = "raw" /\ Last.footer = "durable"
      /\ UNCHANGED hrkm /\ pc \in SealPcs /\ used \in Spent
  <2>1. Last.name = "raw"
    BY DiskFacts, FileFields DEF SyncSealedDir, SealStep, IInv, UpInv, SealInv, SealPcs, SealedSoFar,
                                   FileOK
  <2> QED
    BY <2>1 DEF SyncSealedDir, SealStep, IInv, UpInv, SealInv, SealPcs, SealedSoFar
<1>2. CASE /\ files' = DirSynced(files) /\ Goto("commit") /\ NoFault
           /\ UNCHANGED <<memory, answers>>
  <2> DEFINE f == [Last EXCEPT !.dname = Last.name]
  <2>1. GoodDisk(files', hrkm', used'.writes) /\ LastSeg' = LastSeg /\ Last' = f
    BY <1>1, <1>2, DirSyncedDisk DEF LastSeg, Last, NoFault, IInv
  <2>2. /\ f.name = "raw" /\ f.dname = "raw" /\ f.recs = Last.recs /\ f.base = Last.base
        /\ f.tail = "none" /\ f.durable = Last.durable /\ f.footer = "durable"
    BY <1>1, DiskFacts DEF File
  <2> HIDE DEF f
  <2>3. "commit" \in SealPcs /\ Last.durable \in Nat /\ SealedSoFar("commit", f)
    BY <1>1, <2>2, DiskFacts DEF SealPcs, FileOK, OnDisk, SealedSoFar
  <2> QED
    BY <1>1, <1>2, <2>1, <2>2, <2>3, SealGoesOn
<1>3. CASE SealFails /\ files' = files
  <2>1. used' \in Spent /\ used'.writes = used.writes
    BY <1>1, <1>3, Counted DEF SealFails
  <2> QED
    BY <1>1, <1>3, <2>1, DiskSame, SealFailsStep DEF disk
<1> QED
  BY <1>2, <1>3 DEF SyncSealedDir, SealStep

\* The catalogue names one more segment; whether or not the caller hears of it.
LEMMA CommitSealStep == ASSUME IInv, CommitSeal PROVE IInv'
<1>1. /\ mode = "up" /\ pc = "commit" /\ pc \in SealPcs /\ target = LastSeg /\ Last.recs # << >>
      /\ manifest = hrkm /\ nextLsn = Last.base + Len(Last.recs) /\ Last.name = "raw"
      /\ active = None /\ pending = None /\ ~degraded /\ ~syncError
      /\ OnDisk(Last) /\ LastSeg + 1 \in Segs /\ files' = files /\ used \in Spent
  <2>1. Last.name = "raw"
    BY DiskFacts, FileFields DEF CommitSeal, IInv, UpInv, SealInv, SealPcs, SealedSoFar, FileOK
  <2> QED
    BY <2>1 DEF CommitSeal, IInv, UpInv, SealInv, SealPcs, SealedSoFar, PendingInv
<1> DEFINE published == Append(hrkm, RangeOf(Last))
<1>2. /\ GoodDisk(files, published, used.writes) /\ Len(published) = LastSeg + 1
      /\ LsnAfter(published) = LsnAfter(hrkm) + Len(Last.recs)
      /\ Nameless(files[Len(published)])
  BY <1>1, CatalogueExtended DEF LastSeg, Last, IInv
<1>3. published \in Seq(Entries) /\ Len(published) <= MaxSegs
      /\ files[Len(published)].recs = << >> /\ files[Len(published)].durable \in Nat
      /\ files[Len(published)].name = "none" /\ Len(files[Len(published)].recs) = 0
  <2>1. /\ published \in Seq(Entries) /\ Len(published) \in Segs
        /\ files[Len(published)] \in File /\ FileOK(files[Len(published)])
    BY <1>1, <1>2, DiskFacts DEF GoodDisk
  <2>2. Len(published) <= MaxSegs
    BY <2>1, ConstantsAssumption DEF Segs
  <2>3. files[Len(published)].durable \in Nat
    BY <2>1, FileFields, ConstantsAssumption
  <2>4. files[Len(published)].recs = << >> /\ files[Len(published)].name = "none"
    BY <1>2, <2>1 DEF Nameless, FileOK
  <2> QED
    BY <2>1, <2>2, <2>3, <2>4, EmptySeq
<1>4. Last.base = LsnAfter(hrkm) /\ Last.durable <= Len(Last.recs)
  BY <1>1, DiskFacts DEF Nameless, FileOK
<1> HIDE DEF published
<1>5. CASE /\ manifest' = published /\ hrkm' = published
           /\ dirty' = FALSE /\ pending' = target + 1
           /\ Goto(IF op = "append" THEN "write" ELSE "sealed") /\ NoFault
           /\ UNCHANGED <<active, nextLsn, syncError, degraded, poisoned, answers>>
  <2>1. /\ GoodDisk(files', hrkm', used'.writes) /\ LastSeg' = LastSeg + 1 /\ used' = used
        /\ Last'.recs = << >> /\ Last'.durable \in Nat /\ Last'.name = "none"
        /\ Len(Last'.recs) = 0
    BY <1>1, <1>2, <1>3, <1>5 DEF LastSeg, Last, NoFault
  <2>2. /\ pc' \in {"write", "sealed"} /\ pending' = LastSeg' /\ LastSeg' \in Segs
        /\ UNCHANGED <<mode, op, target, resume>>
        /\ nextLsn' = LsnAfter(hrkm') /\ manifest' = hrkm'
    BY <1>1, <1>2, <1>4, <1>5, <2>1 DEF Goto
  <2>3. AnswersInv'
    <3>1. UNCHANGED <<acked, promised>> /\ LsnAfter(hrkm') = LsnAfter(hrkm) + Len(Last.recs)
      BY <1>2, <1>5 DEF answers
    <3> QED
      BY <2>1, <3>1, AnswersPublished
  <2>4. UpInv' /\ BootInv' /\ CreateInv'
    BY <1>1, <1>5, <2>1, <2>2 DEF UpInv, BootInv, CreateInv, WriterInv, FreeInv, PendingInv,
       SealInv, SealPcs, CreatePcs, Blank
  <2>5. MemoryOK'
    BY <1>1, <1>3, <1>5, <2>1, <2>2 DEF answers, IInv, MemoryOK
  <2> QED
    BY <1>1, <2>1, <2>2, <2>3, <2>4, <2>5 DEF IInv
<1>6. CASE SealFails /\ hrkm' = hrkm
  <2>1. used' \in Spent /\ used'.writes = used.writes
    BY <1>1, <1>6, Counted DEF SealFails
  <2> QED
    BY <1>1, <1>6, <2>1, DiskSame, SealFailsStep DEF disk
<1>7. CASE SealFails /\ hrkm' = published
  <2>1. used' \in Spent /\ used'.writes = used.writes
    BY <1>1, <1>7, Counted DEF SealFails
  <2>2. /\ GoodDisk(files', hrkm', used'.writes) /\ LastSeg' = LastSeg + 1
        /\ Last'.durable \in Nat /\ Len(Last'.recs) = 0
    BY <1>1, <1>2, <1>3, <1>7, <2>1 DEF LastSeg, Last
  <2>3. AnswersInv'
    <3>1. UNCHANGED <<acked, promised>> /\ LsnAfter(hrkm') = LsnAfter(hrkm) + Len(Last.recs)
      BY <1>2, <1>7 DEF SealFails, answers
    <3> QED
      BY <2>2, <3>1, AnswersPublished
  <2>4. /\ pc' = "idle" /\ op' = "none" /\ degraded' = TRUE /\ UNCHANGED <<mode, target, resume>>
        /\ UNCHANGED <<manifest, active, nextLsn, dirty, syncError, pending, poisoned, answers>>
    BY <1>7 DEF SealFails, Return
  <2>5. UpInv' /\ BootInv' /\ CreateInv'
    BY <1>1, <2>4 DEF UpInv, BootInv, CreateInv, WriterInv, FreeInv, PendingInv,
       SealInv, SealPcs, CreatePcs
  <2>6. MemoryOK'
    BY <2>4 DEF answers, IInv, MemoryOK
  <2> QED
    BY <1>1, <2>1, <2>2, <2>3, <2>4, <2>5, <2>6 DEF IInv
<1> QED
  BY <1>1, <1>5, <1>6, <1>7 DEF CommitSeal, published, Last

LEMMA WriteRefusedStep == ASSUME IInv, WriteRefused PROVE IInv'
<1>1. /\ UNCHANGED <<disk, memory, answers, used>> /\ mode = "up" /\ pc = "write" /\ active # None
      /\ pc' = "idle" /\ op' = "none" /\ UNCHANGED <<mode, target, resume>>
  BY DEF WriteRefused, Return
<1>2. GoodDisk(files', hrkm', used'.writes) /\ LastSeg' = LastSeg /\ Last' = Last
  BY <1>1, DiskSame DEF IInv
<1> QED
  BY <1>1, <1>2 DEF disk, memory, answers, IInv, MemoryOK, AnswersInv, BootInv, CreateInv,
     UpInv, WriterInv, FreeInv, PendingInv, SealInv, SealPcs, CreatePcs, AtRest, Blank

LEMMA WriteRecordStep == ASSUME IInv, WriteRecord PROVE IInv'
<1>1. /\ mode = "up" /\ pc = "write" /\ active # None /\ ~poisoned /\ LastSeg \in Segs
      /\ used.writes < MaxWrites /\ used' = [used EXCEPT !.writes = @ + 1] /\ used \in Spent
      /\ files' = [files EXCEPT ![active].recs = Append(@, used.writes + 1)]
      /\ UNCHANGED <<hrkm, manifest, active, syncError, pending, degraded, poisoned, promised>>
  BY DiskFacts DEF WriteRecord, Spend, IInv
<1>2. /\ active = LastSeg /\ manifest = hrkm /\ ~degraded /\ pending = None /\ ~syncError
      /\ Last.name = "active" /\ Last.footer = "none" /\ Last.hdr # "stub" /\ Last.tail = "none"
      /\ Last.dname # "none" \/ Last.adopted
      /\ Last.base = LsnAfter(hrkm) /\ Last.base \in Nat /\ nextLsn \in Nat
      /\ nextLsn = Last.base + Len(Last.recs)
  BY <1>1, WriterFacts, DiskFacts
<1>3. used' \in Spent /\ used'.writes = used.writes + 1 /\ used.writes + 1 \in 1 .. MaxWrites
  <2>1. used.writes \in Nat /\ MaxWrites \in Nat
    BY DiskFacts, ConstantsAssumption
  <2>2. used.writes + 1 \in 1 .. MaxWrites /\ used.writes + 1 \in 0 .. MaxWrites
    BY <1>1, <2>1
  <2> QED
    BY <1>1, <2>2 DEF Spent
<1> DEFINE recs == Append(Last.recs, used.writes + 1)
           f == [Last EXCEPT !.recs = recs]
<1>4. recs \in Recs /\ Len(recs) = Len(Last.recs) + 1 /\ recs # << >>
  <2>1. Last.recs \in Seq(1 .. MaxWrites) /\ MaxWrites \in Nat /\ used.writes \in Nat
    BY DiskFacts, FileFields, ConstantsAssumption
  <2>2. Len(Last.recs) + 1 <= MaxWrites
    BY <1>2, <1>3, <2>1, DiskFacts
  <2>3. recs \in Seq(1 .. MaxWrites) /\ Len(recs) = Len(Last.recs) + 1
    BY <1>3, <2>1, AppendProperties
  <2>4. Len(recs) # 0
    BY <2>3, DiskFacts
  <2>5. recs # << >>
    BY <2>3, <2>4, EmptySeq
  <2> QED
    BY <2>2, <2>3, <2>5, RecsAre
<1> HIDE DEF recs
<1>5. f \in File
  BY <1>4, DiskFacts, FileWith
<1>6. /\ f.hdr = Last.hdr /\ f.dname = Last.dname /\ f.recs = recs /\ f.base = Last.base
      /\ f.lost = Last.lost /\ f.tail = Last.tail /\ f.durable = Last.durable /\ f.name = "active"
      /\ f.footer = "none" /\ f.adopted = Last.adopted
  BY <1>2, DiskFacts DEF File
<1>7. files' = [files EXCEPT ![LastSeg] = f]
  BY <1>1, <1>2 DEF Last, recs
<1> HIDE DEF f
<1>8. FileOK(f) /\ f.base + Len(f.recs) <= used.writes + 1
  BY SMTT(20), <1>2, <1>4, <1>6, DiskFacts DEF FileOK
<1>9. GoodDisk(files', hrkm', used'.writes) /\ LastSeg' = LastSeg /\ Last' = f
  <2>1. used.writes + 1 \in 0 .. MaxWrites /\ used.writes <= used.writes + 1
    BY SMTT(20), <1>3, DiskFacts, ConstantsAssumption
  <2>2. GoodDisk([files EXCEPT ![LastSeg] = f], hrkm, used.writes + 1)
        /\ [files EXCEPT ![LastSeg] = f][LastSeg] = f
    BY <1>2, <1>5, <1>6, <1>8, <2>1, LastReplacedNow
  <2> QED
    BY <1>1, <1>3, <1>7, <2>2 DEF LastSeg, Last
<1>10. CASE Goto("wsync") /\ UNCHANGED <<nextLsn, dirty, acked>>
  <2>1. AnswersInv'
    <3>1. /\ UNCHANGED <<acked, promised>> /\ LsnAfter(hrkm') = LsnAfter(hrkm)
          /\ LsnAfter(hrkm) \in Nat /\ Last'.durable = Last.durable /\ Last.durable \in Nat
          /\ Len(Last'.recs) = Len(Last.recs) + 1 /\ Len(Last.recs) \in Nat
      BY <1>1, <1>4, <1>6, <1>9, <1>10, DiskFacts, ConstantsAssumption
    <3> QED
      BY <3>1, AnswersKept
  <2>2. acked <= nextLsn
    BY <1>2 DEF IInv, AnswersInv
  <2>3. /\ mode' = "up" /\ pc' = "wsync" /\ active' = LastSeg' /\ manifest' = hrkm' /\ ~degraded'
        /\ pending' = None /\ ~syncError' /\ acked' <= nextLsn' /\ active' # None
        /\ Last'.name = "active" /\ Last'.footer = "none" /\ Last'.hdr # "stub"
        /\ Last'.tail = "none" /\ (Last'.dname # "none" \/ Last'.adopted)
    BY <1>1, <1>2, <1>6, <1>9, <1>10, <2>2 DEF Goto
  <2>4. nextLsn' + 1 = Last'.base + Len(Last'.recs)
    BY SMTT(20), <1>2, <1>4, <1>6, <1>9, <1>10, DiskFacts
  <2>5. UpInv' /\ BootInv' /\ CreateInv'
    BY <2>3, <2>4 DEF UpInv, BootInv, CreateInv, WriterInv, FreeInv, PendingInv, SealInv,
                      SealPcs, CreatePcs
  <2>6. MemoryOK'
    BY <1>1, <1>10 DEF Goto, IInv, MemoryOK
  <2> QED
    BY <1>1, <1>3, <1>9, <1>10, <2>1, <2>5, <2>6 DEF Goto, IInv
<1>11. CASE nextLsn' = nextLsn + 1 /\ dirty' = TRUE /\ acked' = nextLsn + 1 /\ Return
  <2>1. nextLsn + 1 \in 0 .. MaxWrites
    <3>1. used.writes \in Nat /\ MaxWrites \in Nat /\ used.writes < MaxWrites
          /\ nextLsn <= used.writes /\ nextLsn \in Nat
      BY <1>1, <1>2, DiskFacts
    <3> QED
      BY <3>1
  <2>2. AnswersInv'
    <3>1. promised' <= LsnAfter(hrkm') + Last'.durable
      <4>1. promised <= LsnAfter(hrkm) + Last.durable
        BY DEF IInv, AnswersInv
      <4>2. LsnAfter(hrkm') = LsnAfter(hrkm) /\ Last'.durable = Last.durable
        BY <1>1, <1>6, <1>9
      <4> QED
        BY <1>1, <4>1, <4>2
    <3>2. acked' <= LsnAfter(hrkm') + Len(Last'.recs)
      <4>1. /\ LsnAfter(hrkm') = LsnAfter(hrkm) /\ Len(Last'.recs) = Len(Last.recs) + 1
            /\ acked' = nextLsn + 1 /\ nextLsn = LsnAfter(hrkm) + Len(Last.recs)
        BY <1>1, <1>2, <1>4, <1>6, <1>9, <1>11
      <4> QED
        BY <4>1, DiskFacts
    <3> QED
      BY <3>1, <3>2 DEF AnswersInv
  <2>3. /\ mode' = "up" /\ pc' = "idle" /\ active' = LastSeg' /\ manifest' = hrkm' /\ ~degraded'
        /\ pending' = None /\ active' # None
        /\ Last'.name = "active" /\ Last'.footer = "none" /\ Last'.hdr # "stub"
        /\ Last'.tail = "none" /\ (Last'.dname # "none" \/ Last'.adopted)
    BY <1>1, <1>2, <1>6, <1>9, <1>11 DEF Return
  <2>4. nextLsn' \in Nat /\ nextLsn' = Last'.base + Len(Last'.recs)
    <3>1. /\ nextLsn' = nextLsn + 1 /\ Last'.base = Last.base
          /\ Len(Last'.recs) = Len(Last.recs) + 1 /\ Len(Last.recs) \in Nat
      BY <1>4, <1>6, <1>9, <1>11, DiskFacts
    <3> QED
      BY <1>2, <3>1
  <2>5. UpInv' /\ BootInv' /\ CreateInv'
    BY <2>3, <2>4 DEF UpInv, BootInv, CreateInv, WriterInv, FreeInv, PendingInv, SealInv,
                      SealPcs, CreatePcs
  <2>6. MemoryOK'
    BY <1>1, <1>11, <2>1 DEF Return, IInv, MemoryOK
  <2> QED
    BY <1>1, <1>3, <1>9, <1>11, <2>2, <2>5, <2>6 DEF Return, IInv
<1> QED
  BY <1>10, <1>11 DEF WriteRecord

LEMMA WriteFailsStep == ASSUME IInv, WriteFails PROVE IInv'
<1>1. /\ mode = "up" /\ pc = "write" /\ active # None /\ Return
      /\ UNCHANGED <<hrkm, manifest, active, nextLsn, dirty, syncError, pending, degraded, answers>>
      /\ used' \in Spent /\ used'.writes = used.writes
  BY Counted DEF WriteFails, Fault, IInv
<1>2. active = LastSeg /\ Last.name = "active" /\ Last.footer = "none" /\ LastSeg \in Segs
  BY <1>1, WriterFacts, DiskFacts
<1>3. CASE UNCHANGED <<files, poisoned>>
  <2>1. GoodDisk(files', hrkm', used'.writes) /\ LastSeg' = LastSeg /\ Last' = Last
    BY <1>1, <1>3, DiskSame DEF disk
  <2> QED
    BY <1>1, <1>3, <2>1 DEF answers, Return, IInv, MemoryOK, AnswersInv, BootInv, CreateInv,
       UpInv, WriterInv, FreeInv, PendingInv, SealInv, SealPcs, CreatePcs, AtRest, Blank
<1>4. CASE files' = [files EXCEPT ![active].tail = "torn"] /\ poisoned' = TRUE
  <2>1. /\ GoodDisk(files', hrkm', used'.writes) /\ LastSeg' = LastSeg
        /\ Last'.name = "active" /\ Last'.dname = Last.dname /\ Last'.recs = Last.recs
        /\ Last'.base = Last.base /\ Last'.durable = Last.durable /\ Last'.hdr = Last.hdr
        /\ Last'.footer = "none" /\ Last'.adopted = Last.adopted
    BY <1>1, <1>2, <1>4, LastTorn
  <2> QED
    BY <1>1, <1>4, <2>1 DEF answers, Return, IInv, MemoryOK, AnswersInv, BootInv, CreateInv,
       UpInv, WriterInv, FreeInv, PendingInv, SealInv, SealPcs, CreatePcs, AtRest, Blank
<1> QED
  BY <1>3, <1>4 DEF WriteFails

\* Under Always the caller is answered after the fsync; a failed one leaves the
\* record in the file and the engine refusing every further call.
LEMMA SyncAppendStep == ASSUME Environment, IInv, SyncAppend PROVE IInv'
<1>1. /\ mode = "up" /\ pc = "wsync" /\ active # None /\ Return
      /\ UNCHANGED <<hrkm, manifest, active, pending, degraded, poisoned>> /\ used \in Spent
  BY DEF SyncAppend, IInv, UpInv
<1>2. /\ active = LastSeg /\ manifest = hrkm /\ ~degraded /\ pending = None /\ ~syncError
      /\ Last.name = "active" /\ Last.footer = "none" /\ Last.hdr # "stub"
      /\ Last.dname # "none" \/ Last.adopted
      /\ Last.base = LsnAfter(hrkm) /\ Last.base \in Nat /\ nextLsn \in Nat
      /\ nextLsn + 1 = Last.base + Len(Last.recs) /\ acked <= nextLsn
      /\ LastSeg \in Segs
  BY <1>1, WriterFacts, DiskFacts
<1>3. CASE /\ files' = [files EXCEPT ![active] = Synced(@)]
           /\ dirty' = FALSE /\ nextLsn' = nextLsn + 1 /\ acked' = nextLsn + 1
           /\ promised' = IF always THEN nextLsn + 1 ELSE promised
           /\ NoFault /\ UNCHANGED syncError
  <2>1. /\ GoodDisk(files', hrkm', used'.writes) /\ LastSeg' = LastSeg
        /\ Last'.name = Last.name /\ Last'.dname = Last.dname /\ Last'.recs = Last.recs
        /\ Last'.base = Last.base /\ Last'.durable = Len(Last.recs) /\ Last'.hdr = "durable"
        /\ Last'.footer = "none" /\ Last'.tail = Last.tail /\ Last'.adopted = Last.adopted
    BY <1>1, <1>2, <1>3, LastSynced DEF NoFault
  <2>2. nextLsn + 1 \in 0 .. MaxWrites
    BY <1>2, DiskFacts, ConstantsAssumption
  <2>3. AnswersInv'
    <3>1. promised <= LsnAfter(hrkm) + Last.durable /\ Last.durable <= Len(Last.recs)
          /\ promised \in Nat
      BY DiskFacts, ConstantsAssumption DEF IInv, MemoryOK, AnswersInv, FileOK
    <3> QED
      BY <1>1, <1>2, <1>3, <2>1, <3>1, DiskFacts DEF AnswersInv
  <2>4. UpInv' /\ BootInv' /\ CreateInv'
    BY <1>1, <1>2, <1>3, <2>1, DiskFacts
       DEF Return, IInv, UpInv, BootInv, CreateInv, WriterInv, FreeInv, PendingInv, SealInv,
           SealPcs, CreatePcs
  <2>5. promised' \in 0 .. MaxWrites
    BY <1>3, <2>2 DEF IInv, MemoryOK
  <2>6. MemoryOK'
    BY <1>1, <1>3, <2>2, <2>5 DEF Return, IInv, MemoryOK
  <2> QED
    BY <1>1, <1>3, <2>1, <2>3, <2>4, <2>6 DEF NoFault, Return, IInv
<1>4. CASE /\ Fault /\ syncError' = TRUE
           /\ \E f \in SyncFailed(files[active]) : files' = [files EXCEPT ![active] = f]
           /\ UNCHANGED <<dirty, nextLsn, answers>>
  <2>1. /\ GoodDisk(files', hrkm', used'.writes) /\ LastSeg' = LastSeg /\ Last' = Last
        /\ used' \in Spent
    BY <1>1, <1>2, <1>4, Counted, FsyncFails, DiskSame DEF disk
  <2> QED
    BY <1>1, <1>4, <2>1 DEF answers, Return, IInv, MemoryOK, AnswersInv, BootInv, CreateInv,
       UpInv, WriterInv, FreeInv, PendingInv, SealInv, SealPcs, CreatePcs, AtRest, Blank
<1> QED
  BY <1>3, <1>4 DEF SyncAppend

LEMMA SyncFlushStep == ASSUME Environment, IInv, SyncFlush PROVE IInv'
<1>1. /\ mode = "up" /\ pc = "flush" /\ active # None /\ Return
      /\ UNCHANGED <<hrkm, manifest, active, nextLsn, syncError, pending, degraded, poisoned, acked>>
      /\ used \in Spent
  BY DEF SyncFlush, IInv
<1>2. /\ active = LastSeg /\ Last.name = "active" /\ Last.footer = "none" /\ Last.hdr # "stub"
      /\ Last.base = LsnAfter(hrkm) /\ Last.base \in Nat /\ nextLsn \in Nat
      /\ nextLsn = Last.base + Len(Last.recs) /\ LastSeg \in Segs
  BY <1>1, WriterFacts, DiskFacts
<1>3. CASE /\ files' = [files EXCEPT ![active] = Synced(@)]
           /\ dirty' = FALSE /\ promised' = nextLsn /\ NoFault
  <2>1. /\ GoodDisk(files', hrkm', used'.writes) /\ LastSeg' = LastSeg
        /\ Last'.name = Last.name /\ Last'.dname = Last.dname /\ Last'.recs = Last.recs
        /\ Last'.base = Last.base /\ Last'.durable = Len(Last.recs) /\ Last'.hdr = "durable"
        /\ Last'.footer = "none" /\ Last'.tail = Last.tail /\ Last'.adopted = Last.adopted
    BY <1>1, <1>2, <1>3, LastSynced DEF NoFault
  <2>2. AnswersInv'
    BY <1>1, <1>2, <1>3, <2>1, DiskFacts DEF AnswersInv, IInv
  <2> QED
    BY <1>1, <1>2, <1>3, <2>1, <2>2 DEF NoFault, Return, IInv, MemoryOK, AnswersInv, BootInv,
       CreateInv, UpInv, WriterInv, FreeInv, PendingInv, SealInv, SealPcs, CreatePcs, AtRest,
       Blank
<1>4. CASE /\ Fault
           /\ \E f \in SyncFailed(files[active]) : files' = [files EXCEPT ![active] = f]
           /\ UNCHANGED <<dirty, promised>>
  <2>1. /\ GoodDisk(files', hrkm', used'.writes) /\ LastSeg' = LastSeg /\ Last' = Last
        /\ used' \in Spent
    BY <1>1, <1>2, <1>4, Counted, FsyncFails, DiskSame DEF disk
  <2> QED
    BY <1>1, <1>4, <2>1 DEF Return, IInv, MemoryOK, AnswersInv, BootInv, CreateInv, UpInv,
       WriterInv, FreeInv, PendingInv, SealInv, SealPcs, CreatePcs, AtRest, Blank
<1> QED
  BY <1>3, <1>4 DEF SyncFlush

\* The GroupCommit thread.
LEMMA WorkerStep == ASSUME Environment, IInv, Worker PROVE IInv'
<1>1. mode = "up" /\ pc = "idle" /\ used \in Spent /\ UNCHANGED control
  BY DEF Worker, WorkerSkips, WorkerSyncs, WorkerFails, WorkerDue, IInv
<1>2. CASE WorkerSkips
  <2>1. /\ GoodDisk(files', hrkm', used'.writes) /\ LastSeg' = LastSeg /\ Last' = Last /\ used' = used
    BY <1>1, <1>2, DiskSame DEF WorkerSkips, answers
  <2> QED
    BY <1>1, <1>2, <2>1 DEF WorkerSkips, disk, control, answers, IInv, MemoryOK, AnswersInv,
       BootInv, CreateInv, UpInv, WriterInv, FreeInv, PendingInv, SealInv, SealPcs, CreatePcs,
       AtRest, Blank
<1>3. CASE WorkerSyncs
  <2>1. /\ active = LastSeg /\ Last.name = "active" /\ Last.footer = "none" /\ Last.hdr # "stub"
        /\ LastSeg \in Segs
    BY <1>1, <1>3, WriterFacts, DiskFacts DEF WorkerSyncs
  <2>2. /\ GoodDisk(files', hrkm', used'.writes) /\ LastSeg' = LastSeg
        /\ Last'.name = Last.name /\ Last'.dname = Last.dname /\ Last'.recs = Last.recs
        /\ Last'.base = Last.base /\ Last'.durable = Len(Last.recs) /\ Last'.hdr = "durable"
        /\ Last'.footer = "none" /\ Last'.tail = Last.tail /\ Last'.adopted = Last.adopted
    BY <1>1, <1>3, <2>1, LastSynced DEF WorkerSyncs
  <2>3. AnswersInv'
    <3>1. /\ LsnAfter(hrkm') = LsnAfter(hrkm) /\ UNCHANGED <<acked, promised>>
          /\ Last'.durable >= Last.durable
      BY <1>3, <2>2, DiskFacts DEF WorkerSyncs, answers, FileOK
    <3> QED
      BY <2>2, <3>1, DiskFacts, AnswersKept
  <2>4. UpInv' /\ BootInv' /\ CreateInv'
    BY <1>1, <1>3, <2>1, <2>2 DEF WorkerSyncs, control, IInv, UpInv, BootInv, CreateInv, WriterInv,
       FreeInv, PendingInv, SealInv, SealPcs, CreatePcs
  <2> QED
    BY <1>1, <1>3, <2>2, <2>3, <2>4 DEF WorkerSyncs, control, answers, IInv, MemoryOK
<1>4. CASE WorkerFails
  <2>1. UNCHANGED disk /\ used' \in Spent /\ used'.writes = used.writes
    <3>1. CASE active = None
      BY <1>1, <1>4, <3>1 DEF WorkerFails, disk
    <3>2. CASE active # None
      BY <1>1, <1>4, <3>2, Counted, FsyncFails, WriterFacts, DiskFacts DEF WorkerFails, disk
    <3> QED
      BY <3>1, <3>2
  <2>2. /\ GoodDisk(files', hrkm', used'.writes) /\ LastSeg' = LastSeg /\ Last' = Last
    BY <2>1, DiskSame
  <2> QED
    BY <1>1, <1>4, <2>1, <2>2 DEF WorkerFails, disk, control, answers, IInv, MemoryOK,
       AnswersInv, BootInv, CreateInv, UpInv, WriterInv, FreeInv, PendingInv, SealInv, SealPcs,
       CreatePcs, AtRest, Blank
<1> QED
  BY <1>2, <1>3, <1>4 DEF Worker

\* A process that ends leaves what the page cache holds.
LEMMA MemoryLostStep ==
    ASSUME IInv, MemoryLost, UNCHANGED promised, acked' \in 0 .. MaxWrites, used' \in Spent,
           GoodDisk(files', hrkm', used'.writes), AnswersInv'
    PROVE  IInv'
<1>1. manifest' \in Seq(Entries) /\ Len(manifest') <= MaxSegs
  BY EmptySeq, ConstantsAssumption DEF MemoryLost
<1>2. MemoryOK'
  <2>1. 0 \in 0 .. MaxWrites /\ promised' \in 0 .. MaxWrites
    BY DiskFacts DEF IInv, MemoryOK
  <2> QED
    BY <1>1, <2>1 DEF MemoryLost, MemoryOK
<1>3. BootInv' /\ UpInv' /\ CreateInv'
  BY DEF MemoryLost, BootInv, UpInv, CreateInv, CreatePcs
<1> QED
  BY <1>2, <1>3 DEF MemoryLost, IInv, AtRest

LEMMA CloseStep == ASSUME IInv, Close PROVE IInv'
<1>1. /\ mode = "up" /\ MemoryLost /\ UNCHANGED <<hrkm, answers>>
      /\ used' \in Spent /\ used'.writes = used.writes
  BY SpendKeeps DEF Close, IInv
<1>2. CASE WorkerDue /\ active # None /\ files' = [files EXCEPT ![active] = Synced(@)]
  <2>1. /\ active = LastSeg /\ Last.name = "active" /\ Last.hdr # "stub" /\ LastSeg \in Segs
    BY <1>1, <1>2, WriterFacts, DiskFacts
  <2>2. /\ GoodDisk(files', hrkm', used'.writes) /\ Last'.recs = Last.recs
        /\ Last'.durable = Len(Last.recs)
    BY <1>1, <1>2, <2>1, LastSynced
  <2>3. AnswersInv'
    <3>1. /\ LsnAfter(hrkm') = LsnAfter(hrkm) /\ UNCHANGED <<acked, promised>>
          /\ Last'.durable >= Last.durable
      BY <1>1, <2>2, DiskFacts DEF answers, FileOK
    <3> QED
      BY <2>2, <3>1, DiskFacts, AnswersKept
  <2> QED
    BY <1>1, <2>2, <2>3, MemoryLostStep DEF answers, IInv, MemoryOK
<1>3. CASE UNCHANGED files
  <2>1. GoodDisk(files', hrkm', used'.writes) /\ LastSeg' = LastSeg /\ Last' = Last
    BY <1>1, <1>3, DiskSame DEF disk
  <2> QED
    BY <1>1, <2>1, MemoryLostStep DEF answers, IInv, MemoryOK, AnswersInv
<1> QED
  BY <1>2, <1>3 DEF Close

\* A kill may leave a torn write behind.
LEMMA KillStep == ASSUME IInv, Kill PROVE IInv'
<1>1. /\ mode \in {"up", "boot"} /\ MemoryLost /\ UNCHANGED <<hrkm, answers>>
      /\ used' \in Spent /\ used'.writes = used.writes
  BY SpendKeeps DEF Kill, IInv
<1>2. CASE UNCHANGED files
  <2>1. GoodDisk(files', hrkm', used'.writes) /\ LastSeg' = LastSeg /\ Last' = Last
    BY <1>1, <1>2, DiskSame DEF disk
  <2> QED
    BY <1>1, <2>1, MemoryLostStep DEF answers, IInv, MemoryOK, AnswersInv
<1>3. CASE /\ Last.footer = "none" /\ Last.name = "active"
           /\ files' = [files EXCEPT ![LastSeg].tail = "torn"]
  <2>1. /\ GoodDisk(files', hrkm', used'.writes) /\ LastSeg' = LastSeg
        /\ Last'.recs = Last.recs /\ Last'.durable = Last.durable
    BY <1>1, <1>3, LastTorn
  <2> QED
    BY <1>1, <2>1, MemoryLostStep DEF answers, IInv, MemoryOK, AnswersInv
<1>4. pc = "write" /\ active # None =>
          active = LastSeg /\ Last.footer = "none" /\ Last.name = "active"
  BY <1>1, DiskFacts DEF IInv, UpInv, WriterInv, BootInv, CreatePcs
<1>5. pc = "footer" => target = LastSeg /\ Last.footer = "none" /\ Last.name = "active"
  BY <1>1 DEF IInv, UpInv, SealInv, SealedSoFar, SealPcs, BootInv, CreatePcs
<1> QED
  BY <1>2, <1>3, <1>4, <1>5 DEF Kill

-----------------------------------------------------------------------------
(* The power fails *)

\* The first records of a file.
LEMMA Prefix ==
    ASSUME NEW f \in File, NEW k \in 0 .. Len(f.recs)
    PROVE  SubSeq(f.recs, 1, k) \in Recs /\ Len(SubSeq(f.recs, 1, k)) = k
<1>1. /\ f.recs \in Seq(1 .. MaxWrites) /\ Len(f.recs) \in 0 .. MaxWrites /\ MaxWrites \in Nat
  BY FileFields, ConstantsAssumption
<1>2. k \in Nat /\ k <= Len(f.recs) /\ k <= MaxWrites
  BY <1>1
<1>3. SubSeq(f.recs, 1, k) \in Seq(1 .. MaxWrites) /\ Len(SubSeq(f.recs, 1, k)) = k
  <2>1. \A i \in 1 .. k : f.recs[i] \in 1 .. MaxWrites
    BY <1>1, <1>2, ElementOfSeq
  <2>2. 1 \in Int /\ k \in Int /\ (IF 1 <= k THEN k - 1 + 1 ELSE 0) = k
    BY <1>2
  <2> QED
    BY <1>1, <1>2, <2>1, <2>2, SubSeqProperties
<1>4. Len(SubSeq(f.recs, 1, k)) <= MaxWrites
  BY <1>1, <1>2, <1>3
<1> QED
  BY <1>3, <1>4, RecsAre

\* A file no boot exposed to the power failure survives it as a good one: it
\* loses nothing it had synced, and a sealed one nothing at all.
LEMMA SurvivorOK ==
    ASSUME Environment, NEW f \in File, FileOK(f), f.adopted => OnDisk(f),
           NEW g \in Survivors(f)
    PROVE  /\ g \in File /\ FileOK(g)
           /\ Nameless(g) \/ g.base = f.base
           /\ g.base <= f.base
           /\ Nameless(f) => Nameless(g)
           /\ g.footer # "none" => f.footer # "none"
           /\ Len(g.recs) \in f.durable .. Len(f.recs)
           /\ g.recs = SubSeq(f.recs, 1, Len(g.recs))
           /\ g.durable = Len(g.recs)
           /\ f.name = "raw" /\ OnDisk(f) =>
                 g.name = "raw" /\ RangeOf(g) = RangeOf(f) /\ OnDisk(g)
<1>1. /\ f.recs \in Seq(1 .. MaxWrites) /\ Len(f.recs) \in Nat
      /\ f.durable \in Nat /\ MaxWrites \in Nat /\ f.base \in Nat
      /\ f.name \in {"none", "active", "raw"} /\ f.dname \in {"none", "active", "raw"}
      /\ f.footer \in {"none", "cached", "durable"} /\ f.tail \in {"none", "torn"}
      /\ f.hdr \in {"stub", "cached", "durable"}
      /\ f.durable <= Len(f.recs) /\ f.lost = 0
      /\ f.recs = << >> <=> Len(f.recs) = 0
  BY FileFields, EmptySeq, ConstantsAssumption DEF FileOK
<1>2. f.recs # << >> => f.name # "none" /\ f.dname # "none"
  BY <1>1 DEF FileOK, OnDisk
<1>3. f.name = "raw" => /\ f.footer = "durable" /\ f.durable = Len(f.recs) /\ f.recs # << >>
                        /\ f.hdr = "durable"
  BY <1>1 DEF FileOK, OnDisk
<1>4. SubSeq(f.recs, 1, 0) = << >>
  BY <1>1, SubSeqEmpty
<1>5. PICK n \in {f.name, f.dname} :
          g \in IF n = "none" THEN {NoFile}
                ELSE (IF f.hdr = "durable" THEN {}
                      ELSE {[NoFile EXCEPT !.name = n, !.dname = n, !.base = f.base]})
                     \cup (IF f.hdr = "stub" THEN {} ELSE WithHeader(f, n))
  BY DEF Survivors
<1>6. CASE g = NoFile /\ n = "none"
  <2>1. /\ f.recs = << >> /\ Len(f.recs) = 0 /\ f.durable = 0 /\ f.name # "raw"
    BY <1>1, <1>2, <1>3, <1>6
  <2>2. Len(g.recs) = 0 /\ g.recs = << >> /\ g.durable = 0 /\ g.footer = "none" /\ g.base = 0
    BY <1>6, EmptySeq DEF NoFile
  <2> QED
    BY <1>1, <1>4, <1>6, <2>1, <2>2, NoFileOK
<1>7. CASE n # "none" /\ f.hdr # "durable" /\ g = [NoFile EXCEPT !.name = n, !.dname = n, !.base = f.base]
  <2>1. f.durable = 0 /\ f.name # "raw" /\ n = "active"
    BY <1>1, <1>3, <1>5, <1>7 DEF FileOK
  <2>2. g \in File
    <3>1. [NoFile EXCEPT !.name = n] \in File
      BY <2>1, NoFileOK, FileWith
    <3>2. [[NoFile EXCEPT !.name = n] EXCEPT !.dname = n] \in File
      BY <2>1, <3>1, FileWith
    <3>3. [[[NoFile EXCEPT !.name = n] EXCEPT !.dname = n] EXCEPT !.base = f.base] \in File
      BY <3>2, FileFields, FileWith
    <3> QED
      BY <1>7, <3>3
  <2>3. /\ g.name = n /\ g.dname = n /\ g.base = f.base /\ g.recs = << >> /\ Len(g.recs) = 0
        /\ g.durable = 0 /\ g.lost = 0 /\ g.footer = "none" /\ g.tail = "none" /\ g.hdr = "stub"
    BY <1>7, EmptySeq DEF NoFile
  <2>4. FileOK(g)
    BY <2>1, <2>3 DEF FileOK
  <2>5. ~Nameless(f)
    <3>1. n = f.name \/ n = f.dname
      BY <1>5
    <3> QED
      BY <2>1, <3>1 DEF Nameless
  <2> QED
    BY <1>1, <1>4, <2>1, <2>2, <2>3, <2>4, <2>5
<1>8. CASE n # "none" /\ g \in WithHeader(f, n)
  <2>1. /\ n \in {"active", "raw"} /\ (f.name = "raw" /\ OnDisk(f) => n = "raw")
        /\ n = "raw" => f.name = "raw"
    <3>1. n = f.name \/ n = f.dname
      BY <1>5
    <3> QED
      BY <1>1, <1>8, <3>1 DEF FileOK, OnDisk
  <2>2. PICK k \in f.durable .. Len(f.recs), footer \in {"none", "durable"} :
            /\ footer \in FooterSurvivors(f, k)
            /\ \E t \in TailSurvivors(f, k, footer) : g = Survivor(f, n, k, footer, t)
    BY <1>1, <1>8 DEF WithHeader
  <2>3. PICK t \in TailSurvivors(f, k, footer) : g = Survivor(f, n, k, footer, t)
    BY <2>2
  <2>4. footer # "none" => k = Len(f.recs) /\ f.tail = "none" /\ f.footer # "none" /\ f.recs # << >>
    BY <1>1, <2>2 DEF FooterSurvivors, FileOK
  <2>5. f.footer = "durable" => footer = "durable" /\ k = Len(f.recs)
    BY <1>1, <2>2 DEF FooterSurvivors, FileOK
  <2>6. t \in {"none", "torn"} /\ (footer # "none" => t = "none")
    BY <1>1, <2>3, <2>4 DEF TailSurvivors, Environment
  <2>7. /\ g \in File
        /\ g.name = n /\ g.dname = n /\ g.hdr = "durable" /\ g.base = f.base
        /\ g.recs = SubSeq(f.recs, 1, k) /\ Len(g.recs) = k
        /\ g.durable = k /\ g.lost = 0 /\ g.footer = footer /\ g.tail = t
        /\ g.adopted = FALSE
    <3> DEFINE recs == SubSeq(f.recs, 1, k)
    <3>1. k \in 0 .. Len(f.recs) /\ k \in 0 .. MaxWrites /\ 0 \in 0 .. MaxWrites
      BY <1>1, FileFields
    <3>2. recs \in Recs /\ Len(recs) = k
      BY <3>1, Prefix
    <3>3. g = [f EXCEPT !.name = n, !.dname = n, !.hdr = "durable",
                        !.recs = recs, !.durable = k, !.lost = 0,
                        !.footer = footer, !.tail = t, !.adopted = FALSE]
      BY <2>3 DEF Survivor
    <3> HIDE DEF recs
    <3>4. g \in File
      BY <2>1, <2>6, <3>1, <3>2, <3>3 DEF File, Recs
    <3>5. /\ g.name = n /\ g.dname = n /\ g.hdr = "durable" /\ g.base = f.base /\ g.recs = recs
          /\ g.durable = k /\ g.lost = 0 /\ g.footer = footer /\ g.tail = t /\ g.adopted = FALSE
      BY <3>3 DEF File
    <3> QED
      BY <3>2, <3>4, <3>5 DEF recs
  <2>8. g.recs = << >> <=> k = 0
    BY SMTT(20), <2>7, FileFields, EmptySeq
  <2>9. n = "raw" => footer = "durable"
    BY <1>3, <2>1, <2>5
  <2>10. FileOK(g)
    BY SMTT(20), <1>1, <2>1, <2>4, <2>6, <2>7, <2>8, <2>9 DEF FileOK
  <2>11. ~Nameless(f)
    <3>1. n = f.name \/ n = f.dname
      BY <1>5
    <3> QED
      BY <1>8, <3>1 DEF Nameless
  <2>12. f.name = "raw" /\ OnDisk(f) =>
            g.name = "raw" /\ RangeOf(g) = RangeOf(f) /\ OnDisk(g)
    BY <1>3, <2>1, <2>5, <2>7 DEF RangeOf, OnDisk
  <2>13. g.base <= f.base /\ g.footer = footer /\ k \in f.durable .. Len(f.recs)
    BY <1>1, <2>2, <2>7
  <2> QED
    BY <2>4, <2>7, <2>10, <2>11, <2>12, <2>13
<1> QED
  BY <1>5, <1>6, <1>7, <1>8

\* What a power failure leaves of the disk.
LEMMA DiskSurvives ==
    ASSUME Environment, IInv, PowerLoss
    PROVE  /\ GoodDisk(files', hrkm', used'.writes) /\ used' \in Spent /\ LastSeg' = LastSeg
           /\ Len(Last'.recs) \in Last.durable .. Len(Last.recs)
           /\ Last'.recs = SubSeq(Last.recs, 1, Len(Last'.recs))
           /\ Last'.durable = Len(Last'.recs)
           /\ \A s \in Segs : s < LastSeg => Len(files'[s].recs) = Len(files[s].recs)
           /\ \A s \in Segs : files'[s].recs = SubSeq(files[s].recs, 1, Len(files'[s].recs))
<1>1. /\ UNCHANGED hrkm /\ used' \in Spent /\ used'.writes = used.writes
      /\ files \in [Segs -> File] /\ GoodDisk(files, hrkm, used.writes)
  BY SpendKeeps, DiskFacts DEF PowerLoss, IInv
<1>2. \A s \in Segs : FileOK(files[s]) /\ (files[s].adopted => OnDisk(files[s]))
  BY <1>1 DEF PowerLoss, Environment, GoodDisk, Exposed
<1>3. files' \in [Segs -> UNION {Survivors(files[s]) : s \in Segs}]
      /\ \A s \in Segs : files'[s] \in Survivors(files[s])
  BY DEF PowerLoss
<1>4. ASSUME NEW s \in Segs
      PROVE  /\ files'[s] \in File /\ FileOK(files'[s])
             /\ Nameless(files'[s]) \/ files'[s].base = files[s].base
             /\ files'[s].base <= files[s].base
             /\ Nameless(files[s]) => Nameless(files'[s])
             /\ files'[s].footer # "none" => files[s].footer # "none"
             /\ Len(files'[s].recs) \in files[s].durable .. Len(files[s].recs)
             /\ files'[s].recs = SubSeq(files[s].recs, 1, Len(files'[s].recs))
             /\ files'[s].durable = Len(files'[s].recs)
             /\ files[s].name = "raw" /\ OnDisk(files[s]) =>
                   /\ files'[s].name = "raw" /\ RangeOf(files'[s]) = RangeOf(files[s])
                   /\ OnDisk(files'[s])
  <2> DEFINE f == files[s]
             g == files'[s]
  <2>1. f \in File /\ FileOK(f) /\ (f.adopted => OnDisk(f)) /\ g \in Survivors(f)
    BY <1>1, <1>2, <1>3
  <2> HIDE DEF f, g
  <2>2. /\ g \in File /\ FileOK(g)
        /\ Nameless(g) \/ g.base = f.base
        /\ g.base <= f.base
        /\ Nameless(f) => Nameless(g)
        /\ g.footer # "none" => f.footer # "none"
        /\ Len(g.recs) \in f.durable .. Len(f.recs)
        /\ g.recs = SubSeq(f.recs, 1, Len(g.recs))
        /\ g.durable = Len(g.recs)
        /\ f.name = "raw" /\ OnDisk(f) =>
              g.name = "raw" /\ RangeOf(g) = RangeOf(f) /\ OnDisk(g)
    BY <2>1, SurvivorOK
  <2> QED
    BY <2>2 DEF f, g
<1>5. files' \in [Segs -> File]
  BY <1>3, <1>4
<1>6. ASSUME NEW s \in Segs
      PROVE  /\ files'[s].base + Len(files'[s].recs) <= used.writes
             /\ files'[s].footer # "none" => s + 1 \in Segs
             /\ s < LastSeg => /\ files'[s].name = "raw" /\ RangeOf(files'[s]) = hrkm[s + 1]
                               /\ OnDisk(files'[s])
             /\ s = LastSeg => Nameless(files'[s]) \/ files'[s].base = LsnAfter(hrkm)
             /\ s > LastSeg => Nameless(files'[s])
  <2>1. /\ files[s].base + Len(files[s].recs) <= used.writes
        /\ files[s].footer # "none" => s + 1 \in Segs
        /\ s < LastSeg => /\ files[s].name = "raw" /\ RangeOf(files[s]) = hrkm[s + 1]
                          /\ OnDisk(files[s])
        /\ s = LastSeg => Nameless(files[s]) \/ files[s].base = LsnAfter(hrkm)
        /\ s > LastSeg => Nameless(files[s])
    BY <1>1, <1>2 DEF GoodDisk, LastSeg
  <2>2. files'[s].base + Len(files'[s].recs) <= used.writes
    <3> DEFINE b == files[s].base  l == Len(files[s].recs)
               bb == files'[s].base  ll == Len(files'[s].recs)  w == used.writes
    <3>1. files[s] \in File /\ files'[s] \in File
      BY <1>1, <1>4
    <3>2. b \in Nat /\ l \in Nat /\ bb \in Nat /\ ll \in Nat /\ w \in Nat
      <4>1. b \in Nat /\ l \in Nat /\ bb \in Nat /\ ll \in Nat
        BY <3>1, FileFields, ConstantsAssumption
      <4>2. w \in Nat
        BY DiskFacts
      <4> QED
        BY <4>1, <4>2
    <3>3. bb <= b
      BY <1>4
    <3>4. ll \in files[s].durable .. l
      BY <1>4
    <3>5. b + l <= w
      BY <2>1
    <3>6. files[s].durable \in Nat
      BY <3>1, FileFields
    <3> HIDE DEF b, l, bb, ll, w
    <3>7. ll <= l
      BY <3>2, <3>4, <3>6
    <3>8. bb + ll <= w
      BY <3>2, <3>3, <3>5, <3>7
    <3> QED
      BY <3>8 DEF bb, ll, w
  <2> QED
    BY <1>4, <2>1, <2>2 DEF Nameless
<1>7. GoodDisk(files', hrkm', used'.writes)
  BY <1>1, <1>4, <1>5, <1>6 DEF GoodDisk, LastSeg
<1>8. LastSeg \in Segs /\ LastSeg' = LastSeg /\ Last' = files'[LastSeg]
  BY <1>1, DiskFacts DEF LastSeg, Last
<1>9. ASSUME NEW s \in Segs, s < LastSeg PROVE Len(files'[s].recs) = Len(files[s].recs)
  <2>1. RangeOf(files'[s]) = RangeOf(files[s])
    BY <1>1, <1>2, <1>4, <1>9 DEF GoodDisk, LastSeg
  <2> QED
    BY <2>1 DEF RangeOf
<1> QED
  BY <1>1, <1>4, <1>7, <1>8, <1>9 DEF Last

LEMMA PowerLossStep == ASSUME Environment, IInv, PowerLoss PROVE IInv'
<1>1. /\ GoodDisk(files', hrkm', used'.writes) /\ used' \in Spent /\ UNCHANGED <<hrkm, promised>>
      /\ Len(Last'.recs) \in Last.durable .. Len(Last.recs)
      /\ Last'.durable = Len(Last'.recs) /\ MemoryLost
      /\ acked' = IF acked < Len(DiskLog') THEN acked ELSE Len(DiskLog')
  BY DiskSurvives DEF PowerLoss
<1>2. Len(DiskLog') = LsnAfter(hrkm) + Len(Last'.recs)
  <2>1. Len(LogBelow(files')[MaxSegs]) = LsnAfter(hrkm') + Len(files'[Len(hrkm')].recs)
    BY <1>1, LogOfDisk
  <2> QED
    BY <1>1, <2>1 DEF DiskLog, Last, LastSeg
<1>3. /\ promised \in 0 .. MaxWrites /\ acked \in 0 .. MaxWrites
      /\ promised <= LsnAfter(hrkm) + Last.durable
  BY DEF IInv, MemoryOK, AnswersInv
<1>4. /\ LsnAfter(hrkm) \in Nat /\ Last.durable \in Nat /\ Len(Last.recs) \in Nat
      /\ MaxWrites \in Nat /\ Len(Last'.recs) \in Nat /\ Last.durable <= Len(Last'.recs)
      /\ LsnAfter(hrkm') = LsnAfter(hrkm)
  BY <1>1, DiskFacts
<1>5. acked' \in 0 .. MaxWrites /\ acked' <= LsnAfter(hrkm) + Len(Last'.recs)
  BY <1>1, <1>2, <1>3, <1>4
<1>6. AnswersInv'
  BY <1>1, <1>3, <1>4, <1>5 DEF AnswersInv
<1> QED
  BY <1>1, <1>5, <1>6, MemoryLostStep

\* A file a boot took over reaches the disk.
LEMMA WritebackStep ==
    ASSUME IInv, NEW s \in Segs, Writeback(s)
    PROVE  IInv'
<1>1. /\ files[s].adopted /\ UNCHANGED <<hrkm, memory, control, answers, used>>
      /\ files' = [files EXCEPT ![s] = [Synced(@) EXCEPT !.dname = files[s].name]]
      /\ files \in [Segs -> File] /\ GoodDisk(files, hrkm, used.writes)
  BY DiskFacts DEF Writeback, Exposed, IInv
<1> DEFINE f == files[s]
           g == [Synced(f) EXCEPT !.dname = f.name]
<1>2. f \in File /\ FileOK(f) /\ f.adopted
  BY <1>1 DEF GoodDisk
<1>3. files' = [files EXCEPT ![s] = g]
  BY <1>1
<1> HIDE DEF f
<1>4. /\ Synced(f) \in File
      /\ Synced(f) = [f EXCEPT !.durable = Len(f.recs), !.hdr = "durable",
                               !.footer = IF f.footer = "none" THEN "none" ELSE "durable"]
  BY <1>2, SyncedFile DEF FileOK
<1>5. g \in File
  BY <1>2, <1>4, FileFields, FileWith
<1>6. /\ g.name = f.name /\ g.dname = f.name /\ g.recs = f.recs /\ g.base = f.base
      /\ g.lost = f.lost /\ g.tail = f.tail /\ g.durable = Len(f.recs) /\ g.hdr = "durable"
      /\ g.footer = IF f.footer = "none" THEN "none" ELSE "durable"
      /\ g.adopted = f.adopted
  BY <1>2, <1>4 DEF File
<1> HIDE DEF g
<1>7. /\ Len(f.recs) \in Nat /\ f.durable \in Nat /\ f.durable <= Len(f.recs)
      /\ f.footer \in {"none", "cached", "durable"}
  BY <1>2, FileFields, ConstantsAssumption DEF FileOK
<1>8. FileOK(g) /\ (OnDisk(f) => OnDisk(g)) /\ (Nameless(f) => Nameless(g))
  BY <1>2, <1>6, <1>7 DEF FileOK, OnDisk, Nameless
<1>9. GoodDisk(files', hrkm', used'.writes)
  <2>1. files' \in [Segs -> File]
    BY <1>1, <1>3, <1>5
  <2>2. ASSUME NEW t \in Segs
        PROVE  /\ FileOK(files'[t])
               /\ files'[t].base = files[t].base /\ files'[t].recs = files[t].recs
               /\ files'[t].footer # "none" => files[t].footer # "none" \/ t + 1 \in Segs
               /\ t < Len(hrkm) => files'[t].name = "raw" /\ (files'[t].adopted \/ OnDisk(files'[t]))
               /\ t >= Len(hrkm) /\ Nameless(files[t]) => Nameless(files'[t])
    <3>1. CASE t = s
      BY <1>1, <1>2, <1>3, <1>6, <1>8, <3>1 DEF f, GoodDisk
    <3>2. CASE t # s
      BY <1>1, <1>3, <3>2 DEF GoodDisk
    <3> QED
      BY <3>1, <3>2
  <2>3. GoodDisk(files', hrkm, used.writes)
    BY ZenonT(30), <1>1, <2>1, <2>2, DiskKept
  <2> QED
    BY <1>1, <2>3
<1>10. /\ LastSeg' = LastSeg
       /\ Last'.name = Last.name /\ Last'.recs = Last.recs /\ Last'.base = Last.base
       /\ Last'.tail = Last.tail /\ Last'.adopted = Last.adopted
       /\ Last'.dname \in {Last.dname, Last.name} /\ Last'.hdr \in {Last.hdr, "durable"}
       /\ Last'.durable \in Nat /\ Last'.durable >= Last.durable
       /\ Last'.footer = Last.footer \/ (Last.footer = "cached" /\ Last'.footer = "durable")
       /\ OnDisk(Last) => OnDisk(Last')
  <2>1. LastSeg' = LastSeg /\ Last' = files'[LastSeg] /\ LastSeg \in Segs
    BY <1>1, DiskFacts DEF LastSeg, Last
  <2>2. CASE LastSeg = s
    <3>1. Last' = g /\ Last = f
      BY <1>1, <1>3, <2>1, <2>2 DEF Last, f
    <3> QED
      BY <1>6, <1>7, <1>8, <2>1, <3>1
  <2>3. CASE LastSeg # s
    <3>1. Last' = Last
      BY <1>1, <1>3, <2>1, <2>3 DEF Last
    <3> QED
      BY <2>1, <3>1, DiskFacts
  <2> QED
    BY <2>2, <2>3
<1>11. AnswersInv'
  <2>1. LsnAfter(hrkm') = LsnAfter(hrkm) /\ UNCHANGED <<acked, promised>>
    BY <1>1 DEF answers
  <2> QED
    BY <1>10, <2>1, DiskFacts, AnswersKept
<1>12. UpInv'
  <2>1. UNCHANGED <<hrkm, memory, mode, pc, target, acked, nextLsn>>
    BY <1>1 DEF memory, control, answers
  <2>2. mode = "up" => WriterInv'
    BY <1>10, <2>1 DEF memory, IInv, UpInv, WriterInv
  <2>3. mode = "up" => FreeInv' /\ PendingInv'
    BY <1>10, <2>1 DEF memory, IInv, UpInv, FreeInv, PendingInv, Blank
  <2>4. mode = "up" => SealInv'
    BY <1>10, <2>1 DEF memory, IInv, UpInv, SealInv, SealedSoFar, SealPcs
  <2> QED
    BY <2>1, <2>2, <2>3, <2>4 DEF memory, IInv, UpInv
<1>13. BootInv' /\ CreateInv'
  <2>1. RangeOf(Last') = RangeOf(Last)
    BY <1>10 DEF RangeOf
  <2> QED
    BY <1>1, <1>10, <2>1 DEF memory, control, IInv, BootInv, CreateInv, CreatePcs, AtRest, Blank
<1> QED
  BY <1>1, <1>9, <1>11, <1>12, <1>13 DEF memory, control, answers, IInv, MemoryOK, AtRest

-----------------------------------------------------------------------------
(* The boot *)

\* Only the file after the catalogue can be anything but a catalogued one.
LEMMA BootFinds ==
    ASSUME IInv
    PROVE  /\ Orphans = IF Last.name = "raw" THEN {LastSeg} ELSE {}
           /\ Tails = IF Last.name = "active" /\ Last.hdr # "stub" THEN {LastSeg} ELSE {}
           /\ Stubs = IF Last.name = "active" /\ Last.hdr = "stub" THEN {LastSeg} ELSE {}
<1>1. /\ LastSeg \in Segs /\ Segs \subseteq Nat
      /\ \A s \in Segs : s > LastSeg => files[s].name = "none"
      /\ \A s \in Segs : s < LastSeg => files[s].name = "raw"
  BY DiskFacts DEF Nameless
<1>2. \A s \in Segs : s # LastSeg => s > LastSeg \/ s < LastSeg
  BY <1>1
<1>3. \A s \in Segs : (s >= Len(hrkm) <=> ~(s < LastSeg))
  BY <1>1 DEF LastSeg
<1> QED
  BY <1>1, <1>2, <1>3 DEF Orphans, Tails, Stubs, Last

\* So a boot adds the one file that was renamed and not published.
LEMMA ReconciledIs ==
    ASSUME IInv
    PROVE  Reconciled = IF Last.name = "raw" THEN Append(hrkm, RangeOf(Last)) ELSE hrkm
<1>1. hrkm \in Seq(Entries)
  BY DiskFacts
<1> DEFINE n == Cardinality(Orphans)
           P(ids) == \A i, j \in DOMAIN ids : i < j => ids[i] < ids[j]
           ids == CHOOSE ids \in [1 .. n -> Orphans] : P(ids)
           ranges == [i \in DOMAIN ids |-> RangeOf(files[ids[i]])]
<1>2. Reconciled = hrkm \o ranges
  BY DEF Reconciled
<1>3. CASE Last.name = "raw"
  <2>1. Orphans = {LastSeg}
    BY <1>3, BootFinds
  <2>2. n = 1
    BY <2>1, FS_Singleton
  <2> HIDE DEF n
  <2> DEFINE one == [i \in 1 .. n |-> LastSeg]
  <2>3. one \in [1 .. n -> Orphans] /\ P(one)
    BY <2>1, <2>2
  <2>4. ids \in [1 .. n -> Orphans]
    <3> HIDE DEF P, one
    <3> QED
      BY <2>3
  <2>5. DOMAIN ids = 1 .. 1 /\ ids[1] = LastSeg
    BY <2>1, <2>2, <2>4
  <2> HIDE DEF ids
  <2>6. ranges = <<RangeOf(Last)>>
    <3>1. ranges = [i \in 1 .. 1 |-> RangeOf(Last)]
      BY <2>5 DEF Last
    <3> QED
      BY <3>1
  <2> HIDE DEF ranges
  <2>7. RangeOf(Last) \in Entries
    <3>1. Last \in File /\ FileOK(Last) /\ Len(Last.recs) # 0
      BY <1>3, DiskFacts DEF FileOK
    <3>2. Last.base \in 0 .. MaxWrites /\ Len(Last.recs) \in 1 .. MaxWrites
      BY <3>1, FileFields, ConstantsAssumption
    <3> QED
      BY <3>2 DEF RangeOf, Entries
  <2>8. Append(hrkm, RangeOf(Last)) = hrkm \o <<RangeOf(Last)>>
    BY <1>1, <2>7, AppendIsConcat
  <2> QED
    BY <1>2, <1>3, <2>6, <2>8
<1>4. CASE Last.name # "raw"
  <2>1. Orphans = {}
    BY <1>4, BootFinds
  <2>2. n = 0
    BY <2>1, FS_EmptySet
  <2> HIDE DEF n
  <2> DEFINE nil == [i \in 1 .. n |-> LastSeg]
  <2>3. nil \in [1 .. n -> Orphans] /\ P(nil)
    BY <2>2
  <2>4. ids \in [1 .. n -> Orphans]
    <3> HIDE DEF P, nil
    <3> QED
      BY <2>3
  <2>5. DOMAIN ids = 1 .. 0
    BY <2>2, <2>4
  <2> HIDE DEF ids
  <2>6. ranges \in Seq(Entries) /\ Len(ranges) = 0
    BY <2>5
  <2> HIDE DEF ranges
  <2>7. ranges = << >>
    BY <2>6, EmptySeq
  <2>8. hrkm \o << >> = hrkm
    BY <1>1, ConcatEmptySeq
  <2> QED
    BY <1>2, <1>4, <2>7, <2>8
<1> QED
  BY <1>3, <1>4

\* The stub of a segment is removed; what is adopted is marked.
LEMMA BootScanDisk ==
    ASSUME IInv, BootScan
    PROVE  /\ GoodDisk(files', hrkm', used'.writes) /\ LastSeg' = LastSeg
           /\ UNCHANGED <<hrkm, used>>
           /\ \A s \in Segs :
                 /\ files'[s].base = files[s].base /\ files'[s].recs = files[s].recs
                 /\ files'[s].name = "raw" => files[s].name = "raw" /\ files[s].footer # "none"
           /\ Last'.name = IF Last.name = "active" /\ Last.hdr = "stub" THEN "none" ELSE Last.name
           /\ Last'.base = Last.base /\ Last'.recs = Last.recs /\ Last'.hdr = Last.hdr
           /\ Last'.durable = Last.durable /\ Last'.footer = Last.footer
           /\ Last.name = "raw" => Last'.adopted \/ OnDisk(Last')
<1>1. /\ UNCHANGED <<hrkm, used>> /\ files \in [Segs -> File] /\ LastSeg \in Segs
      /\ GoodDisk(files, hrkm, used.writes) /\ Segs \subseteq Nat
  BY DiskFacts DEF BootScan, IInv
<1> DEFINE stub(s) == [files[s] EXCEPT !.name = "none"]
           rest(s) == [files[s] EXCEPT !.adopted = @ \/ (s \in Orphans /\ ~OnDisk(files[s]))]
<1>2. files' = [s \in Segs |-> IF s \in Stubs THEN stub(s) ELSE rest(s)]
  BY DEF BootScan
<1>3. ASSUME NEW s \in Segs
      PROVE  /\ files'[s] \in File /\ FileOK(files'[s])
             /\ files'[s].base = files[s].base /\ files'[s].recs = files[s].recs
             /\ files'[s].footer = files[s].footer /\ files'[s].hdr = files[s].hdr
             /\ files'[s].durable = files[s].durable /\ files'[s].dname = files[s].dname
             /\ files'[s].name = IF s \in Stubs THEN "none" ELSE files[s].name
             /\ s \in Stubs => files[s].name = "active"
             /\ OnDisk(files[s]) /\ s \notin Stubs => OnDisk(files'[s])
             /\ files[s].adopted /\ s \notin Stubs => files'[s].adopted
             /\ s \in Orphans => files'[s].adopted \/ OnDisk(files'[s])
  <2>0. files[s] \in File /\ FileOK(files[s])
    BY <1>1 DEF GoodDisk
  <2>1. CASE s \in Stubs
    <3>1. /\ files'[s] = stub(s) /\ files[s].name = "active" /\ files[s].hdr = "stub"
          /\ s \notin Orphans
      BY <1>2, <2>1 DEF Stubs, Orphans
    <3>2. /\ stub(s).name = "none" /\ stub(s).dname = files[s].dname /\ stub(s).recs = files[s].recs
          /\ stub(s).base = files[s].base /\ stub(s).lost = files[s].lost
          /\ stub(s).tail = files[s].tail /\ stub(s).durable = files[s].durable
          /\ stub(s).hdr = files[s].hdr /\ stub(s).footer = files[s].footer
          /\ stub(s).adopted = files[s].adopted
      BY <2>0 DEF File
    <3>3. stub(s) \in File
      BY <2>0, FileWith
    <3> HIDE DEF stub
    <3> QED
      BY <2>0, <2>1, <3>1, <3>2, <3>3 DEF FileOK
  <2>2. CASE s \notin Stubs
    <3> DEFINE b == files[s].adopted \/ (s \in Orphans /\ ~OnDisk(files[s]))
    <3>1. files'[s] = [files[s] EXCEPT !.adopted = b] /\ b \in BOOLEAN
      BY <1>2, <2>0, <2>2, FileFields
    <3> DEFINE g == [files[s] EXCEPT !.adopted = b]
    <3>2. /\ g.name = files[s].name /\ g.dname = files[s].dname /\ g.recs = files[s].recs
          /\ g.base = files[s].base /\ g.lost = files[s].lost
          /\ g.tail = files[s].tail /\ g.durable = files[s].durable
          /\ g.hdr = files[s].hdr /\ g.footer = files[s].footer
          /\ g.adopted = b
      BY <2>0 DEF File
    <3>3. /\ b = (files[s].adopted \/ (s \in Orphans /\ ~OnDisk(files[s])))
          /\ files'[s] = g /\ g \in File
      BY <2>0, <3>1, FileWith
    <3> HIDE DEF b, g
    <3>4. FileOK(g)
      BY <2>0, <3>2, <3>3 DEF FileOK
    <3>5. OnDisk(g) <=> OnDisk(files[s])
      BY <3>2 DEF OnDisk
    <3> QED
      BY <2>2, <3>2, <3>3, <3>4, <3>5
  <2> QED
    BY <2>1, <2>2
<1>4. files' \in [Segs -> File]
  BY <1>2, <1>3
<1>5. ASSUME NEW s \in Segs
      PROVE  /\ s < Len(hrkm) => files'[s].name = "raw" /\ (files'[s].adopted \/ OnDisk(files'[s]))
             /\ Nameless(files[s]) => Nameless(files'[s])
  <2>1. s < Len(hrkm) => files[s].name = "raw" /\ (files[s].adopted \/ OnDisk(files[s]))
    BY <1>1 DEF GoodDisk
  <2>2. s < Len(hrkm) => s \notin Stubs
    BY <2>1 DEF Stubs
  <2> QED
    BY <1>3, <2>1, <2>2 DEF Nameless
<1>6. GoodDisk(files', hrkm, used.writes)
  BY <1>1, <1>3, <1>4, <1>5, DiskKept
<1>7. LastSeg' = LastSeg /\ Last' = files'[LastSeg]
  BY <1>1 DEF LastSeg, Last
<1>8. \A s \in Segs :
         files'[s].name = "raw" => files[s].name = "raw" /\ files[s].footer # "none"
  BY <1>1, <1>3 DEF GoodDisk, FileOK
<1>9. /\ LastSeg \in Stubs <=> Last.name = "active" /\ Last.hdr = "stub"
      /\ Last.name = "raw" => LastSeg \in Orphans
  BY BootFinds
<1>10. /\ Last'.name = IF Last.name = "active" /\ Last.hdr = "stub" THEN "none" ELSE Last.name
       /\ Last'.base = Last.base /\ Last'.recs = Last.recs /\ Last'.hdr = Last.hdr
       /\ Last'.durable = Last.durable /\ Last'.footer = Last.footer
       /\ Last.name = "raw" => Last'.adopted \/ OnDisk(Last')
  BY <1>1, <1>3, <1>7, <1>9 DEF Last
<1> QED
  BY <1>1, <1>3, <1>6, <1>7, <1>8, <1>10

\* Every file of a good catalogue is found.
LEMMA CatalogueIsFound ==
    ASSUME NEW fs, NEW gs, NEW m, NEW w, GoodDisk(gs, m, w),
           \A s \in Segs :
              /\ gs[s].base = fs[s].base /\ gs[s].recs = fs[s].recs
              /\ gs[s].name = "raw" => fs[s].name = "raw" /\ fs[s].footer # "none"
    PROVE  CatalogueFound(m, fs)
<1>1. /\ DOMAIN m = 1 .. Len(m) /\ Len(m) \in Segs
  BY LenProperties DEF GoodDisk
<1>2. ASSUME NEW i \in DOMAIN m
      PROVE  /\ fs[i - 1].name = "raw" /\ fs[i - 1].footer # "none"
             /\ RangeOf(fs[i - 1]) = m[i]
  <2> DEFINE s == i - 1
  <2>1. s \in Segs /\ s < Len(m) /\ s + 1 = i
    BY <1>1, ConstantsAssumption DEF Segs
  <2> HIDE DEF s
  <2>2. gs[s].name = "raw" /\ RangeOf(gs[s]) = m[s + 1]
    BY <2>1 DEF GoodDisk
  <2>3. /\ gs[s].base = fs[s].base /\ gs[s].recs = fs[s].recs
        /\ fs[s].name = "raw" /\ fs[s].footer # "none"
    BY <2>1, <2>2
  <2>4. RangeOf(fs[s]) = m[i]
    BY <2>1, <2>2, <2>3 DEF RangeOf
  <2> QED
    BY <2>3, <2>4 DEF s
<1> QED
  BY <1>2 DEF CatalogueFound

LEMMA BootScanStep == ASSUME IInv, BootScan PROVE IInv'
<1>1. /\ GoodDisk(files', hrkm', used'.writes) /\ LastSeg' = LastSeg /\ UNCHANGED <<hrkm, used>>
      /\ \A s \in Segs :
            /\ files'[s].base = files[s].base /\ files'[s].recs = files[s].recs
            /\ files'[s].name = "raw" => files[s].name = "raw" /\ files[s].footer # "none"
      /\ Last'.name = IF Last.name = "active" /\ Last.hdr = "stub" THEN "none" ELSE Last.name
      /\ Last'.base = Last.base /\ Last'.recs = Last.recs /\ Last'.hdr = Last.hdr
      /\ Last'.durable = Last.durable /\ Last'.footer = Last.footer
      /\ Last.name = "raw" => Last'.adopted \/ OnDisk(Last')
  BY BootScanDisk
<1>2. /\ mode = "down" /\ AtRest /\ pc = "idle" /\ resume = "idle" /\ used \in Spent
      /\ UNCHANGED <<active, nextLsn, dirty, syncError, pending, degraded, poisoned,
                     op, target, resume, answers, used>>
  BY DEF BootScan, IInv
<1>3. AnswersInv'
  <2>1. UNCHANGED <<acked, promised>> /\ LsnAfter(hrkm') = LsnAfter(hrkm)
    BY <1>1, <1>2 DEF answers
  <2> QED
    BY <1>1, <2>1, DiskFacts, AnswersKept
<1>4. Last \in File /\ FileOK(Last) /\ Len(hrkm) \in Nat
  BY DiskFacts, LenProperties
<1>5. CASE Last.name = "raw"
  <2> DEFINE n == Append(hrkm, RangeOf(Last))
  <2>1. Orphans = {LastSeg} /\ Tails = {} /\ Reconciled = n
    BY <1>5, BootFinds, ReconciledIs
  <2>2. RangeOf(Last') = RangeOf(Last)
    BY <1>1 DEF RangeOf
  <2>3. /\ GoodDisk(files', n, used'.writes) /\ Len(n) = Len(hrkm) + 1
    <3>1. /\ files'[Len(hrkm)].name = "raw" /\ GoodDisk(files', hrkm, used'.writes)
          /\ files'[Len(hrkm)].adopted \/ OnDisk(files'[Len(hrkm)])
          /\ RangeOf(files'[Len(hrkm)]) = RangeOf(Last)
      BY <1>1, <1>5, <2>2 DEF Last, LastSeg
    <3> QED
      BY <3>1, CatalogueExtended
  <2>4. n # hrkm
    BY <1>4, <2>3
  <2>5. n \in Seq(Entries) /\ Len(n) <= MaxSegs /\ Contiguous(n)
    BY <2>3, ConstantsAssumption DEF GoodDisk, Segs
  <2> HIDE DEF n
  <2>6. CatalogueFound(n, files)
    BY <1>1, <2>3, CatalogueIsFound
  <2>7. BootAccepts
    <3>1. Cardinality(Tails) <= 1
      BY <2>1, FS_EmptySet
    <3>2. \A s \in Orphans : Sealed(files[s])
      BY <1>4, <1>5, <2>1 DEF Sealed, FileOK, Last
    <3> QED
      BY <2>1, <2>5, <2>6, <3>1, <3>2 DEF BootAccepts
  <2>8. mode' = "boot" /\ manifest' = n /\ pc' = "publish"
    BY <2>1, <2>4, <2>7 DEF BootScan
  <2>9. BootInv'
    BY <1>1, <1>2, <1>5, <2>2, <2>8 DEF BootInv, AtRest, CreatePcs, n
  <2>10. MemoryOK' /\ UpInv' /\ CreateInv'
    BY <1>2, <2>5, <2>8 DEF answers, IInv, MemoryOK, UpInv, CreateInv, CreatePcs
  <2> QED
    BY <1>1, <1>2, <1>3, <2>8, <2>9, <2>10 DEF IInv
<1>6. CASE Last.name # "raw"
  <2>1. /\ Orphans = {} /\ Reconciled = hrkm
        /\ Tails = IF Last.name = "active" /\ Last.hdr # "stub" THEN {LastSeg} ELSE {}
    BY <1>6, BootFinds, ReconciledIs
  <2>2. CatalogueFound(hrkm, files)
    BY <1>1, CatalogueIsFound
  <2>3. BootAccepts
    <3>1. Cardinality(Tails) <= 1
      <4>1. CASE Tails = {}
        BY <4>1, FS_EmptySet
      <4>2. CASE Tails = {LastSeg}
        BY <4>2, FS_Singleton
      <4> QED
        BY <2>1, <4>1, <4>2
    <3> QED
      BY <2>1, <2>2, <3>1 DEF BootAccepts, IInv, GoodDisk
  <2>4. /\ mode' = "boot" /\ manifest' = hrkm
        /\ pc' = IF \E s \in Tails : Sealed(files[s]) THEN "promote" ELSE "tail"
    BY <2>1, <2>3 DEF BootScan
  <2>5. pc' = "promote" => Last'.name = "active" /\ Last'.footer # "none"
    BY <1>1, <2>1, <2>4 DEF Sealed, Last
  <2>6. pc' = "tail" /\ Last'.name = "active" => Last'.footer = "none" /\ Last'.hdr # "stub"
    BY <1>1, <1>4, <2>1, <2>4 DEF Sealed, Last, FileOK
  <2>7. BootInv'
    BY <1>1, <1>2, <1>6, <2>4, <2>5, <2>6 DEF BootInv, AtRest, CreatePcs
  <2>8. MemoryOK' /\ UpInv' /\ CreateInv'
    <3>1. hrkm \in Seq(Entries) /\ Len(hrkm) <= MaxSegs
      BY ConstantsAssumption DEF IInv, GoodDisk, Segs
    <3> QED
      BY <1>2, <2>4, <3>1 DEF answers, IInv, MemoryOK, UpInv, CreateInv, CreatePcs
  <2> QED
    BY <1>1, <1>2, <1>3, <2>4, <2>7, <2>8 DEF IInv
<1> QED
  BY <1>5, <1>6

LEMMA BootPromoteStep == ASSUME IInv, BootPromote PROVE IInv'
<1>1. /\ mode = "boot" /\ pc = "promote" /\ AtRest /\ resume = "idle" /\ manifest = hrkm
      /\ Last.name = "active" /\ Last.footer # "none" /\ used \in Spent
      /\ Goto("publish")
      /\ UNCHANGED <<hrkm, active, nextLsn, dirty, syncError, pending, degraded, poisoned,
                     answers, used>>
  BY DEF BootPromote, IInv, BootInv
<1>2. Tails \subseteq {LastSeg}
  BY BootFinds
<1> DEFINE f == [Last EXCEPT !.name = "raw", !.adopted = TRUE]
<1>3. files' = [files EXCEPT ![LastSeg] = f] /\ manifest' = Append(hrkm, RangeOf(Last))
  <2>1. PICK s \in Tails :
           /\ files' = [files EXCEPT ![s].name = "raw", ![s].adopted = TRUE]
           /\ manifest' = Append(manifest, RangeOf(files[s]))
    BY DEF BootPromote
  <2>2. s = LastSeg
    BY <1>2
  <2>3. files' = [files EXCEPT ![LastSeg] = f]
    BY <2>1, <2>2, DiskFacts DEF Last
  <2> QED
    BY <1>1, <2>1, <2>2, <2>3 DEF Last
<1>4. f \in File
  <2>1. [Last EXCEPT !.name = "raw"] \in File
    BY DiskFacts, FileWith
  <2>2. [[Last EXCEPT !.name = "raw"] EXCEPT !.adopted = TRUE] \in File
    BY <2>1, FileWith
  <2> QED
    BY <2>2
<1>5. /\ f.name = "raw" /\ f.dname = Last.dname /\ f.recs = Last.recs /\ f.base = Last.base
      /\ f.lost = Last.lost /\ f.tail = Last.tail /\ f.durable = Last.durable /\ f.hdr = Last.hdr
      /\ f.footer = Last.footer /\ f.adopted = TRUE
  BY DiskFacts DEF File
<1> HIDE DEF f
<1>6. FileOK(f) /\ RangeOf(f) = RangeOf(Last)
  BY <1>1, <1>5, DiskFacts DEF FileOK, RangeOf
<1>7. /\ Nameless(f) \/ f.base = LsnAfter(hrkm)
      /\ f.base + Len(f.recs) <= used.writes
      /\ f.footer # "none" => LastSeg + 1 \in Segs
  BY <1>1, <1>5, DiskFacts DEF Nameless
<1>8. GoodDisk(files', hrkm', used'.writes) /\ LastSeg' = LastSeg /\ Last' = f
  BY <1>1, <1>3, <1>4, <1>6, <1>7, LastChanges
<1>9. GoodDisk(files', manifest', used'.writes)
  <2>1. /\ files'[Len(hrkm)].name = "raw" /\ GoodDisk(files', hrkm, used'.writes)
        /\ files'[Len(hrkm)].adopted /\ RangeOf(files'[Len(hrkm)]) = RangeOf(Last)
    BY <1>1, <1>5, <1>6, <1>8 DEF Last, LastSeg
  <2>2. GoodDisk(files', Append(hrkm, RangeOf(files'[Len(hrkm)])), used'.writes)
    BY <2>1, CatalogueExtended
  <2> QED
    BY <1>3, <2>1, <2>2
<1>10. manifest' \in Seq(Entries) /\ Len(manifest') <= MaxSegs
  BY <1>9, ConstantsAssumption DEF GoodDisk, Segs
<1>11. AnswersInv'
  <2>1. UNCHANGED <<acked, promised>> /\ LsnAfter(hrkm') = LsnAfter(hrkm)
    BY <1>1 DEF answers
  <2> QED
    BY <1>5, <1>8, <2>1, DiskFacts, AnswersKept
<1>12. BootInv'
  BY <1>1, <1>3, <1>5, <1>6, <1>8 DEF Goto, BootInv, AtRest, CreatePcs
<1>13. MemoryOK' /\ UpInv' /\ CreateInv'
  BY <1>1, <1>10 DEF Goto, answers, IInv, MemoryOK, UpInv, CreateInv, CreatePcs
<1> QED
  BY <1>1, <1>8, <1>11, <1>12, <1>13 DEF Goto, IInv

\* What was reconciled is published; nothing follows it.
LEMMA BootPublishStep == ASSUME IInv, BootPublish PROVE IInv'
<1>1. /\ mode = "boot" /\ pc = "publish" /\ AtRest /\ resume = "idle"
      /\ Last.name = "raw" /\ (Last.adopted \/ OnDisk(Last)) /\ used \in Spent
      /\ manifest = Append(hrkm, RangeOf(Last)) /\ hrkm' = manifest
      /\ UNCHANGED <<files, memory, answers, used>>
  BY DEF BootPublish, IInv, BootInv
<1>2. /\ GoodDisk(files, manifest, used.writes) /\ Len(manifest) = LastSeg + 1
      /\ LsnAfter(manifest) = LsnAfter(hrkm) + Len(Last.recs)
      /\ Nameless(files[Len(manifest)])
  BY <1>1, CatalogueExtended DEF LastSeg, Last, IInv
<1>3. /\ Contiguous(manifest) /\ Goto("tail")
  BY <1>2 DEF GoodDisk, BootPublish
<1>4. /\ GoodDisk(files', hrkm', used'.writes) /\ Last' = files[Len(manifest)]
  BY <1>1, <1>2 DEF Last, LastSeg
<1>5. /\ Last'.recs = << >> /\ Last'.name = "none" /\ Last'.durable \in Nat /\ Len(Last'.recs) = 0
  <2>1. Last' \in File /\ FileOK(Last')
    BY <1>2, <1>4 DEF GoodDisk
  <2>2. Last'.recs = << >> /\ Last'.name = "none"
    BY <1>2, <1>4, <2>1 DEF Nameless, FileOK
  <2> QED
    BY <2>1, <2>2, FileFields, EmptySeq, ConstantsAssumption
<1>6. AnswersInv'
  <2>1. UNCHANGED <<acked, promised>> /\ LsnAfter(hrkm') = LsnAfter(hrkm) + Len(Last.recs)
    BY <1>1, <1>2 DEF answers
  <2> QED
    BY <1>5, <2>1, AnswersPublished
<1>7. BootInv'
  BY <1>1, <1>3, <1>5 DEF Goto, memory, BootInv, AtRest, CreatePcs
<1>8. MemoryOK' /\ UpInv' /\ CreateInv'
  BY <1>1, <1>3 DEF Goto, memory, answers, IInv, MemoryOK, UpInv, CreateInv, CreatePcs
<1> QED
  BY <1>1, <1>3, <1>4, <1>6, <1>7, <1>8 DEF Goto, IInv

\* The tail is cut and the writer resumes; what was read from the page cache
\* and is not on the disk counts as adopted.
LEMMA BootTailStep == ASSUME IInv, BootTail PROVE IInv'
<1>1. /\ mode = "boot" /\ pc = "tail" /\ AtRest /\ resume = "idle" /\ manifest = hrkm
      /\ Last.name = "active" => Last.footer = "none"
      /\ used \in Spent /\ pc' = "idle"
      /\ UNCHANGED <<hrkm, manifest, dirty, syncError, pending, degraded, poisoned,
                     op, target, resume, answers, used>>
  BY DEF BootTail, IInv, BootInv
<1>2. PICK s \in Tails :
         IF files[s].tail # "hole" /\ files[s].base = LsnAfter(manifest)
         THEN /\ files' = [files EXCEPT ![s] =
                    [IF @.tail = "none" THEN @ ELSE [Synced(@) EXCEPT !.tail = "none"]
                     EXCEPT !.adopted = ~OnDisk(files[s])]]
              /\ active' = s
              /\ nextLsn' = files[s].base + Len(files[s].recs)
              /\ mode' = "up"
         ELSE mode' = "refused" /\ UNCHANGED <<files, active, nextLsn>>
  BY DEF BootTail
<1>3. s = LastSeg /\ files[s] = Last /\ Last.name = "active" /\ Last.hdr # "stub"
  BY BootFinds DEF Last
<1>4. /\ Last \in File /\ FileOK(Last) /\ Last.footer = "none" /\ Last.tail # "hole"
      /\ Last.base = LsnAfter(hrkm)
  BY <1>1, <1>3, DiskFacts DEF FileOK, Nameless
<1> DEFINE kept == IF Last.tail = "none" THEN Last ELSE [Synced(Last) EXCEPT !.tail = "none"]
           f == [kept EXCEPT !.adopted = ~OnDisk(Last)]
<1>5. /\ files' = [files EXCEPT ![LastSeg] = f] /\ active' = LastSeg /\ mode' = "up"
      /\ nextLsn' = Last.base + Len(Last.recs)
  <2>1. files[s].tail # "hole" /\ files[s].base = LsnAfter(manifest)
    BY <1>1, <1>3, <1>4
  <2>2. /\ files' = [files EXCEPT ![s] =
                       [IF @.tail = "none" THEN @ ELSE [Synced(@) EXCEPT !.tail = "none"]
                        EXCEPT !.adopted = ~OnDisk(files[s])]]
        /\ active' = s /\ nextLsn' = files[s].base + Len(files[s].recs) /\ mode' = "up"
    BY <1>2, <2>1
  <2> QED
    BY <1>3, <2>2
<1>6. /\ kept \in File /\ kept.name = "active" /\ kept.dname = Last.dname
      /\ kept.recs = Last.recs /\ kept.base = Last.base /\ kept.lost = 0
      /\ kept.tail = "none" /\ kept.footer = "none" /\ kept.hdr # "stub"
      /\ kept.durable \in {Last.durable, Len(Last.recs)}
      /\ kept.hdr \in {Last.hdr, "durable"}
      /\ kept.durable > 0 => kept.hdr = "durable"
  <2>1. CASE Last.tail = "none"
    BY <1>3, <1>4, <2>1 DEF FileOK
  <2>2. CASE Last.tail # "none"
    <3>1. /\ Synced(Last) \in File
          /\ Synced(Last) = [Last EXCEPT !.durable = Len(Last.recs), !.hdr = "durable",
                                         !.footer = IF Last.footer = "none" THEN "none" ELSE "durable"]
      BY <1>3, <1>4, SyncedFile
    <3> DEFINE g == [Synced(Last) EXCEPT !.tail = "none"]
    <3>2. g \in File
      BY <3>1, FileWith
    <3>3. /\ g.name = Last.name /\ g.dname = Last.dname /\ g.recs = Last.recs
          /\ g.base = Last.base /\ g.lost = Last.lost /\ g.tail = "none"
          /\ g.durable = Len(Last.recs) /\ g.hdr = "durable" /\ g.footer = "none"
      BY <1>4, <3>1 DEF File
    <3>4. kept = g
      BY <2>2
    <3> HIDE DEF g, kept
    <3> QED
      BY <1>3, <1>4, <3>2, <3>3, <3>4 DEF FileOK
  <2> QED
    BY <2>1, <2>2
<1> HIDE DEF kept
<1>7. f \in File
  BY <1>6, FileWith
<1>8. /\ f.name = "active" /\ f.dname = Last.dname /\ f.recs = Last.recs /\ f.base = Last.base
      /\ f.lost = 0 /\ f.tail = "none" /\ f.footer = "none" /\ f.hdr # "stub"
      /\ f.durable \in {Last.durable, Len(Last.recs)} /\ (f.durable > 0 => f.hdr = "durable")
      /\ f.adopted = ~OnDisk(Last)
  BY <1>6 DEF File
<1> HIDE DEF f
<1>9. Last.dname \in {"none", "active", "raw"} /\ Last.durable <= Len(Last.recs)
      /\ Last.durable \in Nat /\ Len(Last.recs) \in Nat
  BY <1>4, DiskFacts, FileFields DEF FileOK
<1>10. f.dname # "none" \/ f.adopted
  BY <1>3, <1>8 DEF OnDisk
<1>11. FileOK(f) /\ f.durable >= Last.durable /\ f.durable \in Nat
  BY <1>3, <1>4, <1>8, <1>9, <1>10 DEF FileOK
<1>12. /\ f.base = LsnAfter(hrkm) /\ f.base + Len(f.recs) <= used.writes
  BY <1>4, <1>8, DiskFacts
<1>13. GoodDisk(files', hrkm', used'.writes) /\ LastSeg' = LastSeg /\ Last' = f
  BY <1>1, <1>5, <1>7, <1>8, <1>11, <1>12, LastChanges
<1>14. AnswersInv'
  <2>1. /\ UNCHANGED <<acked, promised>> /\ LsnAfter(hrkm') = LsnAfter(hrkm)
        /\ LsnAfter(hrkm) \in Nat /\ Len(Last'.recs) = Len(Last.recs)
    BY <1>1, <1>8, <1>13, DiskFacts DEF answers
  <2>2. LsnAfter(hrkm) + Last'.durable >= LsnAfter(hrkm) + Last.durable
    BY <1>9, <1>11, <1>13, <2>1
  <2> QED
    BY <1>9, <1>11, <1>13, <2>1, <2>2, AnswersKept
<1>15. UpInv' /\ BootInv' /\ CreateInv'
  <2>1. WriterInv'
    BY <1>1, <1>5, <1>8, <1>10, <1>13 DEF AtRest, WriterInv
  <2>2. LastSeg # None
    BY DiskFacts
  <2> QED
    BY <1>1, <1>5, <2>1, <2>2 DEF AtRest, UpInv, BootInv, CreateInv, FreeInv, PendingInv,
       SealInv, SealPcs, CreatePcs
<1>16. MemoryOK'
  <2>1. nextLsn' \in 0 .. MaxWrites
    BY <1>5, DiskFacts
  <2> QED
    BY <1>1, <1>5, <2>1, DiskFacts DEF answers, IInv, MemoryOK
<1> QED
  BY <1>1, <1>5, <1>13, <1>14, <1>15, <1>16 DEF IInv

\* Without an active file the next segment is created.
LEMMA BootCreatesStep == ASSUME IInv, BootCreates PROVE IInv'
<1>1. /\ mode = "boot" /\ pc = "tail" /\ AtRest /\ manifest = hrkm /\ Last.name # "raw"
      /\ Last.name = "active" => Last.hdr # "stub"
      /\ Tails = {} /\ nextLsn' = LsnAfter(manifest)
      /\ target' = Len(manifest) /\ resume' = "idle" /\ pc' = "create" /\ used \in Spent
      /\ UNCHANGED <<disk, manifest, active, dirty, syncError, pending, degraded, poisoned,
                     mode, op, answers, used>>
  BY DEF BootCreates, IInv, BootInv
<1>2. Last.name # "active"
  BY <1>1, BootFinds
<1>3. Last.recs = << >>
  BY <1>1, <1>2, DiskFacts, FileFields DEF FileOK
<1>4. GoodDisk(files', hrkm', used'.writes) /\ LastSeg' = LastSeg /\ Last' = Last
  BY <1>1, DiskSame
<1>5. target' = LastSeg' /\ nextLsn' \in 0 .. MaxWrites /\ target' \in Segs
  BY <1>1, <1>4, DiskFacts DEF LastSeg
<1>6. AnswersInv' /\ BootInv' /\ UpInv' /\ CreateInv'
  BY <1>1, <1>3, <1>4, <1>5 DEF disk, answers, IInv, AnswersInv, BootInv, UpInv, CreateInv,
     CreatePcs, AtRest, Blank
<1>7. MemoryOK'
  BY <1>1, <1>5 DEF answers, IInv, MemoryOK
<1> QED
  BY <1>1, <1>4, <1>6, <1>7 DEF IInv

-----------------------------------------------------------------------------
(* The invariant holds *)

LEMMA InitInv == Init => IInv
<1> SUFFICES ASSUME Init PROVE IInv
  OBVIOUS
<1>1. /\ files = [s \in Segs |-> NoFile] /\ hrkm = << >> /\ manifest = << >>
      /\ active = None /\ nextLsn = 0 /\ dirty = FALSE /\ syncError = FALSE
      /\ pending = None /\ degraded = FALSE /\ poisoned = FALSE
      /\ mode = "down" /\ op = "none" /\ pc = "idle" /\ target = None /\ resume = "idle"
      /\ acked = 0 /\ promised = 0
      /\ used = [writes |-> 0, closes |-> 0, kills |-> 0, powerLosses |-> 0, faults |-> 0]
  BY DEF Init
<1>2. /\ MaxWrites \in Nat /\ 0 \in Segs /\ Segs \subseteq Nat /\ MaxSegs \in Nat
  BY ConstantsAssumption DEF Segs
<1>3. << >> \in Seq(Entries) /\ Len(<< >>) = 0
  BY EmptySeq
<1>4. LsnAfter(hrkm) = 0
  BY <1>1 DEF LsnAfter
<1>5. used \in Spent /\ used.writes = 0
  BY <1>1, <1>2 DEF Spent
<1>6. /\ NoFile \in File /\ FileOK(NoFile) /\ Nameless(NoFile) /\ NoFile.recs = << >>
      /\ NoFile.base = 0 /\ NoFile.durable = 0 /\ NoFile.footer = "none"
  <2>1. NoFile.base = 0 /\ NoFile.durable = 0 /\ NoFile.footer = "none"
    BY DEF NoFile
  <2> QED
    BY <2>1, NoFileOK
<1>7. Contiguous(hrkm)
  <2>1. hrkm \in Seq(Entries) /\ 1 .. Len(hrkm) = {}
    BY <1>1, <1>3
  <2> QED
    BY <2>1, ContiguousMeans
<1>8. GoodDisk(files, hrkm, used.writes)
  <2>1. files \in [Segs -> File] /\ \A s \in Segs : files[s] = NoFile
    BY <1>1, <1>6
  <2>2. hrkm \in Seq(Entries) /\ Len(hrkm) = 0
    BY <1>1, <1>3
  <2>3. \A s \in Segs : ~(s < Len(hrkm))
    BY <1>2, <2>2
  <2>4. NoFile.base + Len(NoFile.recs) <= used.writes
    BY <1>3, <1>5, <1>6
  <2>5. used.writes \in 0 .. MaxWrites /\ Len(hrkm) \in Segs
    BY <1>2, <1>5, <2>2
  <2> QED
    BY <1>6, <1>7, <2>1, <2>2, <2>3, <2>4, <2>5 DEF GoodDisk
<1>9. AnswersInv
  <2>1. Last = NoFile
    BY <1>1, <1>2, <1>3 DEF Last, LastSeg
  <2> QED
    BY <1>1, <1>3, <1>4, <1>6, <2>1 DEF AnswersInv
<1>10. MemoryOK
  BY <1>1, <1>2, <1>3 DEF MemoryOK
<1>11. BootInv /\ UpInv /\ CreateInv
  BY <1>1 DEF BootInv, UpInv, CreateInv, CreatePcs
<1> QED
  BY <1>1, <1>5, <1>8, <1>9, <1>10, <1>11 DEF IInv, AtRest

\* A seal goes on only while the engine is up.
LEMMA SealsWhileUp == ASSUME IInv, pc \in SealPcs PROVE mode = "up"
  BY DEF IInv, MemoryOK, BootInv, SealPcs, CreatePcs

LEMMA SealsStep == ASSUME Environment, IInv, Seal PROVE IInv'
<1>1. ASSUME pc \in SealPcs, WriteFooter \/ SyncFooter \/ RenameSealed \/ SyncSealedDir PROVE IInv'
  BY <1>1, SealsWhileUp, WriteFooterStep, SyncFooterStep, RenameSealedStep, SyncSealedDirStep
<1>2. WriteFooter \/ SyncFooter \/ RenameSealed \/ SyncSealedDir => pc \in SealPcs
  BY DEF WriteFooter, SyncFooter, RenameSealed, SyncSealedDir, SealStep, SealPcs
<1> QED
  BY <1>1, <1>2, SealEmptyStep, SealTakeStep, CommitSealStep DEF Seal

LEMMA Preserved == ASSUME Environment, IInv, [Next]_vars PROVE IInv'
<1>1. CASE Operation
  BY <1>1, RestoreRefusedStep, RestoreActiveStep, CreateNewStep, WriteHeaderStep, SyncHeaderStep,
     SealsStep, WriteRefusedStep, WriteRecordStep, WriteFailsStep, SyncAppendStep, SyncFlushStep
     DEF Operation, Restore, Create, Write
<1>2. CASE Boot
  BY <1>2, BootScanStep, BootPromoteStep, BootPublishStep, BootTailStep, BootCreatesStep DEF Boot
<1>3. CASE Crash
  BY <1>3, KillStep, PowerLossStep DEF Crash
<1>4. CASE UNCHANGED vars
  <2>1. UNCHANGED <<disk, memory, control, answers, used>>
    BY <1>4 DEF vars
  <2>2. /\ GoodDisk(files', hrkm', used'.writes) /\ LastSeg' = LastSeg /\ Last' = Last
        /\ used' \in Spent
    BY <2>1, DiskSame DEF IInv
  <2> QED
    BY <2>1, <2>2 DEF disk, memory, control, answers, IInv, MemoryOK, AnswersInv, BootInv,
       CreateInv, UpInv, WriterInv, FreeInv, PendingInv, SealInv, SealPcs, CreatePcs, AtRest,
       Blank
<1> QED
  BY <1>1, <1>2, <1>3, <1>4, BeginStep, WorkerStep, CloseStep, WritebackStep DEF Next

\* The invariant implies the types of the model.
LEMMA TypesFollow == ASSUME IInv PROVE TypeOK
<1>1. /\ files \in [Segs -> File] /\ hrkm \in Seq(Entries) /\ Len(hrkm) <= MaxSegs
  BY ConstantsAssumption DEF IInv, GoodDisk, Segs
<1> QED
  BY <1>1 DEF IInv, MemoryOK, TypeOK, Entries

\* What the invariant says of the log a reader of the directory finds.
LEMMA LogIs ==
    ASSUME IInv
    PROVE  /\ DiskLog \in Seq(1 .. MaxWrites) /\ Len(DiskLog) \in Nat
           /\ Len(DiskLog) = LsnAfter(hrkm) + Len(Last.recs)
           /\ LogBelow(files)[LastSeg] \in Seq(1 .. MaxWrites)
           /\ Len(LogBelow(files)[LastSeg]) = LsnAfter(hrkm)
           /\ Last.recs \in Seq(1 .. MaxWrites)
           /\ DiskLog = LogBelow(files)[LastSeg] \o Last.recs
<1>1. GoodDisk(files, hrkm, used.writes)
  BY DEF IInv
<1>2. LET log == LogBelow(files)[MaxSegs]  below == LogBelow(files)[Len(hrkm)] IN
      /\ below \in Seq(1 .. MaxWrites) /\ Len(below) = LsnAfter(hrkm)
      /\ files[Len(hrkm)].recs \in Seq(1 .. MaxWrites)
      /\ log = below \o files[Len(hrkm)].recs
      /\ log \in Seq(1 .. MaxWrites)
      /\ Len(log) = LsnAfter(hrkm) + Len(files[Len(hrkm)].recs)
  BY <1>1, LogOfDisk
<1> QED
  BY <1>2, DiskFacts DEF DiskLog, Last, LastSeg

\* The engine knows the end of the log.
LEMMA MatchFollows == ASSUME IInv PROVE EngineMatchesDisk
<1> SUFFICES ASSUME mode = "up" PROVE
        /\ pc = "idle" /\ ~syncError /\ ~degraded =>
              /\ nextLsn = Len(DiskLog)
              /\ active # None => nextLsn = files[active].base + Len(files[active].recs)
        /\ active # None /\ files[active].tail # "none" => poisoned
        /\ pending # None /\ Exists(pending) =>
              files[pending].recs = << >> /\ files[pending].name = "active"
  BY DEF EngineMatchesDisk
<1>1. WriterInv /\ FreeInv /\ PendingInv
  BY DEF IInv, UpInv
<1>2. Len(DiskLog) = LsnAfter(hrkm) + Len(Last.recs)
  BY LogIs
<1>3. CASE active # None
  <2>1. /\ active = LastSeg /\ Last.name = "active" /\ pending = None
        /\ Last.tail # "none" => poisoned
        /\ ~syncError /\ pc = "idle" => nextLsn + 0 = Last.base + Len(Last.recs)
    BY <1>1, <1>3 DEF WriterInv
  <2>2. Last.base = LsnAfter(hrkm) /\ nextLsn + 0 = nextLsn
    BY <2>1, DiskFacts DEF Nameless, IInv, MemoryOK
  <2> QED
    BY <1>2, <2>1, <2>2 DEF Last
<1>4. CASE active = None
  <2>1. pc = "idle" /\ ~degraded => nextLsn = LsnAfter(hrkm) /\ Last.recs = << >>
    BY <1>1, <1>4 DEF FreeInv, Blank, SealPcs
  <2>2. LsnAfter(hrkm) + 0 = LsnAfter(hrkm) /\ (Last.recs = << >> => Len(Last.recs) = 0)
    BY DiskFacts
  <2>3. pending # None => pending = LastSeg /\ Last.recs = << >> /\ Last.name # "raw"
    BY <1>1, <1>4 DEF FreeInv, PendingInv, Blank
  <2>4. Last.name \in {"none", "active", "raw"}
    BY DiskFacts, FileFields
  <2> QED
    BY <1>2, <1>4, <2>1, <2>2, <2>3, <2>4 DEF Last, Exists
<1> QED
  BY <1>3, <1>4

\* The invariant holds in every reachable state, whatever the bounds are.
LEMMA Invariant == ASSUME Environment PROVE Spec => []IInv
<1>1. Init => IInv
  BY InitInv
<1>2. IInv /\ [Next]_vars => IInv'
  BY Preserved
<1> QED
  BY <1>1, <1>2, PTL DEF Spec

\* Every file, the catalogue, the memory of the engine and the answers keep
\* their types.
THEOREM TypeCorrect == ASSUME Environment PROVE Spec => []TypeOK
<1>1. IInv => TypeOK
  BY TypesFollow
<1> QED
  BY <1>1, Invariant, PTL

\* Whatever faults, kills and power failures came before, V6Log::open accepts
\* the directory: `BootNeverRefuses` for every number of them.
THEOREM BootAlwaysOpens == ASSUME Environment PROVE Spec => []BootNeverRefuses
<1>1. IInv => BootNeverRefuses
  BY DEF IInv, MemoryOK, BootNeverRefuses
<1> QED
  BY <1>1, Invariant, PTL

\* A healthy engine hands out the LSN one past the log on the disk, so no LSN
\* is given twice, and deletes no file that holds a record.
THEOREM EngineAgrees == ASSUME Environment PROVE Spec => []EngineMatchesDisk
<1>1. IInv => EngineMatchesDisk
  BY MatchFollows
<1> QED
  BY <1>1, Invariant, PTL

-----------------------------------------------------------------------------
(* HrklWriter implements DurableLog: a WriteRecord extends the log, a        *)
(* SyncAppend and a SyncFlush answer, a PowerLoss loses, and every other     *)
(* step of the engine, the kill and the boot included, changes nothing that  *)
(* a caller can see.                                                         *)

\* The log is made of the records of all files.
LEMMA SameLog ==
    ASSUME IInv, IInv', \A s \in Segs : files'[s].recs = files[s].recs
    PROVE  DiskLog' = DiskLog
<1>1. ASSUME NEW s \in Segs PROVE Content(files'[s]) = Content(files[s])
  <2>1. FileOK(files[s]) /\ FileOK(files'[s])
    BY DEF IInv, GoodDisk
  <2> QED
    BY <2>1 DEF FileOK, Content
<1>2. MaxSegs \in 0 .. MaxSegs
  BY ConstantsAssumption
<1>3. \A s \in Segs : s < MaxSegs => Content(files'[s]) = Content(files[s])
  BY <1>1
<1>4. LogBelow(files')[MaxSegs] = LogBelow(files)[MaxSegs]
  BY <1>2, <1>3, SameLogBelow
<1> QED
  BY <1>4 DEF DiskLog

\* The records of a file survive a change of any other field.
LEMMA RecsStay ==
    ASSUME NEW f \in File
    PROVE  /\ \A x : /\ [f EXCEPT !.name = x].recs = f.recs
                     /\ [f EXCEPT !.hdr = x].recs = f.recs
                     /\ [f EXCEPT !.dname = x].recs = f.recs
                     /\ [f EXCEPT !.footer = x].recs = f.recs
                     /\ [f EXCEPT !.tail = x].recs = f.recs
                     /\ [f EXCEPT !.adopted = x].recs = f.recs
           /\ Synced(f).recs = f.recs
  BY DEF File, Synced

LEMMA DirSyncKeeps ==
    ASSUME NEW fs \in [Segs -> File]
    PROVE  \A s \in Segs : DirSynced(fs)[s].recs = fs[s].recs
<1>1. ASSUME NEW s \in Segs PROVE DirSynced(fs)[s].recs = fs[s].recs
  <2>1. DirSynced(fs)[s] = [fs[s] EXCEPT !.dname = fs[s].name] /\ fs[s] \in File
    BY DEF DirSynced
  <2> QED
    BY <2>1 DEF File
<1> QED
  BY <1>1

\* One file is replaced by one with the same records.
LEMMA OneFile ==
    ASSUME NEW fs \in [Segs -> File], NEW t, NEW f,
           t \in Segs => f.recs = fs[t].recs
    PROVE  \A s \in Segs : [fs EXCEPT ![t] = f][s].recs = fs[s].recs
  OBVIOUS

LEMMA TargetIs == ASSUME IInv, pc \in CreatePcs \cup SealPcs
                  PROVE  target = LastSeg /\ (pc \in CreatePcs => Last.recs = << >>)
  BY DEF IInv, MemoryOK, BootInv, UpInv, SealInv, CreateInv, Blank, SealPcs, CreatePcs

\* A step of an operation that touches neither the records of a file nor the
\* answers.
LEMMA OperationQuiet ==
    ASSUME Environment, IInv, Operation, ~WriteRecord, ~SyncAppend, ~SyncFlush
    PROVE  UNCHANGED answers /\ \A s \in Segs : files'[s].recs = files[s].recs
<1>1. files \in [Segs -> File] /\ LastSeg \in Segs /\ \A s \in Segs : files[s] \in File
  BY DiskFacts
<1>2. CASE Restore
  <2>1. UNCHANGED answers
    BY <1>2 DEF Restore, RestoreRefused, RestoreActive
  <2>2. CASE files' = files
    BY <2>1, <2>2
  <2>3. CASE files' = [files EXCEPT ![pending].name = "none"]
    <3> DEFINE f == [files[pending] EXCEPT !.name = "none"]
    <3>1. pending \in Segs => f.recs = files[pending].recs
      BY <1>1, RecsStay
    <3>2. files' = [files EXCEPT ![pending] = f]
      BY <2>3
    <3> HIDE DEF f
    <3> QED
      BY <1>1, <2>1, <3>1, <3>2, OneFile
  <2> QED
    BY <1>2, <2>2, <2>3 DEF Restore, RestoreRefused, RestoreActive, disk
<1>3. CASE CreateNew
  <2>1. target = LastSeg /\ Last.recs = << >> /\ UNCHANGED answers
    BY <1>3, TargetIs DEF CreateNew, CreatePcs
  <2>2. CASE files' = files
    BY <2>1, <2>2
  <2>3. CASE files' = [files EXCEPT ![target] =
                         [NoFile EXCEPT !.name = "active", !.dname = files[target].dname,
                                        !.base = nextLsn]]
    <3> DEFINE f == [NoFile EXCEPT !.name = "active", !.dname = files[target].dname,
                                   !.base = nextLsn]
    <3>1. f.recs = << >>
      BY DEF NoFile
    <3> HIDE DEF f
    <3>2. target \in Segs => f.recs = files[target].recs
      BY <2>1, <3>1 DEF Last
    <3>3. files' = [files EXCEPT ![target] = f]
      BY <2>3 DEF f
    <3> QED
      BY <1>1, <2>1, <3>2, <3>3, OneFile
  <2> QED
    BY <1>3, <2>2, <2>3 DEF CreateNew
<1>4. CASE WriteHeader
  <2>1. UNCHANGED answers
    BY <1>4 DEF WriteHeader
  <2>2. CASE files' = files
    BY <2>1, <2>2
  <2>3. CASE files' = [files EXCEPT ![target].hdr = "cached"]
    <3> DEFINE f == [files[target] EXCEPT !.hdr = "cached"]
    <3>1. target \in Segs => f.recs = files[target].recs
      BY <1>1, RecsStay
    <3>2. files' = [files EXCEPT ![target] = f]
      BY <2>3
    <3> HIDE DEF f
    <3> QED
      BY <1>1, <2>1, <3>1, <3>2, OneFile
  <2> QED
    BY <1>4, <2>2, <2>3 DEF WriteHeader
<1>5. CASE SyncHeader
  <2>1. UNCHANGED answers /\ target \in Segs
    BY <1>1, <1>5, TargetIs DEF SyncHeader, CreatePcs
  <2> DEFINE f == [files[target] EXCEPT !.hdr = "durable"]
             fs == [files EXCEPT ![target] = f]
  <2>2. fs \in [Segs -> File] /\ f.recs = files[target].recs
    <3>1. f \in File /\ f.recs = files[target].recs
      BY <1>1, <2>1, FileWith, RecsStay
    <3> HIDE DEF f
    <3> QED
      BY <1>1, <2>1, <3>1
  <2> HIDE DEF f
  <2>3. \A s \in Segs : fs[s].recs = files[s].recs
    BY <1>1, <2>2, OneFile
  <2>4. files' \in {files, fs, DirSynced(fs)}
    BY <1>5 DEF SyncHeader, f
  <2> HIDE DEF fs
  <2>5. \A s \in Segs : DirSynced(fs)[s].recs = fs[s].recs
    BY <2>2, DirSyncKeeps
  <2> QED
    BY <2>1, <2>3, <2>4, <2>5
<1>6. CASE SealEmpty
  <2>1. UNCHANGED answers
    BY <1>6 DEF SealEmpty
  <2>2. CASE files' = files
    BY <2>1, <2>2
  <2>3. CASE files' = [files EXCEPT ![active].name = "none"]
    <3> DEFINE f == [files[active] EXCEPT !.name = "none"]
    <3>1. active \in Segs => f.recs = files[active].recs
      BY <1>1, RecsStay
    <3>2. files' = [files EXCEPT ![active] = f]
      BY <2>3
    <3> HIDE DEF f
    <3> QED
      BY <1>1, <2>1, <3>1, <3>2, OneFile
  <2> QED
    BY <1>6, <2>2, <2>3 DEF SealEmpty
<1>7. CASE SealTake \/ CommitSeal \/ WriteRefused
  BY <1>7 DEF SealTake, CommitSeal, SealFails, WriteRefused, disk, answers
<1>8. CASE WriteFooter
  <2>1. UNCHANGED answers
    BY <1>8 DEF WriteFooter, SealStep, SealFails, answers
  <2> DEFINE f == [files[target] EXCEPT !.footer = "cached"]
             g == [files[target] EXCEPT !.tail = "torn"]
  <2>2. files' \in {files, [files EXCEPT ![target] = f], [files EXCEPT ![target] = g]}
    BY <1>8 DEF WriteFooter, SealStep
  <2>3. target \in Segs => f.recs = files[target].recs /\ g.recs = files[target].recs
    BY <1>1, RecsStay
  <2> HIDE DEF f, g
  <2>4. \A s \in Segs : /\ [files EXCEPT ![target] = f][s].recs = files[s].recs
                        /\ [files EXCEPT ![target] = g][s].recs = files[s].recs
    BY <1>1, <2>3, OneFile
  <2> QED
    BY <2>1, <2>2, <2>4
<1>9. CASE SyncFooter
  <2>1. UNCHANGED answers
    BY <1>9 DEF SyncFooter, SealStep, SealFails, answers
  <2> DEFINE f == Synced(files[target])
  <2>2. SyncFailed(files[target]) = {files[target]}
    BY DEF Environment, SyncFailed
  <2>3. files' \in {[files EXCEPT ![target] = files[target]], [files EXCEPT ![target] = f]}
    BY <1>9, <2>2 DEF SyncFooter, SealStep
  <2>4. target \in Segs => f.recs = files[target].recs
    BY <1>1, RecsStay
  <2> HIDE DEF f
  <2>5. \A s \in Segs : /\ [files EXCEPT ![target] = f][s].recs = files[s].recs
                        /\ [files EXCEPT ![target] = files[target]][s].recs = files[s].recs
    BY <1>1, <2>4, OneFile
  <2> QED
    BY <2>1, <2>3, <2>5
<1>10. CASE RenameSealed
  <2>1. UNCHANGED answers
    BY <1>10 DEF RenameSealed, SealStep, SealFails, answers
  <2> DEFINE f == [files[target] EXCEPT !.name = "raw"]
  <2>2. files' \in {files, [files EXCEPT ![target] = f]}
    BY <1>10 DEF RenameSealed, SealStep
  <2>3. target \in Segs => f.recs = files[target].recs
    BY <1>1, RecsStay
  <2> HIDE DEF f
  <2>4. \A s \in Segs : [files EXCEPT ![target] = f][s].recs = files[s].recs
    BY <1>1, <2>3, OneFile
  <2> QED
    BY <2>1, <2>2, <2>4
<1>11. CASE SyncSealedDir
  <2>1. UNCHANGED answers
    BY <1>11 DEF SyncSealedDir, SealStep, SealFails, answers
  <2>2. files' \in {files, DirSynced(files)}
    BY <1>11 DEF SyncSealedDir, SealStep
  <2>3. \A s \in Segs : DirSynced(files)[s].recs = files[s].recs
    BY <1>1, DirSyncKeeps
  <2> QED
    BY <2>1, <2>2, <2>3
<1>12. CASE WriteFails
  <2>1. UNCHANGED answers
    BY <1>12 DEF WriteFails
  <2> DEFINE f == [files[active] EXCEPT !.tail = "torn"]
  <2>2. files' \in {files, [files EXCEPT ![active] = f]}
    BY <1>12 DEF WriteFails
  <2>3. active \in Segs => f.recs = files[active].recs
    BY <1>1, RecsStay
  <2> HIDE DEF f
  <2>4. \A s \in Segs : [files EXCEPT ![active] = f][s].recs = files[s].recs
    BY <1>1, <2>3, OneFile
  <2> QED
    BY <2>1, <2>2, <2>4
<1> QED
  BY <1>2, <1>3, <1>4, <1>5, <1>6, <1>7, <1>8, <1>9, <1>10, <1>11, <1>12
     DEF Operation, Create, Seal, Write

\* The worker, the boot, a close, a kill and the operating system keep the
\* records of every file and the answers.
LEMMA OthersQuiet ==
    ASSUME Environment, IInv,
           Begin \/ Worker \/ Boot \/ Close \/ Kill \/ (\E s \in Segs : Writeback(s)) \/ UNCHANGED vars
    PROVE  UNCHANGED answers /\ \A s \in Segs : files'[s].recs = files[s].recs
<1>1. files \in [Segs -> File] /\ LastSeg \in Segs /\ \A s \in Segs : files[s] \in File
  BY DiskFacts
<1> DEFINE replaced(t, f) == [files EXCEPT ![t] = f]
<1>2. ASSUME NEW t, NEW f, t \in Segs => f.recs = files[t].recs
      PROVE  \A s \in Segs : replaced(t, f)[s].recs = files[s].recs
  BY <1>1, <1>2, OneFile
<1>3. \A t : /\ t \in Segs => Synced(files[t]).recs = files[t].recs
             /\ t \in Segs => [files[t] EXCEPT !.tail = "torn"].recs = files[t].recs
  BY <1>1, RecsStay
<1>4. CASE Begin \/ UNCHANGED vars
  BY <1>4 DEF Begin, BeginAppend, BeginFlush, BeginSeal, LockRefused, Lock, vars, disk
<1>5. CASE Worker
  <2>1. UNCHANGED answers
    BY <1>5 DEF Worker, WorkerSkips, WorkerSyncs, WorkerFails
  <2>2. files' \in {files, replaced(active, Synced(files[active])), replaced(active, files[active])}
    <3>1. CASE WorkerSkips \/ WorkerSyncs
      BY <3>1 DEF WorkerSkips, WorkerSyncs, disk
    <3>2. CASE WorkerFails
      <4>1. SyncFailed(files[active]) = {files[active]}
        BY DEF Environment, SyncFailed
      <4> QED
        BY <3>2, <4>1 DEF WorkerFails
    <3> QED
      BY <1>5, <3>1, <3>2 DEF Worker
  <2> HIDE DEF replaced
  <2>3. \A s \in Segs : /\ replaced(active, Synced(files[active]))[s].recs = files[s].recs
                        /\ replaced(active, files[active])[s].recs = files[s].recs
    BY <1>2, <1>3
  <2> QED
    BY <2>1, <2>2, <2>3
<1>6. CASE Close \/ Kill
  <2>1. UNCHANGED answers
    BY <1>6 DEF Close, Kill
  <2>2. files' \in {files, replaced(active, Synced(files[active])),
                    replaced(active, [files[active] EXCEPT !.tail = "torn"]),
                    replaced(target, [files[target] EXCEPT !.tail = "torn"])}
    BY <1>6 DEF Close, Kill
  <2> DEFINE torn(t) == [files[t] EXCEPT !.tail = "torn"]
  <2>3. \A t : t \in Segs => torn(t).recs = files[t].recs
    BY <1>3
  <2> HIDE DEF replaced, torn
  <2>4. \A s \in Segs : /\ replaced(active, Synced(files[active]))[s].recs = files[s].recs
                        /\ replaced(active, torn(active))[s].recs = files[s].recs
                        /\ replaced(target, torn(target))[s].recs = files[s].recs
    BY <1>2, <1>3, <2>3
  <2> QED
    BY <2>1, <2>2, <2>4 DEF torn
<1>7. CASE BootScan
  BY <1>7, BootScanDisk DEF BootScan
<1>8. CASE BootPromote
  <2>1. PICK t \in Tails : files' = [files EXCEPT ![t].name = "raw", ![t].adopted = TRUE]
    BY <1>8 DEF BootPromote
  <2> DEFINE f == [files[t] EXCEPT !.name = "raw", !.adopted = TRUE]
  <2>2. files' = replaced(t, f) /\ t \in Segs /\ files[t] \in File
    BY <1>1, <2>1 DEF Tails
  <2>3. f.recs = files[t].recs
    BY <2>2 DEF File
  <2> HIDE DEF f, replaced
  <2>4. \A s \in Segs : replaced(t, f)[s].recs = files[s].recs
    BY <1>2, <2>3
  <2>5. UNCHANGED answers
    BY <1>8 DEF BootPromote
  <2> QED
    BY <2>2, <2>4, <2>5
<1>9. CASE BootPublish \/ BootCreates
  BY <1>9 DEF BootPublish, BootCreates, disk
<1>10. CASE BootTail
  <2>1. PICK t \in Tails :
           files' \in {files, [files EXCEPT ![t] =
                          [IF @.tail = "none" THEN @ ELSE [Synced(@) EXCEPT !.tail = "none"]
                           EXCEPT !.adopted = ~OnDisk(files[t])]]}
    BY <1>10 DEF BootTail
  <2> DEFINE kept == IF files[t].tail = "none" THEN files[t]
                     ELSE [Synced(files[t]) EXCEPT !.tail = "none"]
             f == [kept EXCEPT !.adopted = ~OnDisk(files[t])]
  <2>2. files' \in {files, replaced(t, f)} /\ t \in Segs /\ files[t] \in File
    BY <1>1, <2>1 DEF Tails
  <2>3. f.recs = files[t].recs
    <3> DEFINE cut == [Synced(files[t]) EXCEPT !.tail = "none"]
    <3>1. cut.recs = files[t].recs /\ DOMAIN cut = DOMAIN files[t]
      BY <2>2 DEF Synced, File
    <3>2. kept.recs = files[t].recs /\ DOMAIN kept = DOMAIN files[t]
      BY <3>1
    <3>3. DOMAIN files[t] = DOMAIN NoFile /\ "recs" \in DOMAIN NoFile
      BY <2>2 DEF File, NoFile
    <3> HIDE DEF kept
    <3> QED
      BY <3>2, <3>3
  <2> HIDE DEF f
  <2>4. \A s \in Segs : replaced(t, f)[s].recs = files[s].recs
    BY <1>2, <2>3
  <2> HIDE DEF replaced
  <2> QED
    BY <1>10, <2>2, <2>4 DEF BootTail
<1>11. CASE \E s \in Segs : Writeback(s)
  <2>1. PICK t \in Segs : Writeback(t)
    BY <1>11
  <2> DEFINE f == [Synced(files[t]) EXCEPT !.dname = files[t].name]
  <2>2. files' = replaced(t, f) /\ UNCHANGED answers
    BY <2>1 DEF Writeback
  <2>3. f.recs = files[t].recs
    BY <1>1 DEF Synced, File
  <2> HIDE DEF f
  <2> QED
    BY <1>2, <2>2, <2>3
<1> QED
  BY <1>4, <1>5, <1>6, <1>7, <1>8, <1>9, <1>10, <1>11 DEF Boot

\* Such a step is a stutter of the log.
LEMMA QuietStutters ==
    ASSUME IInv, IInv', UNCHANGED always, UNCHANGED answers,
           \A s \in Segs : files'[s].recs = files[s].recs
    PROVE  UNCHANGED Log!vars
<1>1. DiskLog' = DiskLog
  BY SameLog
<1> QED
  BY <1>1 DEF Log!vars, answers

\* An append puts a write at the end of the log.
LEMMA RecordExtends ==
    ASSUME IInv, IInv', UNCHANGED always, WriteRecord
    PROVE  [Log!Next]_(Log!vars)
<1>1. /\ mode = "up" /\ pc = "write" /\ active # None /\ UNCHANGED <<hrkm, promised>>
      /\ used.writes < MaxWrites /\ nextLsn = files[active].base + Len(files[active].recs)
      /\ files' = [files EXCEPT ![active].recs = Append(@, used.writes + 1)]
  BY DEF WriteRecord, Spend
<1>2. /\ active = LastSeg /\ LastSeg \in Segs /\ files \in [Segs -> File]
      /\ nextLsn = LsnAfter(hrkm) + Len(Last.recs) /\ LastSeg' = LastSeg
  <2>1. active = LastSeg /\ Last.base = LsnAfter(hrkm)
    BY <1>1, WriterFacts
  <2> QED
    BY <1>1, <2>1, DiskFacts DEF Last, LastSeg
<1> DEFINE w == used.writes + 1
           below == LogBelow(files)[LastSeg]
<1>3. w \in 1 .. MaxWrites
  <2>1. used.writes \in Nat /\ MaxWrites \in Nat
    BY DiskFacts
  <2> QED
    BY <1>1, <2>1
<1> HIDE DEF w
<1>4. Last'.recs = Append(Last.recs, w) /\ \A s \in Segs : s # LastSeg => files'[s] = files[s]
  <2>1. Last' = files'[LastSeg] /\ Last \in File
    BY <1>2, DiskFacts DEF Last
  <2>2. files'[LastSeg] = [files[LastSeg] EXCEPT !.recs = Append(@, w)]
    BY <1>1, <1>2 DEF w
  <2>3. Last' = [Last EXCEPT !.recs = Append(Last.recs, w)]
    BY <2>1, <2>2 DEF Last
  <2>4. Last'.recs = Append(Last.recs, w)
    BY <2>1, <2>3 DEF File
  <2> QED
    BY <1>1, <1>2, <2>4
<1>5. LogBelow(files')[LastSeg] = below
  <2>1. LastSeg \in 0 .. MaxSegs /\ Segs \subseteq Nat
    BY <1>2, ConstantsAssumption DEF Segs
  <2>2. \A s \in Segs : s < LastSeg => Content(files'[s]) = Content(files[s])
    BY <1>4, <2>1
  <2> QED
    BY <2>1, <2>2, SameLogBelow
<1> HIDE DEF below
<1>6. /\ DiskLog \in Seq(1 .. MaxWrites) /\ Len(DiskLog) = LsnAfter(hrkm) + Len(Last.recs)
      /\ below \in Seq(1 .. MaxWrites) /\ Last.recs \in Seq(1 .. MaxWrites)
      /\ DiskLog = below \o Last.recs
  BY LogIs DEF below
<1>7. DiskLog' = below \o Last'.recs
  <2>1. GoodDisk(files', hrkm', used'.writes)
    BY DEF IInv
  <2>2. LogBelow(files')[MaxSegs] = LogBelow(files')[Len(hrkm')] \o files'[Len(hrkm')].recs
    BY <2>1, LogOfDisk
  <2> QED
    BY <1>1, <1>5, <2>2 DEF DiskLog, Last, LastSeg
<1>8. DiskLog' = Append(DiskLog, w)
  <2>1. below \o Append(Last.recs, w) = Append(below \o Last.recs, w)
    BY <1>3, <1>6
  <2> QED
    BY <1>4, <1>6, <1>7, <2>1
<1>9. Len(DiskLog') = nextLsn + 1
  BY <1>2, <1>3, <1>6, <1>8, AppendProperties
<1>10. CASE UNCHANGED acked
  <2>1. Log!Record(w)
    BY <1>1, <1>8, <1>10 DEF Log!Record
  <2> QED
    BY <1>3, <2>1 DEF Log!Next
<1>11. CASE ~always /\ acked' = nextLsn + 1
  <2>1. Log!Accept(w)
    BY <1>1, <1>8, <1>9, <1>11 DEF Log!Accept
  <2> QED
    BY <1>3, <2>1 DEF Log!Next
<1> QED
  BY <1>10, <1>11 DEF WriteRecord

\* An answer of an append or a flush covers the whole log.
LEMMA AnswerCovers ==
    ASSUME Environment, IInv, IInv', UNCHANGED always, SyncAppend \/ SyncFlush
    PROVE  [Log!Next]_(Log!vars)
<1>1. /\ mode = "up" /\ active # None /\ pc \in {"wsync", "flush"} /\ UNCHANGED hrkm
  BY DEF SyncAppend, SyncFlush, IInv, UpInv
<1>2. /\ pc = "wsync" => nextLsn + 1 = Len(DiskLog) /\ acked < Len(DiskLog)
      /\ pc = "flush" => nextLsn = Len(DiskLog)
  <2>1. /\ Last.base = LsnAfter(hrkm) /\ nextLsn \in Nat /\ ~syncError
        /\ pc # "wsync" => nextLsn = Last.base + Len(Last.recs)
        /\ pc = "wsync" => nextLsn + 1 = Last.base + Len(Last.recs) /\ acked <= nextLsn
    BY <1>1, WriterFacts
  <2>2. Len(DiskLog) = LsnAfter(hrkm) + Len(Last.recs) /\ acked \in Nat
    <3>1. acked \in 0 .. MaxWrites
      BY DEF IInv, MemoryOK
    <3> QED
      BY <3>1, LogIs
  <2> QED
    BY <2>1, <2>2
<1>3. \A s \in Segs : files'[s].recs = files[s].recs
  <2>1. files \in [Segs -> File] /\ \A s \in Segs : files[s] \in File
    BY DiskFacts
  <2>2. SyncFailed(files[active]) = {files[active]}
    BY DEF Environment, SyncFailed
  <2> DEFINE f == Synced(files[active])
  <2>3. files' \in {[files EXCEPT ![active] = f], [files EXCEPT ![active] = files[active]]}
    BY <2>2 DEF SyncAppend, SyncFlush
  <2>4. active \in Segs => f.recs = files[active].recs
    BY <2>1, RecsStay
  <2> HIDE DEF f
  <2>5. \A s \in Segs : /\ [files EXCEPT ![active] = f][s].recs = files[s].recs
                        /\ [files EXCEPT ![active] = files[active]][s].recs = files[s].recs
    BY <2>1, <2>4, OneFile
  <2> QED
    BY <2>3, <2>5
<1>4. DiskLog' = DiskLog
  BY <1>3, SameLog
<1>5. CASE UNCHANGED answers
  BY <1>3, <1>5, QuietStutters
<1>6. CASE SyncAppend /\ acked' = nextLsn + 1 /\ promised' = IF always THEN nextLsn + 1 ELSE promised
  <2>1. Log!Ack
    BY <1>2, <1>4, <1>6 DEF SyncAppend, Log!Ack
  <2> QED
    BY <2>1 DEF Log!Next
<1>7. CASE SyncFlush /\ promised' = nextLsn
  <2>1. Log!Flush
    BY <1>2, <1>4, <1>7 DEF SyncFlush, Log!Flush
  <2> QED
    BY <2>1 DEF Log!Next
<1> QED
  BY <1>5, <1>6, <1>7 DEF SyncAppend, SyncFlush, answers

\* Part of a sequence that ends inside its second half.
LEMMA SubSeqOfJoined ==
    ASSUME NEW a \in Seq(1 .. MaxWrites), NEW b \in Seq(1 .. MaxWrites), NEW k \in 0 .. Len(b)
    PROVE  SubSeq(a \o b, 1, Len(a) + k) = a \o SubSeq(b, 1, k)
<1> DEFINE c == SubSeq(b, 1, k)
           l == SubSeq(a \o b, 1, Len(a) + k)
           r == a \o c
           n == Len(a) + k
<1>1. Len(a) \in Nat /\ Len(b) \in Nat /\ k \in Nat /\ k <= Len(b)
  BY LenProperties
<1>2. /\ a \o b \in Seq(1 .. MaxWrites) /\ Len(a \o b) = Len(a) + Len(b)
      /\ \A i \in 1 .. Len(a) + Len(b) : (a \o b)[i] = IF i <= Len(a) THEN a[i] ELSE b[i - Len(a)]
  BY ConcatProperties
<1>3. c \in Seq(1 .. MaxWrites) /\ Len(c) = k /\ \A i \in 1 .. k : c[i] = b[i]
  <2>1. ASSUME NEW i \in 1 .. k PROVE b[i] \in 1 .. MaxWrites
    <3>1. i \in 1 .. Len(b)
      BY <1>1
    <3> QED
      BY <3>1, ElementOfSeq
  <2>2. 1 \in Int /\ k \in Int /\ (IF 1 <= k THEN k - 1 + 1 ELSE 0) = k /\ k - 1 + 1 = k
        /\ \A i \in 1 .. k : 1 + i - 1 = i
    BY <1>1
  <2> QED
    BY <2>1, <2>2, SubSeqProperties
<1>4. l \in Seq(1 .. MaxWrites) /\ Len(l) = n /\ \A i \in 1 .. n : l[i] = (a \o b)[i]
  <2>1. ASSUME NEW i \in 1 .. n PROVE (a \o b)[i] \in 1 .. MaxWrites
    <3>1. i \in 1 .. Len(a \o b)
      BY <1>1, <1>2
    <3> QED
      BY <1>2, <3>1, ElementOfSeq
  <2>2. 1 \in Int /\ n \in Int /\ (IF 1 <= n THEN n - 1 + 1 ELSE 0) = n /\ n - 1 + 1 = n
        /\ \A i \in 1 .. n : 1 + i - 1 = i
    BY <1>1
  <2> HIDE DEF n
  <2> QED
    BY <2>1, <2>2, SubSeqProperties DEF n
<1> HIDE DEF c
<1>5. /\ r \in Seq(1 .. MaxWrites) /\ Len(r) = n
      /\ \A i \in 1 .. n : r[i] = IF i <= Len(a) THEN a[i] ELSE c[i - Len(a)]
  BY <1>3, ConcatProperties
<1>6. ASSUME NEW i \in 1 .. n PROVE l[i] = r[i]
  <2>1. i \in 1 .. Len(a) + Len(b) /\ (~(i <= Len(a)) => i - Len(a) \in 1 .. k)
    BY <1>1
  <2> HIDE DEF l, r, n
  <2> QED
    BY <1>2, <1>3, <1>4, <1>5, <2>1
<1> HIDE DEF l, r
<1>7. l = r
  BY <1>4, <1>5, <1>6, SeqEqual
<1> QED
  BY <1>7 DEF l, r, c

\* A power failure costs the end of the log, and nothing that was promised.
LEMMA PowerLossLoses ==
    ASSUME Environment, IInv, IInv', UNCHANGED always, PowerLoss
    PROVE  [Log!Next]_(Log!vars)
<1>1. /\ LastSeg' = LastSeg /\ UNCHANGED <<hrkm, promised>>
      /\ Len(Last'.recs) \in Last.durable .. Len(Last.recs)
      /\ Last'.recs = SubSeq(Last.recs, 1, Len(Last'.recs))
      /\ \A s \in Segs : s < LastSeg => Len(files'[s].recs) = Len(files[s].recs)
      /\ \A s \in Segs : files'[s].recs = SubSeq(files[s].recs, 1, Len(files'[s].recs))
      /\ acked' = IF acked < Len(DiskLog') THEN acked ELSE Len(DiskLog')
  BY DiskSurvives DEF PowerLoss
<1> DEFINE below == LogBelow(files)[LastSeg]
           k == Len(Last'.recs)
<1>2. LogBelow(files')[LastSeg] = below
  <2>1. LastSeg \in 0 .. MaxSegs /\ Segs \subseteq Nat
    BY DiskFacts, ConstantsAssumption DEF Segs
  <2>2. ASSUME NEW s \in Segs, s < LastSeg PROVE Content(files'[s]) = Content(files[s])
    <3>1. files[s] \in File /\ FileOK(files[s]) /\ FileOK(files'[s])
      BY DEF IInv, GoodDisk
    <3>2. files[s].recs \in Seq(1 .. MaxWrites)
      BY <3>1, FileFields
    <3>3. SubSeq(files[s].recs, 1, Len(files[s].recs)) = files[s].recs
      BY <3>2, SubSeqFull
    <3>4. files'[s].recs = files[s].recs
      BY <1>1, <2>2, <3>3
    <3> QED
      BY <3>1, <3>4 DEF FileOK, Content
  <2> QED
    BY <2>1, <2>2, SameLogBelow
<1>3. /\ DiskLog \in Seq(1 .. MaxWrites) /\ Len(DiskLog) = LsnAfter(hrkm) + Len(Last.recs)
      /\ below \in Seq(1 .. MaxWrites) /\ Len(below) = LsnAfter(hrkm)
      /\ Last.recs \in Seq(1 .. MaxWrites) /\ DiskLog = below \o Last.recs
  BY LogIs
<1>4. /\ LsnAfter(hrkm) \in Nat /\ Last.durable \in Nat /\ Len(Last.recs) \in Nat
      /\ promised \in Nat /\ promised <= LsnAfter(hrkm) + Last.durable
  BY DiskFacts DEF IInv, MemoryOK, AnswersInv
<1>5. k \in Nat /\ k \in 0 .. Len(Last.recs) /\ Last.durable <= k /\ k <= Len(Last.recs)
  BY <1>1, <1>4
<1>6. Len(DiskLog') = LsnAfter(hrkm) + k /\ DiskLog' = below \o Last'.recs
  <2>1. GoodDisk(files', hrkm', used'.writes)
    BY DEF IInv
  <2>2. /\ LogBelow(files')[MaxSegs] = LogBelow(files')[Len(hrkm')] \o files'[Len(hrkm')].recs
        /\ Len(LogBelow(files')[MaxSegs]) = LsnAfter(hrkm') + Len(files'[Len(hrkm')].recs)
    BY <2>1, LogOfDisk
  <2> QED
    BY <1>1, <1>2, <2>2 DEF DiskLog, Last, LastSeg
<1> DEFINE n == Len(DiskLog')
<1> HIDE DEF below, k
<1>7. DiskLog' = SubSeq(DiskLog, 1, n)
  <2>1. Last'.recs = SubSeq(Last.recs, 1, k)
    BY <1>1 DEF k
  <2>2. SubSeq(below \o Last.recs, 1, Len(below) + k) = below \o SubSeq(Last.recs, 1, k)
    BY <1>3, <1>5, SubSeqOfJoined
  <2> QED
    BY <1>3, <1>6, <2>1, <2>2
<1>8. n \in promised .. Len(DiskLog)
  BY SMTT(20), <1>3, <1>4, <1>5, <1>6
<1>9. Log!Lose
  <2> HIDE DEF n
  <2>1. acked' = IF acked < n THEN acked ELSE n
    BY <1>1 DEF n
  <2> QED
    BY <1>1, <1>7, <1>8, <2>1 DEF Log!Lose
<1> QED
  BY <1>9 DEF Log!Next

\* Every step of the engine is a step of DurableLog or a stutter.
LEMMA StepImplements ==
    ASSUME Environment, IInv, IInv', [Next]_vars
    PROVE  [Log!Next]_(Log!vars)
<1>1. UNCHANGED always
  BY DEF Next, vars
<1>2. CASE WriteRecord
  BY <1>1, <1>2, RecordExtends
<1>3. CASE SyncAppend \/ SyncFlush
  BY <1>1, <1>3, AnswerCovers
<1>4. CASE PowerLoss
  BY <1>1, <1>4, PowerLossLoses
<1>5. CASE Operation /\ ~WriteRecord /\ ~SyncAppend /\ ~SyncFlush
  BY <1>1, <1>5, OperationQuiet, QuietStutters
<1>6. CASE Begin \/ Worker \/ Boot \/ Close \/ Kill \/ (\E s \in Segs : Writeback(s)) \/ UNCHANGED vars
  BY <1>1, <1>6, OthersQuiet, QuietStutters
<1> QED
  BY <1>2, <1>3, <1>4, <1>5, <1>6 DEF Next, Crash

LEMMA StartImplements == Init => Log!Init
<1> SUFFICES ASSUME Init PROVE Log!Init
  OBVIOUS
<1>1. IInv
  BY InitInv
<1>2. /\ always \in BOOLEAN /\ acked = 0 /\ promised = 0 /\ hrkm = << >>
      /\ \A s \in Segs : files[s] = NoFile
  BY ConstantsAssumption DEF Init
<1>3. LsnAfter(hrkm) = 0 /\ Last.recs = << >>
  BY <1>1, <1>2, DiskFacts, NoFileOK DEF LsnAfter, Last
<1>4. DiskLog \in Seq(1 .. MaxWrites) /\ Len(DiskLog) = 0
  BY <1>1, <1>3, LogIs, EmptySeq
<1>5. DiskLog = << >>
  BY <1>4, EmptySeq
<1> QED
  BY <1>2, <1>5 DEF Log!Init

\* The engine keeps the promises of DurableLog for every number of segments,
\* records, crashes and faults: a reader and a caller cannot tell the segments,
\* the seals, the kills and the boots of the engine from one log that only a
\* power failure shortens, and never below what was answered as durable.
THEOREM Refinement == ASSUME Environment PROVE Spec => KeepsPromises
<1>1. Init => Log!Init
  BY StartImplements
<1>2. IInv /\ IInv' /\ [Next]_vars => [Log!Next]_(Log!vars)
  BY StepImplements
<1> QED
  BY <1>1, <1>2, Invariant, PTL DEF Spec, KeepsPromises, Log!Spec

-----------------------------------------------------------------------------
(* What DurableLog promises follows from its actions, whatever the log is    *)
(* made of, and carries over to the engine.                                  *)

\* A prefix of the log is a log.
LEMMA PrefixIsLog ==
    ASSUME NEW S, NEW s \in Seq(S), NEW n \in 0 .. Len(s)
    PROVE  SubSeq(s, 1, n) \in Seq(S) /\ Len(SubSeq(s, 1, n)) = n
  BY SMT

\* The log and the two histories of DurableLog keep their types.
THEOREM LogTyped == Log!Spec => []Log!TypeOK
<1>1. Log!Init => Log!TypeOK
  BY DEF Log!Init, Log!TypeOK
<1>2. Log!TypeOK /\ [Log!Next]_(Log!vars) => Log!TypeOK'
  <2> SUFFICES ASSUME Log!TypeOK, [Log!Next]_(Log!vars) PROVE Log!TypeOK'
    OBVIOUS
  <2> USE DEF Log!TypeOK
  <2>0. always' = always
    BY DEF Log!Next, Log!vars
  <2>1. ASSUME NEW w \in 1 .. MaxWrites, Log!Record(w) PROVE Log!TypeOK'
    BY <2>0, <2>1 DEF Log!Record
  <2>2. ASSUME NEW w \in 1 .. MaxWrites, Log!Accept(w) PROVE Log!TypeOK'
    BY <2>0, <2>2 DEF Log!Accept
  <2>3. CASE Log!Ack
    BY <2>0, <2>3 DEF Log!Ack
  <2>4. CASE Log!Flush
    BY <2>0, <2>4 DEF Log!Flush
  <2>5. CASE Log!Lose
    <3>1. PICK n \in promised .. Len(DiskLog) :
            /\ DiskLog' = SubSeq(DiskLog, 1, n)
            /\ acked' = IF acked < n THEN acked ELSE n
            /\ UNCHANGED promised
      BY <2>5 DEF Log!Lose
    <3>2. n \in 0 .. Len(DiskLog)
      OBVIOUS
    <3>3. DiskLog' \in Seq(1 .. MaxWrites)
      BY <3>1, <3>2, PrefixIsLog
    <3>4. acked' \in Nat
      BY <3>1
    <3> QED
      BY <2>0, <3>1, <3>3, <3>4
  <2>6. CASE UNCHANGED Log!vars
    BY <2>0, <2>6 DEF Log!vars
  <2> QED
    BY <2>1, <2>2, <2>3, <2>4, <2>5, <2>6 DEF Log!Next
<1> QED
  BY <1>1, <1>2, PTL DEF Log!Spec

\* The abstract log never answers about a write it does not hold: a power
\* failure cuts it no further than the last promise, and takes back the rest.
LEMMA LogKeepsPromises == Log!Spec => []Log!PromisesHeld
<1>1. Log!Init => Log!PromisesHeld
  BY DEF Log!Init, Log!PromisesHeld
<1>2. Log!TypeOK /\ Log!PromisesHeld /\ [Log!Next]_(Log!vars) => Log!PromisesHeld'
  <2> SUFFICES ASSUME Log!TypeOK, Log!PromisesHeld, [Log!Next]_(Log!vars)
               PROVE  Log!PromisesHeld'
    OBVIOUS
  <2> USE DEF Log!TypeOK, Log!PromisesHeld
  <2>1. ASSUME NEW w \in 1 .. MaxWrites, Log!Record(w) PROVE Log!PromisesHeld'
    BY <2>1 DEF Log!Record
  <2>2. ASSUME NEW w \in 1 .. MaxWrites, Log!Accept(w) PROVE Log!PromisesHeld'
    BY <2>2 DEF Log!Accept
  <2>3. CASE Log!Ack
    BY <2>3 DEF Log!Ack
  <2>4. CASE Log!Flush
    BY <2>4 DEF Log!Flush
  <2>5. CASE Log!Lose
    <3>1. PICK n \in promised .. Len(DiskLog) :
            /\ DiskLog' = SubSeq(DiskLog, 1, n)
            /\ acked' = IF acked < n THEN acked ELSE n
            /\ UNCHANGED promised
      BY <2>5 DEF Log!Lose
    <3>2. n \in 0 .. Len(DiskLog)
      OBVIOUS
    <3> QED
      BY <3>1, <3>2, PrefixIsLog
  <2>6. CASE UNCHANGED Log!vars
    BY <2>6 DEF Log!vars
  <2> QED
    BY <2>1, <2>2, <2>3, <2>4, <2>5, <2>6 DEF Log!Next
<1> QED
  BY <1>1, <1>2, LogTyped, PTL DEF Log!Spec

\* Every answered record is in the directory, every promised one survives any
\* power failure: the promise of DurableLog, kept by the engine.
THEOREM PromisesAreHeld == ASSUME Environment PROVE Spec => []PromisesHeld
  BY Refinement, LogKeepsPromises, PTL DEF KeepsPromises, PromisesHeld
=============================================================================
