-------------------------- MODULE Upkeep_proofs ---------------------------
(***************************************************************************)
(* Two parts that MCUpkeep checks side by side.                            *)
(*                                                                         *)
(* EarlierHoldsHold, for every set of officers, holds and segments and     *)
(* every scope.  Between the moment a pass wrote the flags and its         *)
(* collection, the flags of what it saw sealed must stay (FlagsOfPass).    *)
(* Only an officer can take one away, by writing the flags from the holds  *)
(* it read; what it did not know of is what the pass then misses.          *)
(*                                                                         *)
(* CommittedIsFound, when a file with pages in its free list is not        *)
(* written to after it was opened again: the pages of the durable          *)
(* superblock, those of the open tree and those an allocation may still    *)
(* give are kept apart (ShadowInv, which also names the pages of each      *)
(* chain, since ChainOf computes them from the file).  The same invariant  *)
(* gives every page of an open tree one role (EachPageOnce): the chains it *)
(* names are those the operators of ShadowPaging compute, and until a      *)
(* crash no page is outside them (Whole).                                  *)
(*                                                                         *)
(* UpkeepTypeOK, for the two side by side: each part's behaviour is one of *)
(* its own specification, whichever moves.                                 *)
(***************************************************************************)
EXTENDS MCUpkeep, FiniteSetTheorems, NaturalsInduction, WellFoundedInduction, SequenceTheorems,
        TLAPS

PassRecords == [at : {"wait", "apply", "collect"}, ranges : SUBSET Holds,
                seen : SUBSET Segments, missed : SUBSET Segments]

\* What an officer is about to confirm or to release is recorded.
HoldsAreRecorded ==
    \A o \in Officers : officer[o].at \in {"free", "read", "apply"} => officer[o].hold \subseteq placed

PassKnowsRecorded == gc.ranges \subseteq placed

DownIsIdle == ~up => gc = WaitingGc

\* What may be collected was there when the pass wrote the flags, and has its
\* flag if a hold the pass read still covers it, unless an officer who did not
\* know of a hold on it wrote the flags since.
FlagsOfPass ==
    gc.at = "collect" =>
        /\ spare \subseteq gc.seen /\ gc.seen \subseteq sealed
        /\ \A s \in gc.seen \cap Covered(gc.ranges \cap Active) : flag[s] \/ s \in gc.missed

IInv == HoldsTypeOK /\ HoldsAreRecorded

PassInv == IInv /\ PassKnowsRecorded /\ DownIsIdle /\ FlagsOfPass

-----------------------------------------------------------------------------
(* Types *)

LEMMA CoveredSegments ==
    ASSUME LegalHoldsAssumption, NEW hs \in SUBSET Holds
    PROVE  Covered(hs) \subseteq Segments
  BY DEF LegalHoldsAssumption, Covered

LEMMA FlagTypes ==
    ASSUME HoldsTypeOK
    PROVE  /\ \A h \in Holds : Marked(h) \in [Segments -> BOOLEAN]
           /\ \A hs \in SUBSET Holds : Derived(hs) \in [Segments -> BOOLEAN]
  BY DEF HoldsTypeOK, Marked, Derived

\* A call that goes on, and one that ends, leave well-formed calls.
LEMMA OfficerTypes ==
    ASSUME HoldsTypeOK, NEW o \in Officers
    PROVE  /\ OfficerEnds(o) => officer' \in [Officers -> [at : {"idle", "mark", "record", "free", "read", "apply"},
                                 hold : SUBSET Holds, ranges : SUBSET Holds]]
           /\ \A at \in {"idle", "mark", "record", "free", "read", "apply"}, hold, ranges \in SUBSET Holds :
                 OfficerGoes(o, at, hold, ranges) =>
                    officer' \in [Officers -> [at : {"idle", "mark", "record", "free", "read", "apply"},
                                 hold : SUBSET Holds, ranges : SUBSET Holds]]
  BY DEF HoldsTypeOK, OfficerEnds, OfficerGoes, IdleOfficer

LEMMA FailTypes ==
    ASSUME LegalHoldsAssumption, HoldsTypeOK, Fail
    PROVE  holdsUsed' \in [faults : 0 .. MaxHoldFaults, kills : 0 .. MaxHoldKills]
  BY DEF LegalHoldsAssumption, HoldsTypeOK, Fail

\* What an officer did not know of are segments.
LEMMA MissesTyped ==
    ASSUME LegalHoldsAssumption, HoldsTypeOK, NEW hs, PassMisses(hs)
    PROVE  gc' \in PassRecords
<1>1. gc \in PassRecords
  BY DEF HoldsTypeOK, PassRecords
<1>2. Covered(Active \ hs) \subseteq Segments
  BY CoveredSegments DEF Active, HoldsTypeOK
<1>3. CASE gc' = [gc EXCEPT !.missed = @ \cup Covered(Active \ hs)]
  <2>1. gc' = [at |-> gc.at, ranges |-> gc.ranges, seen |-> gc.seen,
               missed |-> gc.missed \cup Covered(Active \ hs)]
    BY <1>1, <1>3 DEF PassRecords
  <2> QED
    BY <1>1, <1>2, <2>1 DEF PassRecords
<1> QED
  BY <1>1, <1>3 DEF PassMisses

\* Types, and the order of the three histories: nothing is released or
\* confirmed that the log does not record.
THEOREM Invariant == HoldsSpec => []IInv
<1>1. HoldsInit => IInv
  BY LegalHoldsAssumption DEF LegalHoldsAssumption, HoldsInit, IInv, HoldsTypeOK, HoldsAreRecorded, IdleOfficer, WaitingGc
<1>2. IInv /\ [HoldsNext]_holdsVars => IInv'
  <2> SUFFICES ASSUME IInv, [HoldsNext]_holdsVars PROVE IInv'
    OBVIOUS
  <2>0. HoldsTypeOK /\ HoldsAreRecorded
    BY DEF IInv
  <2>1. ASSUME NEW o \in Officers, NEW h \in Holds, Place(o, h) PROVE IInv'
    BY <2>0, <2>1, OfficerTypes DEF Place, OfficerGoes, At, holds, catalogue, IInv, HoldsTypeOK, HoldsAreRecorded
  <2>2. ASSUME NEW o \in Officers, NEW h \in Holds, Release(o, h) PROVE IInv'
    BY <2>0, <2>2, OfficerTypes DEF Release, OfficerGoes, At, holds, catalogue, Active, IInv, HoldsTypeOK, HoldsAreRecorded
  <2>3. ASSUME NEW o \in Officers, Mark(o) PROVE IInv'
    <3>1. PICK h \in officer[o].hold :
            \/ /\ Commit(Marked(h)) \/ UNCHANGED <<flag, hrkm>>
               /\ OfficerGoes(o, "record", {h}, {})
               /\ UNCHANGED holdsUsed
            \/ FlagCommitFails(Marked(h)) /\ OfficerEnds(o)
      BY <2>3 DEF Mark
    <3>2. h \in Holds
      BY <2>0, <3>1 DEF HoldsTypeOK
    <3>3. UNCHANGED <<holds, sealed, spare, collected, gc, up>>
      BY <2>3 DEF Mark
    <3>4. CASE OfficerGoes(o, "record", {h}, {})
      <4>1. flag' \in [Segments -> BOOLEAN] /\ hrkm' \in [Segments -> BOOLEAN]
        BY <2>0, <3>1, <3>2, FlagTypes DEF Commit, FlagCommitFails, HoldsTypeOK
      <4>2. holdsUsed' \in [faults : 0 .. MaxHoldFaults, kills : 0 .. MaxHoldKills]
        BY <2>0, <3>1, LegalHoldsAssumption, FailTypes DEF FlagCommitFails, HoldsTypeOK
      <4> QED
        BY <2>0, <3>2, <3>3, <3>4, <4>1, <4>2, OfficerTypes DEF holds, OfficerGoes, IInv, HoldsTypeOK, HoldsAreRecorded
    <3>5. CASE FlagCommitFails(Marked(h)) /\ OfficerEnds(o)
      <4>1. flag' \in [Segments -> BOOLEAN] /\ hrkm' \in [Segments -> BOOLEAN]
        BY <2>0, <3>2, <3>5, FlagTypes DEF FlagCommitFails, HoldsTypeOK
      <4>2. holdsUsed' \in [faults : 0 .. MaxHoldFaults, kills : 0 .. MaxHoldKills]
        BY <2>0, <3>5, LegalHoldsAssumption, FailTypes DEF FlagCommitFails
      <4> QED
        BY <2>0, <3>3, <3>5, <4>1, <4>2, OfficerTypes DEF holds, OfficerEnds, IdleOfficer, IInv, HoldsTypeOK, HoldsAreRecorded
    <3> QED
      BY <3>1, <3>4, <3>5
  <2>4. ASSUME NEW o \in Officers, RecordHold(o) PROVE IInv'
    <3>1. officer[o].hold \in SUBSET Holds
      BY <2>0 DEF HoldsTypeOK
    <3>2. CASE placed' = placed \cup officer[o].hold /\ OfficerGoes(o, "read", officer[o].hold, {}) /\ UNCHANGED holdsUsed
      BY <2>0, <2>4, <3>1, <3>2, OfficerTypes DEF RecordHold, OfficerGoes, holds, catalogue, IInv, HoldsTypeOK, HoldsAreRecorded
    <3>3. CASE Fail /\ OfficerEnds(o) /\ placed' \in {placed, placed \cup officer[o].hold}
      BY <2>0, <2>4, <3>1, <3>3, OfficerTypes, LegalHoldsAssumption, FailTypes
         DEF RecordHold, OfficerEnds, IdleOfficer, catalogue, IInv, HoldsTypeOK, HoldsAreRecorded
    <3> QED
      BY <2>4, <3>2, <3>3 DEF RecordHold
  <2>5. ASSUME NEW o \in Officers, Free(o) PROVE IInv'
    <3>1. officer[o].hold \in SUBSET placed
      BY <2>0, <2>5 DEF HoldsAreRecorded, Free, At
    <3>2. CASE released' = released \cup officer[o].hold /\ OfficerGoes(o, "read", {}, {}) /\ UNCHANGED holdsUsed
      BY <2>0, <2>5, <3>1, <3>2, OfficerTypes DEF Free, OfficerGoes, catalogue, IInv, HoldsTypeOK, HoldsAreRecorded
    <3>3. CASE Fail /\ OfficerEnds(o) /\ released' \in {released, released \cup officer[o].hold}
      BY <2>0, <2>5, <3>1, <3>3, OfficerTypes, LegalHoldsAssumption, FailTypes
         DEF Free, OfficerEnds, IdleOfficer, catalogue, IInv, HoldsTypeOK, HoldsAreRecorded
    <3> QED
      BY <2>5, <3>2, <3>3 DEF Free
  <2>6. ASSUME NEW o \in Officers, OfficerReads(o) PROVE IInv'
    <3>1. officer[o].hold \in SUBSET Holds /\ Active \in SUBSET Holds
      BY <2>0 DEF HoldsTypeOK, Active
    <3>2. CASE OfficerGoes(o, "apply", officer[o].hold, Active) /\ UNCHANGED holdsUsed
      BY <2>0, <2>6, <3>1, <3>2, OfficerTypes DEF OfficerReads, At, OfficerGoes, holds, catalogue, IInv, HoldsTypeOK, HoldsAreRecorded
    <3>3. CASE Fail /\ OfficerEnds(o)
      BY <2>0, <2>6, <3>3, OfficerTypes, LegalHoldsAssumption, FailTypes
         DEF OfficerReads, OfficerEnds, IdleOfficer, holds, catalogue, IInv, HoldsTypeOK, HoldsAreRecorded
    <3> QED
      BY <2>6, <3>2, <3>3 DEF OfficerReads
  <2>7. ASSUME NEW o \in Officers, OfficerApplies(o) PROVE IInv'
    <3>1. officer[o].hold \in SUBSET placed /\ officer[o].ranges \in SUBSET Holds
      BY <2>0, <2>7 DEF HoldsAreRecorded, HoldsTypeOK, OfficerApplies, At
    <3>2. flag' \in [Segments -> BOOLEAN] /\ hrkm' \in [Segments -> BOOLEAN]
      BY <2>0, <2>7, <3>1, FlagTypes DEF OfficerApplies, ReconcileFlags, Commit, FlagCommitFails, HoldsTypeOK
    <3>3. holdsUsed' \in [faults : 0 .. MaxHoldFaults, kills : 0 .. MaxHoldKills]
      BY <2>0, <2>7, LegalHoldsAssumption, FailTypes DEF OfficerApplies, FlagCommitFails, HoldsTypeOK
    <3>4. answered' \subseteq placed
      BY <2>0, <2>7, <3>1 DEF OfficerApplies, HoldsTypeOK
    <3>5. gc' \in PassRecords
      <4>1. PassMisses(officer[o].ranges) \/ gc' = gc
        BY <2>7 DEF OfficerApplies
      <4> QED
        BY <2>0, <4>1, LegalHoldsAssumption, MissesTyped DEF PassRecords, HoldsTypeOK
    <3>6. UNCHANGED <<placed, released, sealed, spare, collected, up>> /\ OfficerEnds(o)
      BY <2>7 DEF OfficerApplies
    <3> QED
      BY <2>0, <3>2, <3>3, <3>4, <3>5, <3>6, OfficerTypes
         DEF OfficerEnds, IdleOfficer, IInv, HoldsTypeOK, HoldsAreRecorded, PassRecords
  <2>8. CASE GcReads
    BY <2>0, <2>8 DEF GcReads, WaitingGc, Active, holds, catalogue, IInv, HoldsTypeOK, HoldsAreRecorded
  <2>9. CASE GcApplies
    <3>1. gc.ranges \in SUBSET Holds
      BY <2>0 DEF HoldsTypeOK
    <3>2. flag' \in [Segments -> BOOLEAN] /\ hrkm' \in [Segments -> BOOLEAN]
      BY <2>0, <2>9, <3>1, FlagTypes DEF GcApplies, ReconcileFlags, Commit, FlagCommitFails, HoldsTypeOK
    <3>3. holdsUsed' \in [faults : 0 .. MaxHoldFaults, kills : 0 .. MaxHoldKills]
      BY <2>0, <2>9, LegalHoldsAssumption, FailTypes DEF GcApplies, FlagCommitFails, HoldsTypeOK
    <3>4. gc' \in PassRecords
      <4>1. /\ sealed \in SUBSET Segments
            /\ gc \in PassRecords
        BY <2>0 DEF HoldsTypeOK, PassRecords
      <4>2. gc' = [gc EXCEPT !.at = "collect", !.seen = sealed] \/ gc' = WaitingGc
        BY <2>9 DEF GcApplies
      <4>3. CASE gc' = [gc EXCEPT !.at = "collect", !.seen = sealed]
        <5>1. gc' = [at |-> "collect", ranges |-> gc.ranges, seen |-> sealed, missed |-> gc.missed]
          BY <4>1, <4>3 DEF PassRecords
        <5> QED
          BY <4>1, <5>1 DEF PassRecords
      <4> QED
        BY <4>2, <4>3 DEF WaitingGc, PassRecords
    <3>5. UNCHANGED <<placed, released, answered, sealed, spare, collected, officer, up>>
      BY <2>9 DEF GcApplies, holds
    <3> QED
      BY <2>0, <3>2, <3>3, <3>4, <3>5 DEF IInv, HoldsTypeOK, HoldsAreRecorded, PassRecords
  <2>10. CASE GcCollects
    BY <2>0, <2>10 DEF GcCollects, Collect, WaitingGc, holds, IInv, HoldsTypeOK, HoldsAreRecorded
  <2>11. CASE OfflineGc
    BY <2>0, <2>11 DEF OfflineGc, Collect, holds, IInv, HoldsTypeOK, HoldsAreRecorded
  <2>12. ASSUME NEW s \in Segments, Seal(s) \/ GraceEnds(s) PROVE IInv'
    BY <2>0, <2>12 DEF Seal, GraceEnds, holds, IInv, HoldsTypeOK, HoldsAreRecorded
  <2>13. CASE HoldsKill
    <3>1. holdsUsed' \in [faults : 0 .. MaxHoldFaults, kills : 0 .. MaxHoldKills]
      BY <2>0, <2>13, LegalHoldsAssumption DEF LegalHoldsAssumption, HoldsKill, HoldsTypeOK
    <3>2. UNCHANGED <<placed, released, answered, sealed, spare, collected, flag, hrkm>>
      BY <2>13 DEF HoldsKill, holds, catalogue
    <3>3. /\ officer' = [o \in Officers |-> IdleOfficer]
          /\ gc' = WaitingGc
          /\ up' = FALSE
      BY <2>13 DEF HoldsKill
    <3> QED
      BY <2>0, <3>1, <3>2, <3>3 DEF IdleOfficer, WaitingGc, IInv, HoldsTypeOK, HoldsAreRecorded
  <2>14. CASE HoldsBoot
    BY <2>0, <2>14 DEF HoldsBoot, holds, IInv, HoldsTypeOK, HoldsAreRecorded
  <2>15. CASE UNCHANGED holdsVars
    BY <2>0, <2>15 DEF holdsVars, holds, catalogue, IInv, HoldsTypeOK, HoldsAreRecorded
  <2> QED
    BY <2>1, <2>2, <2>3, <2>4, <2>5, <2>6, <2>7, <2>8, <2>9, <2>10, <2>11, <2>12, <2>13, <2>14, <2>15
       DEF HoldsNext, OfficerStep, GcStep
<1> QED
  BY <1>1, <1>2, PTL DEF HoldsSpec

\* Every variable keeps its type, and nothing is released, answered, spare or
\* collected that was not placed or sealed before.
THEOREM TypeCorrect == HoldsSpec => []HoldsTypeOK
<1>1. IInv => HoldsTypeOK
  BY DEF IInv
<1> QED
  BY <1>1, Invariant, PTL

-----------------------------------------------------------------------------
(* The pass and its flags *)

\* Flags derived from a set of holds protect what the pass relies on, but for
\* what a hold outside the set covers.
LEMMA DerivedKeeps ==
    ASSUME HoldsTypeOK, NEW hs \in SUBSET Holds, gc.seen \subseteq sealed,
           NEW s \in gc.seen \cap Covered(gc.ranges \cap Active)
    PROVE  Derived(hs)[s] \/ s \in Covered(Active \ hs)
<1>1. s \in Segments
  BY DEF HoldsTypeOK
<1>2. s \in Covered(hs) \/ s \in Covered(Active \ hs)
  BY DEF Covered
<1> QED
  BY <1>1, <1>2 DEF Derived

\* Recording more holds does not change which of those the pass read are
\* active, and releasing some only takes from them.
LEMMA ActiveOfPass ==
    ASSUME PassKnowsRecorded, NEW P, placed' = placed \cup P, released' = released, UNCHANGED gc
    PROVE  (gc.ranges \cap Active)' = gc.ranges \cap Active
  BY DEF PassKnowsRecorded, Active

LEMMA CoveredIsMonotone ==
    ASSUME NEW g, NEW h, g \subseteq h
    PROVE  Covered(g) \subseteq Covered(h)
  BY DEF Covered

LEMMA FewerHoldsKeepFlags ==
    ASSUME FlagsOfPass, UNCHANGED <<gc, flag, spare, sealed>>,
           (gc.ranges \cap Active)' \subseteq gc.ranges \cap Active
    PROVE  FlagsOfPass'
<1>1. Covered((gc.ranges \cap Active)') \subseteq Covered(gc.ranges \cap Active)
  BY CoveredIsMonotone
<1>2. Covered(gc.ranges \cap Active)' = Covered((gc.ranges \cap Active)')
  BY DEF Covered
<1> QED
  BY <1>1, <1>2 DEF FlagsOfPass

\* What the pass relies on is only taken away by an officer who did not know of
\* the hold, and then the pass has missed it.
LEMMA PassInvStep ==
    ASSUME LegalHoldsAssumption, PassInv, IInv', [HoldsNext]_holdsVars
    PROVE  PassInv'
<1>0. HoldsTypeOK /\ HoldsAreRecorded /\ PassKnowsRecorded /\ DownIsIdle /\ FlagsOfPass
  BY DEF PassInv, IInv
<1>1. ASSUME NEW o \in Officers, NEW h \in Holds, Place(o, h) PROVE PassInv'
  <2>1. UNCHANGED <<placed, released, catalogue, gc, up>>
    BY <1>1 DEF Place
  <2>2. PassKnowsRecorded' /\ DownIsIdle'
    BY <1>0, <2>1 DEF PassKnowsRecorded, DownIsIdle, Active
  <2>3. FlagsOfPass'
    BY <1>0, <2>1, FewerHoldsKeepFlags DEF catalogue, Active
  <2> QED
    BY <2>2, <2>3 DEF PassInv
<1>2. ASSUME NEW o \in Officers, NEW h \in Holds, Release(o, h) PROVE PassInv'
  <2>1. UNCHANGED <<placed, released, catalogue, gc, up>>
    BY <1>2 DEF Release, holds
  <2>2. PassKnowsRecorded' /\ DownIsIdle'
    BY <1>0, <2>1 DEF PassKnowsRecorded, DownIsIdle, Active
  <2>3. FlagsOfPass'
    BY <1>0, <2>1, FewerHoldsKeepFlags DEF catalogue, Active
  <2> QED
    BY <2>2, <2>3 DEF PassInv
<1>3. ASSUME NEW o \in Officers, Mark(o) PROVE PassInv'
  <2>1. UNCHANGED <<placed, released, sealed, spare, gc, up>>
    BY <1>3 DEF Mark, holds
  <2>2. \A s \in Segments : flag[s] => flag'[s]
    BY <1>0, <1>3 DEF Mark, Commit, FlagCommitFails, Marked, HoldsTypeOK
  <2>3. PassKnowsRecorded' /\ DownIsIdle'
    BY <1>0, <2>1 DEF PassKnowsRecorded, DownIsIdle, Active
  <2>4. Covered(gc.ranges \cap Active)' = Covered(gc.ranges \cap Active)
    BY <2>1 DEF Covered, Active
  <2>5. FlagsOfPass'
    BY <1>0, <2>1, <2>2, <2>4 DEF FlagsOfPass, HoldsTypeOK
  <2> QED
    BY <2>3, <2>5 DEF PassInv
<1>4. ASSUME NEW o \in Officers, RecordHold(o) PROVE PassInv'
  <2>1. UNCHANGED <<released, sealed, spare, flag, gc, up>>
    BY <1>4 DEF RecordHold, catalogue
  <2>2. \E P : placed' = placed \cup P
    <3>1. placed' \in {placed \cup {}, placed \cup officer[o].hold}
      BY <1>4 DEF RecordHold
    <3> QED
      BY <3>1
  <2>3. PassKnowsRecorded' /\ DownIsIdle'
    BY <1>0, <2>1, <2>2 DEF PassKnowsRecorded, DownIsIdle
  <2>4. FlagsOfPass'
    BY <1>0, <2>1, <2>2, ActiveOfPass, FewerHoldsKeepFlags
  <2> QED
    BY <2>3, <2>4 DEF PassInv
<1>5. ASSUME NEW o \in Officers, Free(o) PROVE PassInv'
  <2>1. UNCHANGED <<placed, sealed, spare, flag, gc, up>> /\ released \subseteq released'
    BY <1>5 DEF Free, catalogue
  <2>2. PassKnowsRecorded' /\ DownIsIdle'
    BY <1>0, <2>1 DEF PassKnowsRecorded, DownIsIdle, Active
  <2>3. FlagsOfPass'
    BY <1>0, <2>1, FewerHoldsKeepFlags DEF Active
  <2> QED
    BY <2>2, <2>3 DEF PassInv
<1>6. ASSUME NEW o \in Officers, OfficerReads(o) PROVE PassInv'
  <2>1. UNCHANGED <<placed, released, catalogue, gc, up>>
    BY <1>6 DEF OfficerReads, holds
  <2>2. PassKnowsRecorded' /\ DownIsIdle'
    BY <1>0, <2>1 DEF PassKnowsRecorded, DownIsIdle, Active
  <2>3. FlagsOfPass'
    BY <1>0, <2>1, FewerHoldsKeepFlags DEF catalogue, Active
  <2> QED
    BY <2>2, <2>3 DEF PassInv
<1>7. ASSUME NEW o \in Officers, OfficerApplies(o) PROVE PassInv'
  <2> DEFINE hs == officer[o].ranges
  <2>1. UNCHANGED <<placed, released, sealed, spare, up>> /\ hs \in SUBSET Holds
    BY <1>0, <1>7 DEF OfficerApplies, HoldsTypeOK
  <2>2. \/ flag' = Derived(hs) /\ PassMisses(hs)
        \/ flag' = flag /\ gc' = gc
    BY <1>7 DEF OfficerApplies, ReconcileFlags, Commit, FlagCommitFails
  <2>3. gc'.at = gc.at /\ gc'.ranges = gc.ranges /\ gc'.seen = gc.seen
    BY <1>0, <2>2 DEF PassMisses, HoldsTypeOK
  <2>4. PassKnowsRecorded' /\ DownIsIdle'
    BY <1>0, <2>1, <2>2, <2>3 DEF PassKnowsRecorded, DownIsIdle, PassMisses, WaitingGc
  <2>5. Covered(gc.ranges \cap Active)' = Covered(gc.ranges \cap Active)
    BY <2>1, <2>3 DEF Covered, Active
  <2>6. ASSUME gc.at = "collect", NEW s \in gc.seen \cap Covered(gc.ranges \cap Active)
        PROVE  flag'[s] \/ s \in gc'.missed
    <3>1. CASE flag' = Derived(hs) /\ PassMisses(hs)
      <4>1. gc'.missed = gc.missed \cup Covered(Active \ hs)
        BY <1>0, <2>6, <3>1 DEF PassMisses, HoldsTypeOK
      <4>2. Derived(hs)[s] \/ s \in Covered(Active \ hs)
        BY <1>0, <2>1, <2>6, DerivedKeeps DEF FlagsOfPass
      <4> QED
        BY <3>1, <4>1, <4>2
    <3>2. CASE flag' = flag /\ gc' = gc
      BY <1>0, <2>6, <3>2 DEF FlagsOfPass
    <3> QED
      BY <2>2, <3>1, <3>2
  <2>7. FlagsOfPass'
    BY <1>0, <2>1, <2>3, <2>5, <2>6 DEF FlagsOfPass
  <2> QED
    BY <2>4, <2>7 DEF PassInv
<1>8. CASE GcReads
  <2>1. UNCHANGED <<placed, released, officer, up>> /\ up /\ gc'.at = "apply" /\ gc'.ranges = Active
    BY <1>8 DEF GcReads, holds
  <2> QED
    BY <1>0, <2>1 DEF PassInv, PassKnowsRecorded, DownIsIdle, FlagsOfPass, Active
<1>9. CASE GcApplies
  <2>1. UNCHANGED <<placed, released, officer, up, sealed, spare>> /\ up
    BY <1>9 DEF GcApplies, holds
  <2>2. gc.ranges \in SUBSET Holds /\ spare \subseteq sealed
    BY <1>0 DEF HoldsTypeOK
  <2>3. CASE ReconcileFlags(Derived(gc.ranges)) /\ gc' = [gc EXCEPT !.at = "collect", !.seen = sealed]
    <3>1. gc'.ranges = gc.ranges /\ gc'.seen = sealed
      BY <1>0, <2>3 DEF HoldsTypeOK
    <3>2. flag' = Derived(gc.ranges)
      BY <2>3 DEF ReconcileFlags, Commit
    <3>3. Covered(gc.ranges \cap Active)' \subseteq Covered(gc.ranges)
      BY <2>1, <3>1 DEF Covered, Active
    <3>4. \A s \in sealed \cap Covered(gc.ranges) : flag'[s]
      BY <1>0, <3>2 DEF Derived, HoldsTypeOK
    <3>5. FlagsOfPass'
      BY <2>1, <2>2, <3>1, <3>3, <3>4 DEF FlagsOfPass
    <3> QED
      BY <1>0, <2>1, <3>1, <3>5 DEF PassInv, PassKnowsRecorded, DownIsIdle, Active
  <2>4. CASE gc' = WaitingGc
    BY <1>0, <2>1, <2>4 DEF WaitingGc, PassInv, PassKnowsRecorded, DownIsIdle, FlagsOfPass, Active
  <2> QED
    BY <1>9, <2>3, <2>4 DEF GcApplies
<1>10. CASE GcCollects
  <2>1. UNCHANGED <<placed, released, officer, up>> /\ gc' = WaitingGc
    BY <1>10 DEF GcCollects, holds
  <2> QED
    BY <1>0, <2>1 DEF WaitingGc, PassInv, PassKnowsRecorded, DownIsIdle, FlagsOfPass, Active
<1>11. CASE OfflineGc
  <2>1. UNCHANGED <<placed, released, officer, up, gc>> /\ ~up
    BY <1>11 DEF OfflineGc, holds
  <2> QED
    BY <1>0, <2>1 DEF WaitingGc, PassInv, PassKnowsRecorded, DownIsIdle, FlagsOfPass, Active
<1>12. ASSUME NEW s \in Segments, Seal(s) \/ GraceEnds(s) PROVE PassInv'
  <2>1. UNCHANGED <<placed, released, officer, up, gc, flag>> /\ sealed \subseteq sealed'
    BY <1>12 DEF Seal, GraceEnds, holds
  <2>2. gc.at = "collect" /\ spare \subseteq gc.seen => spare' \subseteq gc.seen
    BY <1>12 DEF Seal, GraceEnds
  <2>3. Covered(gc.ranges \cap Active)' = Covered(gc.ranges \cap Active)
    BY <2>1 DEF Covered, Active
  <2>4. FlagsOfPass'
    BY <1>0, <2>1, <2>2, <2>3 DEF FlagsOfPass
  <2> QED
    BY <1>0, <2>1, <2>4 DEF PassInv, PassKnowsRecorded, DownIsIdle, Active
<1>13. CASE HoldsKill
  <2>1. UNCHANGED <<placed, released>> /\ gc' = WaitingGc /\ officer' = [o \in Officers |-> IdleOfficer]
    BY <1>13 DEF HoldsKill, holds
  <2> QED
    BY <2>1 DEF WaitingGc, IdleOfficer, PassInv, PassKnowsRecorded, DownIsIdle, FlagsOfPass
<1>14. CASE HoldsBoot
  <2>1. UNCHANGED <<placed, released, officer, gc>> /\ gc.at = "wait" /\ up'
    BY <1>0, <1>14 DEF HoldsBoot, DownIsIdle, WaitingGc, holds
  <2> QED
    BY <1>0, <2>1 DEF PassInv, PassKnowsRecorded, DownIsIdle, FlagsOfPass, Active
<1>15. CASE UNCHANGED holdsVars
  <2>1. UNCHANGED <<placed, released, sealed, spare, flag, officer, gc, up>>
    BY <1>15 DEF holdsVars, holds, catalogue
  <2>2. FlagsOfPass'
    BY <1>0, <2>1, FewerHoldsKeepFlags DEF Active
  <2> QED
    BY <1>0, <2>1, <2>2 DEF PassInv, PassKnowsRecorded, DownIsIdle, Active
<1> QED
  BY <1>1, <1>2, <1>3, <1>4, <1>5, <1>6, <1>7, <1>8, <1>9, <1>10, <1>11, <1>12, <1>13, <1>14, <1>15
     DEF HoldsNext, OfficerStep, GcStep

\* A pass respects every hold the log recorded when it began and nobody released
\* meanwhile, however many officers are at work: only a segment whose flag an
\* officer then wrote without knowing of a hold on it may go.
THEOREM EarlierHoldsAreKept == HoldsSpec => EarlierHoldsHold
<1>1. HoldsInit => PassInv
  BY LegalHoldsAssumption DEF LegalHoldsAssumption, HoldsInit, PassInv, IInv, HoldsTypeOK, HoldsAreRecorded,
     PassKnowsRecorded, DownIsIdle, FlagsOfPass, IdleOfficer, WaitingGc
<1>2. PassInv /\ IInv' /\ [HoldsNext]_holdsVars => PassInv'
  BY LegalHoldsAssumption, PassInvStep
<1>3. PassInv /\ [HoldsNext]_holdsVars =>
        [\A s \in collected' \ collected : s \in Covered(gc.ranges \cap Active) => s \in gc.missed]_holdsVars
  <2> SUFFICES ASSUME PassInv, HoldsNext, NEW s \in collected' \ collected,
                      s \in Covered(gc.ranges \cap Active)
               PROVE  s \in gc.missed
    OBVIOUS
  <2>0. FlagsOfPass /\ DownIsIdle
    BY DEF PassInv
  <2>1. GcCollects \/ OfflineGc
    BY DEF HoldsNext, OfficerStep, GcStep, Place, Release, Mark, RecordHold, Free, OfficerReads, OfficerApplies,
       GcReads, GcApplies, Seal, GraceEnds, HoldsKill, HoldsBoot, catalogue
  <2>2. CASE GcCollects
    BY <2>0, <2>2 DEF GcCollects, Collect, FlagsOfPass
  <2>3. CASE OfflineGc
    BY <2>0, <2>3 DEF OfflineGc, DownIsIdle, WaitingGc, Covered
  <2> QED
    BY <2>1, <2>2, <2>3
<1> QED
  BY <1>1, <1>2, <1>3, Invariant, PTL DEF HoldsSpec, EarlierHoldsHold

-----------------------------------------------------------------------------
(* The invariant of ShadowPaging *)

Among(ids) == {ids[i] : i \in DOMAIN ids}

\* Different pages of the file, none of them a superblock or the first root.
Listed(ids, next) ==
    /\ ids \in Seq(3 .. next - 1)
    /\ \A i, j \in DOMAIN ids : ids[i] = ids[j] => i = j

\* The pages X are the chain of the superblock s, in the order L.
Strung(file, s, X, L) ==
    /\ Listed(L, s.nextPage) /\ Among(L) = X
    /\ s.head = IF L = << >> THEN 0 ELSE L[1]
    /\ \A n \in 1 .. Len(L) : file[L[n]].next = IF n = Len(L) THEN 0 ELSE L[n + 1]
Chained(file, s, X) == \E L : Strung(file, s, X, L)

\* The list of the superblock s, the pages X of the chain and the ids that
\* these hold have no page twice.
FreeOK(file, s, X) ==
    /\ s.nextPage \in Nat /\ s.nextPage >= 3
    /\ Listed(s.free, s.nextPage)
    /\ X \subseteq 3 .. s.nextPage - 1 /\ s.head \in X \union {0}
    /\ X \intersect Among(s.free) = {} /\ Chained(file, s, X)
    /\ \A x \in X :
          /\ file[x] = FreePage(file[x].next, file[x].ids)
          /\ file[x].next \in X \union {0}
          /\ s.head # 0 => file[x].next # s.head
          /\ Listed(file[x].ids, s.nextPage)
          /\ Among(file[x].ids) \intersect (X \union Among(s.free)) = {}
    /\ \A x, y \in X : x # y =>
          /\ file[x].next # 0 => file[x].next # file[y].next
          /\ Among(file[x].ids) \intersect Among(file[y].ids) = {}

\* The page may be allocated, now or later.
MayBeTaken(file, s, X, id) ==
    \/ id \in Among(s.free)
    \/ id \in X
    \/ \E x \in X : id \in Among(file[x].ids)
    \/ id \in Nat /\ id >= s.nextPage

\* The pages c are those of the value of a slot.
ChainIs(file, slot, c, next) ==
    /\ slot = [val |-> slot.val, first |-> slot.first, len |-> slot.len]
    /\ Listed(c, next) /\ Len(c) = slot.len /\ slot.len <= MaxChain
    /\ slot.first = IF c = << >> THEN 0 ELSE c[1]
    /\ \A n \in 1 .. Len(c) :
          file[c[n]] = Overflow(slot.val, IF n = Len(c) THEN 0 ELSE c[n + 1])

\* The pages chains[k] are those of the value of the key k, and no others'.
TreeIs(file, slots, root, next, chains) ==
    /\ slots = [k \in TreeKeys |-> slots[k]]
    /\ root \in 2 .. next - 1
    /\ \A k \in TreeKeys :
          ChainIs(file, slots[k], chains[k], next) /\ root \notin Among(chains[k])
    /\ \A k, l \in TreeKeys : k # l => Among(chains[k]) \intersect Among(chains[l]) = {}

PagesOf(root, chains) == {root} \union UNION {Among(chains[k]) : k \in TreeKeys}

\* What is reached from the superblock s is a tree, and s calls none of it free.
DurableIs(file, s, chains) ==
    /\ s = Superblock(s.generation, s.root, s.nextPage, s.head, s.free)
    /\ s.generation \in Nat /\ s.nextPage \in 3 .. MaxPages + 1
    /\ file[s.root] = Leaf(file[s.root].slots)
    /\ TreeIs(file, file[s.root].slots, s.root, s.nextPage, chains)
    /\ Listed(s.free, s.nextPage) /\ Among(s.free) \intersect PagesOf(s.root, chains) = {}

Older(older, s) == Valid(older) => older.generation \in Nat /\ older.generation < s.generation

Working == {"open", "sync", "superblock", "drain"}

\* A pool with the free pages X in its chain: what the tree, the pages that wait,
\* the epoch and those held by the durable superblock have is not free, and what
\* waits is not in the tree.
FreeIn(p, X, id) == MayBeTaken(p.file, p.sb, X, id)

Apart(p, X, root, chains, held) ==
    /\ Listed(p.recycle, p.sb.nextPage) /\ p.epoch \subseteq 3 .. p.sb.nextPage - 1
    /\ Among(p.recycle) \intersect PagesOf(root, chains) = {}
    /\ p.epoch \intersect held = {}
    /\ \A id \in PageIds : FreeIn(p, X, id) =>
          /\ id \notin p.epoch \union Among(p.recycle)
          /\ id \notin PagesOf(root, chains) \union held

\* No page of the file is lost: from the first that may be given on, each is
\* free, in the tree or waiting.
Whole(p, X, root, chains) ==
    \A i \in Nat : i >= 3 =>
        FreeIn(p, X, i) \/ i \in PagesOf(root, chains) \/ i \in Among(p.recycle)

\* The roles of the pages of an open tree.
RolesFit(X, chains, onDisk) ==
    /\ sb = Superblock(sb.generation, tree.root, sb.nextPage, sb.head, sb.free)
    /\ sb.nextPage <= MaxPages + 1
    /\ FreeOK(page, sb, X)
    /\ tree = [root |-> tree.root, slots |-> tree.slots]
    /\ TreeIs(page, tree.slots, tree.root, sb.nextPage, chains)
    /\ Apart(Pool, X, tree.root, chains, PagesOf(page[active].root, onDisk))
    /\ treeUsed.crashes = 0 => Whole(Pool, X, tree.root, chains)

\* The active superblock and its tree are on the disk as they were committed;
\* the other superblock is older, or is being written.
ActiveFits(onDisk) ==
    /\ active \in {0, 1} /\ DurableIs(page, page[active], onDisk)
    /\ page[active].nextPage <= sb.nextPage
    /\ page[active] = synced[active] /\ Older(synced[1 - active], page[active])
    /\ \A id \in PagesOf(page[active].root, onDisk) : page[id] = synced[id]
    /\ kept = MapOf(page[page[active].root].slots)
    /\ sb.generation = page[active].generation + (IF treeAt = "drain" THEN 1 ELSE 0)
    /\ page[1 - active] = IF treeAt = "drain" THEN sb ELSE synced[1 - active]

\* How far the commit is.
CommitFits ==
    /\ tree.root \notin epoch =>
          tree.root = page[active].root /\ page[tree.root] = Leaf(tree.slots)
    /\ treeAt # "open" => page[tree.root] = Leaf(tree.slots) /\ saving = MapOf(tree.slots)
    /\ treeAt = "superblock" => page = synced
    /\ treeAt = "drain" => \A id \in PageIds \ {1 - active} : page[id] = synced[id]

\* A closed tree, or one that is only read: the file has what was committed.
Durable(chosen, onDisk) ==
    /\ page = synced /\ epoch = {} /\ recycle = << >>
    /\ Older(page[1 - chosen], page[chosen]) /\ DurableIs(page, page[chosen], onDisk)
    /\ MapOf(page[page[chosen].root].slots) \in {kept, saving}

FileFits ==
    /\ page = [id \in PageIds |-> page[id]] /\ synced = [id \in PageIds |-> synced[id]]
    /\ treeAt \in Working \union {"closed", "read"}

PageTypes == {"torn", "leaf", "overflow", "free", "superblock"}
TypedPages(file) == \A i \in PageIds : file[i].type \in PageTypes

TreeBounds == {"writes", "commits", "crashes"}
TypesFit ==
    /\ TypedPages(page) /\ TypedPages(synced)
    /\ treeUsed \in [TreeBounds -> Nat] /\ treeUsed.writes <= MaxTreeWrites
    /\ treeAt \notin Working =>
          treeUsed.crashes # 0 /\ active \in {0, 1} /\ tree.root \in PageIds

ShadowInv ==
    /\ FileFits /\ TypesFit
    /\ treeAt \in Working =>
          /\ CommitFits
          /\ \E X, chains, onDisk : RolesFit(X, chains, onDisk) /\ ActiveFits(onDisk)
    /\ treeAt \notin Working => \E chosen \in {0, 1} : \E onDisk : Durable(chosen, onDisk)


-----------------------------------------------------------------------------
(* Numbers, and the recursive functions of ShadowPaging *)

\* A set of natural numbers that is not empty has a smallest element.
LEMMA SmallestExists ==
    ASSUME NEW T \in SUBSET Nat, T # {}
    PROVE  \E x \in T : \A y \in T : x <= y
<1> DEFINE R == OpToRel(<, Nat)
<1>1. IsWellFoundedOn(R, Nat)
  BY NatLessThanWellFounded
<1>2. PICK x \in T : \A y \in T : ~ (<<y, x>> \in R)
  BY <1>1, WFMin
<1>3. ASSUME NEW y \in T PROVE x <= y
  <2>1. ~ (<<y, x>> \in {p \in Nat \X Nat : p[1] < p[2]})
    BY <1>2 DEF OpToRel
  <2> QED
    BY <2>1
<1> QED
  BY <1>3

\* A set that has 0 and, with a number below a bound, the next one, has every
\* number up to the bound.
LEMMA UpTo ==
    ASSUME NEW T, NEW max \in Nat, 0 \in T,
           \A n \in 0 .. max - 1 : n \in T => n + 1 \in T
    PROVE  0 .. max \subseteq T
<1> DEFINE Missing == {n \in 0 .. max : n \notin T}
<1>1. SUFFICES ASSUME Missing # {} PROVE FALSE
  OBVIOUS
<1>2. Missing \in SUBSET Nat
  OBVIOUS
<1>3. PICK n \in Missing : \A k \in Missing : n <= k
  BY <1>1, <1>2, SmallestExists
<1>4. n - 1 \in 0 .. max - 1 /\ n - 1 \notin Missing
  BY <1>3
<1> QED
  BY <1>3, <1>4

\* The step of each of the five recursive functions, from its value x for
\* n - 1 to its value for n.
Stepped(what, x, a, n) ==
    CASE what = "follow"   -> NextOf(a, x)
      [] what = "spill"    -> IF x # 0 /\ a[x].type = "free" THEN a[x].next ELSE 0
      [] what = "allocate" -> AllocateId(x)
      [] what = "recycle"  -> RecycleId(x, a[n])
      [] what = "free"     -> AddToFreeList(x, a[n])

Makes(what, x, a, max, g) ==
    g = [n \in 0 .. max |-> IF n = 0 THEN x ELSE Stepped(what, g[n - 1], a, n)]

\* Each of them is defined up to any bound.
LEMMA MakesExists ==
    ASSUME NEW what, NEW x, NEW a, NEW last \in Nat
    PROVE  \E g : Makes(what, x, a, last, g)
<1> DEFINE T == {k \in Nat : \E g : Makes(what, x, a, k, g)}
<1>1. 0 \in T
  <2> DEFINE g == [n \in 0 .. 0 |-> x]
  <2>1. Makes(what, x, a, 0, g)
    BY DEF Makes
  <2> HIDE DEF g
  <2> QED
    BY <2>1
<1>2. ASSUME NEW k \in 0 .. last - 1, k \in T PROVE k + 1 \in T
  <2>1. PICK h : Makes(what, x, a, k, h)
    BY <1>2
  <2> DEFINE is(f, n) == IF n = 0 THEN x ELSE Stepped(what, f[n - 1], a, n)
  <2>2. \A n \in 0 .. k : h[n] = is(h, n)
    BY <2>1 DEF Makes
  <2> DEFINE g == [n \in 0 .. k + 1 |-> IF n = k + 1 THEN is(h, k + 1) ELSE h[n]]
             gg == [n \in 0 .. k + 1 |-> is(g, n)]
  <2>3. ASSUME NEW n \in 0 .. k + 1 PROVE g[n] = gg[n]
    <3>0. gg[n] = is(g, n) /\ g[n] = (IF n = k + 1 THEN is(h, k + 1) ELSE h[n])
      OBVIOUS
    <3>1. n # 0 => g[n - 1] = h[n - 1]
      <4>1. n # 0 => n - 1 \in 0 .. k + 1 /\ n - 1 # k + 1
        OBVIOUS
      <4> QED
        BY <4>1
    <3>2. n # k + 1 => n \in 0 .. k
      OBVIOUS
    <3> HIDE DEF g, gg
    <3>3. is(g, n) = is(h, n)
      BY <3>1
    <3> HIDE DEF is
    <3> QED
      BY <2>2, <3>0, <3>2, <3>3
  <2>4. g = gg
    BY <2>3
  <2>5. Makes(what, x, a, k + 1, g)
    BY <2>4 DEF Makes
  <2> HIDE DEF g
  <2> QED
    BY <2>5
<1> HIDE DEF T
<1>3. last \in T
  <2>1. 0 .. last \subseteq T
    BY <1>1, <1>2, UpTo
  <2> QED
    BY <2>1
<1> QED
  BY <1>3 DEF T

\* What a function that Makes chose does, step by step.
LEMMA MadeSteps ==
    ASSUME NEW what, NEW x, NEW a, NEW last \in Nat, NEW g, Makes(what, x, a, last, g)
    PROVE  g[0] = x /\ \A n \in 1 .. last : g[n] = Stepped(what, g[n - 1], a, n)
<1>1. \A n \in 0 .. last : g[n] = IF n = 0 THEN x ELSE Stepped(what, g[n - 1], a, n)
  BY DEF Makes
<1> QED
  BY <1>1

\* AllocateIds takes its pages one by one.
TakesBy(pool, count, g) ==
    /\ g[0] = pool /\ AllocateIds(pool, count) = g[count]
    /\ \A n \in 1 .. count : g[n] = AllocateId(g[n - 1])

LEMMA AllocateIdsSteps ==
    ASSUME NEW pool, NEW count \in Nat
    PROVE  \E g : TakesBy(pool, count, g)
<1> DEFINE Takes(g) == g = [n \in 0 .. count |-> IF n = 0 THEN pool ELSE AllocateId(g[n - 1])]
<1>1. \A g : Takes(g) <=> Makes("allocate", pool, << >>, count, g)
  BY DEF Makes, Stepped
<1>2. AllocateIds(pool, count) = (CHOOSE g : Takes(g))[count]
  BY DEF AllocateIds
<1> HIDE DEF Takes
<1>3. PICK g : g = CHOOSE h : Takes(h)
  OBVIOUS
<1>4. Takes(g)
  BY <1>1, <1>3, MakesExists
<1>5. Makes("allocate", pool, << >>, count, g)
  BY <1>1, <1>4
<1>6. g[0] = pool /\ \A n \in 1 .. count : g[n] = Stepped("allocate", g[n - 1], << >>, n)
  BY <1>5, MadeSteps
<1> QED
  BY <1>2, <1>3, <1>6 DEF Stepped, TakesBy

\* Recycled gives its pages back one by one.
RecyclesBy(pool, ids, g) ==
    /\ g[0] = pool /\ Recycled(pool, ids) = g[Len(ids)]
    /\ \A n \in 1 .. Len(ids) : g[n] = RecycleId(g[n - 1], ids[n])

LEMMA RecycledSteps ==
    ASSUME NEW pool, NEW ids, Len(ids) \in Nat
    PROVE  \E g : RecyclesBy(pool, ids, g)
<1> DEFINE Gives(g) == g = [n \in 0 .. Len(ids) |->
                               IF n = 0 THEN pool ELSE RecycleId(g[n - 1], ids[n])]
<1>1. \A g : Gives(g) <=> Makes("recycle", pool, ids, Len(ids), g)
  BY DEF Makes, Stepped
<1>2. Recycled(pool, ids) = (CHOOSE g : Gives(g))[Len(ids)]
  BY DEF Recycled
<1> HIDE DEF Gives
<1>3. PICK g : g = CHOOSE h : Gives(h)
  OBVIOUS
<1>4. Gives(g)
  BY <1>1, <1>3, MakesExists
<1>5. Makes("recycle", pool, ids, Len(ids), g)
  BY <1>1, <1>4
<1>6. g[0] = pool /\ \A n \in 1 .. Len(ids) : g[n] = Stepped("recycle", g[n - 1], ids, n)
  BY <1>5, MadeSteps
<1> QED
  BY <1>2, <1>3, <1>6 DEF Stepped, RecyclesBy

\* Drained frees its pages one by one.
DrainsBy(pool, ids, g) ==
    /\ g[0] = pool /\ Drained(pool, ids) = g[Len(ids)]
    /\ \A n \in 1 .. Len(ids) : g[n] = AddToFreeList(g[n - 1], ids[n])

LEMMA DrainedSteps ==
    ASSUME NEW pool, NEW ids, Len(ids) \in Nat
    PROVE  \E g : DrainsBy(pool, ids, g)
<1> DEFINE Frees(g) == g = [n \in 0 .. Len(ids) |->
                               IF n = 0 THEN pool ELSE AddToFreeList(g[n - 1], ids[n])]
<1>1. \A g : Frees(g) <=> Makes("free", pool, ids, Len(ids), g)
  BY DEF Makes, Stepped
<1>2. Drained(pool, ids) = (CHOOSE g : Frees(g))[Len(ids)]
  BY DEF Drained
<1> HIDE DEF Frees
<1>3. PICK g : g = CHOOSE h : Frees(h)
  OBVIOUS
<1>4. Frees(g)
  BY <1>1, <1>3, MakesExists
<1>5. Makes("free", pool, ids, Len(ids), g)
  BY <1>1, <1>4
<1>6. g[0] = pool /\ \A n \in 1 .. Len(ids) : g[n] = Stepped("free", g[n - 1], ids, n)
  BY <1>5, MadeSteps
<1> QED
  BY <1>2, <1>3, <1>6 DEF Stepped, DrainsBy

\* The values of g that are not 0, as many as there are.
Counted(g, max) == [n \in 1 .. Cardinality({i \in 0 .. max : g[i] # 0}) |-> g[n - 1]]

\* ChainOf follows the pages one by one, until there is none.
Followed(g, file, slot) ==
    /\ g[0] = slot.first /\ \A n \in 1 .. MaxChain : g[n] = NextOf(file, g[n - 1])
    /\ ChainOf(file, slot) = Counted(g, MaxChain)

LEMMA ChainOfSteps ==
    ASSUME ShadowPagingAssumption, NEW file, NEW slot
    PROVE  \E g : Followed(g, file, slot)
<1> DEFINE Follows(g) == g = [n \in 0 .. MaxChain |->
                                 IF n = 0 THEN slot.first ELSE NextOf(file, g[n - 1])]
<1>0. MaxChain \in Nat
  BY DEF ShadowPagingAssumption
<1>1. \A g : Follows(g) <=> Makes("follow", slot.first, file, MaxChain, g)
  BY DEF Makes, Stepped
<1> DEFINE at == CHOOSE g : Follows(g)
<1>2. ChainOf(file, slot) = Counted(at, MaxChain)
  BY DEF ChainOf, Counted
<1> HIDE DEF Follows
<1>4. Follows(at)
  BY <1>0, <1>1, MakesExists
<1> HIDE DEF at
<1>5. Makes("follow", slot.first, file, MaxChain, at)
  BY <1>1, <1>4
<1>6. /\ at[0] = slot.first
      /\ \A n \in 1 .. MaxChain : at[n] = Stepped("follow", at[n - 1], file, n)
  BY <1>0, <1>5, MadeSteps
<1>7. Followed(at, file, slot)
  BY <1>2, <1>6 DEF Stepped, Followed
<1> QED
  BY <1>7


-----------------------------------------------------------------------------
(* Lists of pages *)

LEMMA AmongAppend ==
    ASSUME NEW S, NEW ids \in Seq(S), NEW id
    PROVE  /\ Among(Append(ids, id)) = Among(ids) \union {id}
           /\ Len(Append(ids, id)) = Len(ids) + 1
           /\ Append(ids, id)[Len(ids) + 1] = id
           /\ \A n \in 1 .. Len(ids) : Append(ids, id)[n] = ids[n]
<1>1. DOMAIN ids = 1 .. Len(ids) /\ Len(ids) \in Nat
  OBVIOUS
<1>2. /\ DOMAIN Append(ids, id) = 1 .. Len(ids) + 1 /\ Len(Append(ids, id)) = Len(ids) + 1
      /\ Append(ids, id)[Len(ids) + 1] = id
      /\ \A n \in 1 .. Len(ids) : Append(ids, id)[n] = ids[n]
  OBVIOUS
<1>3. DOMAIN Append(ids, id) = DOMAIN ids \union {Len(ids) + 1}
  BY <1>1, <1>2
<1> DEFINE more == Append(ids, id)
           n == Len(ids) + 1
<1>4. more[n] = id /\ \A i \in DOMAIN ids : more[i] = ids[i]
  BY <1>1, <1>2
<1> HIDE DEF more, n
<1>5. Among(more) = Among(ids) \union {id}
  BY <1>3, <1>4 DEF Among, more, n
<1> QED
  BY <1>2, <1>5 DEF more

LEMMA ListedAppend ==
    ASSUME NEW ids, NEW next \in Nat, Listed(ids, next), NEW id \in 3 .. next - 1,
           id \notin Among(ids)
    PROVE  Listed(Append(ids, id), next)
<1>1. ids \in Seq(3 .. next - 1) /\ DOMAIN ids = 1 .. Len(ids) /\ Len(ids) \in Nat
  BY DEF Listed
<1>2. /\ Append(ids, id) \in Seq(3 .. next - 1)
      /\ DOMAIN Append(ids, id) = 1 .. Len(ids) + 1
      /\ Append(ids, id)[Len(ids) + 1] = id
      /\ \A n \in 1 .. Len(ids) : Append(ids, id)[n] = ids[n]
  BY <1>1
<1>3. \A n \in 1 .. Len(ids) : ids[n] # id
  BY <1>1 DEF Among
<1>4. \A i, j \in 1 .. Len(ids) : ids[i] = ids[j] => i = j
  BY <1>1 DEF Listed
<1> DEFINE more == Append(ids, id)
<1>5. ASSUME NEW i \in 1 .. Len(ids) + 1, NEW j \in 1 .. Len(ids) + 1, more[i] = more[j]
      PROVE  i = j
  <2>1. (i \in 1 .. Len(ids) \/ i = Len(ids) + 1) /\ (j \in 1 .. Len(ids) \/ j = Len(ids) + 1)
    BY <1>1
  <2> QED
    BY <2>1, <1>2, <1>3, <1>4, <1>5
<1> QED
  BY <1>2, <1>5 DEF Listed

LEMMA ListedFront ==
    ASSUME NEW ids, NEW next \in Nat, Listed(ids, next), ids # << >>
    PROVE  /\ Listed(Front(ids), next) /\ Last(ids) \in 3 .. next - 1
           /\ Last(ids) \in Among(ids) /\ Last(ids) \notin Among(Front(ids))
           /\ Among(ids) = Among(Front(ids)) \union {Last(ids)}
<1>1. /\ ids \in Seq(3 .. next - 1) /\ DOMAIN ids = 1 .. Len(ids) /\ Len(ids) \in Nat
      /\ Len(ids) > 0
  BY DEF Listed
<1>2. /\ Front(ids) \in Seq(3 .. next - 1) /\ DOMAIN Front(ids) = 1 .. Len(ids) - 1
      /\ \A n \in 1 .. Len(ids) - 1 : Front(ids)[n] = ids[n]
      /\ Last(ids) = ids[Len(ids)]
  BY <1>1 DEF Front, Last
<1>3. \A i, j \in 1 .. Len(ids) : ids[i] = ids[j] => i = j
  BY <1>1 DEF Listed
<1>4. 1 .. Len(ids) - 1 \subseteq 1 .. Len(ids) /\ Len(ids) \in 1 .. Len(ids)
      /\ Len(ids) \notin 1 .. Len(ids) - 1
  BY <1>1
<1>5. Listed(Front(ids), next)
  BY <1>2, <1>3, <1>4 DEF Listed
<1>6. ids[Len(ids)] \in 3 .. next - 1
  BY <1>1
<1> DEFINE f == Front(ids)
           n == Len(ids)
<1>7. /\ DOMAIN ids = 1 .. n /\ DOMAIN f \subseteq 1 .. n /\ n \in 1 .. n /\ n \notin DOMAIN f
      /\ \A i \in DOMAIN f : f[i] = ids[i]
      /\ DOMAIN ids = DOMAIN f \union {n}
  BY <1>1, <1>2, <1>4
<1> HIDE DEF f, n
<1>8. /\ ids[n] \in Among(ids) /\ Among(ids) = Among(f) \union {ids[n]}
  <2>1. ids[n] \in Among(ids) /\ Among(f) \subseteq Among(ids)
    BY <1>7 DEF Among
  <2>2. ASSUME NEW i \in DOMAIN ids PROVE ids[i] \in Among(f) \union {ids[n]}
    <3>1. i = n \/ (i \in DOMAIN f /\ f[i] = ids[i])
      BY <1>7
    <3> QED
      BY <3>1 DEF Among
  <2>3. Among(ids) \subseteq Among(f) \union {ids[n]}
    BY <2>2 DEF Among
  <2> QED
    BY <2>1, <2>3
<1>9. ids[n] \notin Among(f)
  <2>1. \A i \in DOMAIN f : f[i] # ids[n]
    BY <1>3, <1>7 DEF n
  <2> QED
    BY <2>1 DEF Among
<1> QED
  BY <1>2, <1>5, <1>6, <1>8, <1>9 DEF f, n

\* A list of pages of a file is one of a file that grew.
LEMMA ListedGrows ==
    ASSUME NEW ids, NEW next \in Nat, NEW more \in Nat, next <= more, Listed(ids, next)
    PROVE  Listed(ids, more)
<1>1. 3 .. next - 1 \subseteq 3 .. more - 1
  OBVIOUS
<1>2. ids \in Seq(3 .. next - 1) => ids \in Seq(3 .. more - 1)
  BY <1>1, SeqMonotonic, Zenon
<1> QED
  BY <1>2 DEF Listed

LEMMA ListedAmong ==
    ASSUME NEW ids, NEW next, Listed(ids, next)
    PROVE  /\ Among(ids) \subseteq 3 .. next - 1 /\ ids \in Seq(3 .. next - 1)
           /\ Len(ids) \in Nat /\ DOMAIN ids = 1 .. Len(ids)
           /\ \A n \in 1 .. Len(ids) : ids[n] \in Among(ids)
           /\ \A i, j \in 1 .. Len(ids) : ids[i] = ids[j] => i = j
<1> DEFINE S == 3 .. next - 1
<1>1. ids \in Seq(S) /\ \A i, j \in DOMAIN ids : ids[i] = ids[j] => i = j
  BY DEF Listed
<1> HIDE DEF S
<1>2. Len(ids) \in Nat /\ DOMAIN ids = 1 .. Len(ids) /\ \A n \in 1 .. Len(ids) : ids[n] \in S
  BY <1>1
<1>3. Among(ids) \subseteq S /\ \A n \in 1 .. Len(ids) : ids[n] \in Among(ids)
  BY <1>2 DEF Among
<1> QED
  BY <1>1, <1>2, <1>3 DEF S

LEMMA ListedTail ==
    ASSUME NEW ids, NEW next \in Nat, Listed(ids, next), Len(ids) > 0
    PROVE  /\ Listed(Tail(ids), next) /\ Head(ids) \in 3 .. next - 1
           /\ Head(ids) \notin Among(Tail(ids)) /\ Among(ids) = {Head(ids)} \union Among(Tail(ids))
           /\ Len(Tail(ids)) = Len(ids) - 1
<1> DEFINE S == 3 .. next - 1
<1>1. ids \in Seq(S) /\ \A i, j \in 1 .. Len(ids) : ids[i] = ids[j] => i = j
  BY ListedAmong
<1> HIDE DEF S
<1>2. /\ Tail(ids) \in Seq(S) /\ Head(ids) = ids[1] /\ ids[1] \in S
      /\ Len(Tail(ids)) = Len(ids) - 1 /\ DOMAIN Tail(ids) = 1 .. Len(ids) - 1
      /\ \A n \in 1 .. Len(ids) - 1 : Tail(ids)[n] = ids[n + 1]
      /\ Len(ids) \in Nat /\ DOMAIN ids = 1 .. Len(ids)
  BY <1>1
<1>3. PICK t, len : t = Tail(ids) /\ len = Len(ids)
  OBVIOUS
<1>4. /\ len \in Nat /\ len > 0 /\ DOMAIN t = 1 .. len - 1 /\ DOMAIN ids = 1 .. len
      /\ \A n \in 1 .. len - 1 : t[n] = ids[n + 1]
      /\ \A i, j \in 1 .. len : ids[i] = ids[j] => i = j
  BY <1>1, <1>2, <1>3
<1>5. \A i, j \in DOMAIN t : t[i] = t[j] => i = j
  <2>1. \A i \in 1 .. len - 1 : i + 1 \in 1 .. len
    BY <1>4
  <2>2. ASSUME NEW i \in 1 .. len - 1, NEW j \in 1 .. len - 1, t[i] = t[j] PROVE i = j
    <3>1. i + 1 = j + 1
      BY <1>4, <2>1, <2>2
    <3> QED
      BY <3>1
  <2> QED
    BY <1>4, <2>2
<1>6. ids[1] \notin Among(t)
  <2>1. ASSUME NEW n \in 1 .. len - 1 PROVE t[n] # ids[1]
    <3>1. n + 1 \in 1 .. len /\ 1 \in 1 .. len /\ n + 1 # 1
      BY <1>4
    <3> QED
      BY <1>4, <3>1
  <2> QED
    BY <1>4, <2>1 DEF Among
<1>7. Among(ids) = {ids[1]} \union Among(t)
  <2>1. ASSUME NEW n \in 1 .. len - 1 PROVE t[n] \in Among(ids)
    <3>1. n + 1 \in 1 .. len
      BY <1>4
    <3> QED
      BY <1>4, <3>1 DEF Among
  <2>2. ASSUME NEW n \in 1 .. len PROVE ids[n] \in {ids[1]} \union Among(t)
    <3>1. CASE n = 1
      BY <3>1
    <3>2. CASE n # 1
      <4>1. n - 1 \in 1 .. len - 1 /\ n - 1 + 1 = n
        BY <1>4, <3>2
      <4>2. PICK m : m = n - 1
        OBVIOUS
      <4>3. m \in 1 .. len - 1 /\ t[m] = ids[n]
        BY <1>4, <4>1, <4>2
      <4> QED
        BY <1>4, <4>3 DEF Among
    <3> QED
      BY <3>1, <3>2
  <2>3. 1 \in 1 .. len
    BY <1>4
  <2>4. Among(t) \subseteq Among(ids)
    BY <1>4, <2>1 DEF Among
  <2>5. Among(ids) \subseteq {ids[1]} \union Among(t)
    BY <1>4, <2>2 DEF Among
  <2>6. ids[1] \in Among(ids)
    BY <1>4, <2>3 DEF Among
  <2> QED
    BY <2>4, <2>5, <2>6
<1>8. Listed(t, next)
  BY <1>2, <1>3, <1>5 DEF Listed, S
<1> QED
  BY <1>2, <1>3, <1>6, <1>7, <1>8 DEF S

LEMMA EmptyListed ==
    ASSUME NEW next \in Nat
    PROVE  Listed(<< >>, next) /\ Among(<< >>) = {}
BY DEF Listed, Among


-----------------------------------------------------------------------------
(* The chain of free pages *)

LEMMA ChainedFrame ==
    ASSUME NEW file, NEW other, NEW s, NEW t, NEW X, Chained(file, s, X), s.nextPage \in Nat,
           t.nextPage \in Nat, s.nextPage <= t.nextPage, s.head = t.head,
           \A x \in X : other[x] = file[x]
    PROVE  Chained(other, t, X)
<1>1. PICK L : Strung(file, s, X, L)
  BY DEF Chained
<1>2. PICK next, more : next = s.nextPage /\ more = t.nextPage
  OBVIOUS
<1>3. Listed(L, next) /\ Among(L) = X
  BY <1>1, <1>2 DEF Strung
<1>4. Listed(L, more) /\ \A n \in 1 .. Len(L) : L[n] \in X
  BY <1>2, <1>3, ListedGrows, ListedAmong
<1>5. Strung(other, t, X, L)
  BY <1>1, <1>2, <1>4 DEF Strung
<1> QED
  BY <1>5 DEF Chained

LEMMA EmptyChained ==
    ASSUME NEW file, NEW s, s.nextPage \in Nat, s.head = 0
    PROVE  Chained(file, s, {})
<1>1. Listed(<< >>, s.nextPage) /\ Among(<< >>) = {} /\ Len(<< >>) = 0
  BY EmptyListed
<1>2. Strung(file, s, {}, << >>)
  BY <1>1 DEF Strung
<1> QED
  BY <1>2 DEF Chained

\* The chain without its head.
LEMMA ChainedPop ==
    ASSUME NEW file, NEW s, NEW X, Chained(file, s, X), s.nextPage \in Nat, s.head # 0, NEW t,
           t.nextPage = s.nextPage, t.head = file[s.head].next
    PROVE  Chained(file, t, X \ {s.head})
<1>1. PICK L : Strung(file, s, X, L)
  BY DEF Chained
<1>2. PICK next, len, rest : next = s.nextPage /\ len = Len(L) /\ rest = Tail(L)
  OBVIOUS
<1>3. /\ Listed(L, next) /\ Among(L) = X /\ L # << >> /\ s.head = L[1]
      /\ \A n \in 1 .. len : file[L[n]].next = IF n = len THEN 0 ELSE L[n + 1]
  BY <1>1, <1>2 DEF Strung
<1>4. L \in Seq(3 .. next - 1) /\ len \in Nat
  BY <1>2, <1>3, ListedAmong
<1>5. len > 0 /\ Head(L) = L[1] /\ \A n \in 1 .. len - 1 : rest[n] = L[n + 1]
  <2> DEFINE S == 3 .. next - 1
  <2>1. L \in Seq(S)
    BY <1>4
  <2> HIDE DEF S
  <2> QED
    BY <1>2, <1>3, <2>1
<1>6. /\ Listed(rest, next) /\ s.head \notin Among(rest) /\ X = {s.head} \union Among(rest)
      /\ Len(rest) = len - 1
  <2>1. next \in Nat /\ Listed(L, next) /\ Len(L) > 0
    BY <1>2, <1>3, <1>5
  <2>2. /\ Listed(Tail(L), next) /\ Head(L) \notin Among(Tail(L))
        /\ Among(L) = {Head(L)} \union Among(Tail(L)) /\ Len(Tail(L)) = Len(L) - 1
    BY <2>1, ListedTail
  <2> QED
    BY <1>2, <1>3, <1>5, <2>2
<1>7. t.head = IF rest = << >> THEN 0 ELSE rest[1]
  <2>1. 1 \in 1 .. len /\ (rest = << >> <=> len = 1)
    <3>1. rest \in Seq(3 .. next - 1)
      BY <1>6, ListedAmong
    <3>2. rest = << >> <=> Len(rest) = 0
      <4> DEFINE S == 3 .. next - 1
      <4>1. rest \in Seq(S)
        BY <3>1
      <4> HIDE DEF S
      <4> QED
        BY <4>1
    <3> QED
      BY <1>4, <1>5, <1>6, <3>2
  <2>2. t.head = IF 1 = len THEN 0 ELSE L[1 + 1]
    BY <1>3, <2>1
  <2>3. 1 # len => rest[1] = L[1 + 1]
    <3>1. 1 # len => 1 \in 1 .. len - 1
      BY <1>4, <1>5
    <3> QED
      BY <1>5, <3>1
  <2> QED
    BY <2>1, <2>2, <2>3
<1>8. ASSUME NEW n \in 1 .. len - 1
      PROVE  file[rest[n]].next = IF n = len - 1 THEN 0 ELSE rest[n + 1]
  <2>1. PICK m : m = n + 1
    OBVIOUS
  <2>2. m \in 1 .. len /\ (m = len <=> n = len - 1) /\ (m # len => m \in 1 .. len - 1)
    BY <1>4, <2>1
  <2>3. rest[n] = L[m] /\ (m # len => rest[m] = L[m + 1])
    BY <1>5, <2>1, <2>2
  <2>4. file[L[m]].next = IF m = len THEN 0 ELSE L[m + 1]
    BY <1>3, <2>2
  <2> QED
    BY <2>1, <2>2, <2>3, <2>4
<1>9. Strung(file, t, X \ {s.head}, rest)
  BY <1>2, <1>6, <1>7, <1>8 DEF Strung
<1> QED
  BY <1>9 DEF Chained

\* The chain with a new head.
LEMMA ChainedPush ==
    ASSUME NEW file, NEW s, NEW X, Chained(file, s, X), s.nextPage \in Nat,
           NEW id \in 3 .. s.nextPage - 1, id \notin X, NEW other, \A x \in X : other[x] = file[x],
           other[id].next = s.head, NEW t, t.nextPage = s.nextPage, t.head = id
    PROVE  Chained(other, t, X \union {id})
<1>1. PICK L : Strung(file, s, X, L)
  BY DEF Chained
<1>2. PICK next, len : next = s.nextPage /\ len = Len(L)
  OBVIOUS
<1>3. /\ Listed(L, next) /\ Among(L) = X /\ s.head = (IF L = << >> THEN 0 ELSE L[1])
      /\ \A n \in 1 .. len : file[L[n]].next = IF n = len THEN 0 ELSE L[n + 1]
  BY <1>1, <1>2 DEF Strung
<1>4. /\ L \in Seq(3 .. next - 1) /\ len \in Nat /\ DOMAIN L = 1 .. len
      /\ \A n \in 1 .. len : L[n] \in X /\ L[n] \in 3 .. next - 1
      /\ \A i, j \in 1 .. len : L[i] = L[j] => i = j
      /\ L = << >> <=> len = 0
  <2>1. /\ L \in Seq(3 .. next - 1) /\ len \in Nat /\ DOMAIN L = 1 .. len
        /\ \A n \in 1 .. len : L[n] \in X
        /\ \A i, j \in 1 .. len : L[i] = L[j] => i = j
        /\ X \subseteq 3 .. next - 1
    BY <1>2, <1>3, ListedAmong
  <2>2. L = << >> <=> len = 0
    <3> DEFINE S == 3 .. next - 1
    <3>1. L \in Seq(S)
      BY <2>1
    <3> HIDE DEF S
    <3> QED
      BY <1>2, <3>1
  <2> QED
    BY <2>1, <2>2
<1>5. PICK M : M = [n \in 1 .. len + 1 |-> IF n = 1 THEN id ELSE L[n - 1]]
  OBVIOUS
<1>6. /\ M[1] = id /\ \A n \in 1 .. len : M[n + 1] = L[n]
      /\ \A m \in 1 .. len + 1 : m = 1 \/ \E n \in 1 .. len : m = n + 1
  <2>1. M[1] = id /\ \A n \in 1 .. len : M[n + 1] = L[n]
    BY <1>4, <1>5
  <2>2. ASSUME NEW m \in 1 .. len + 1, m # 1 PROVE \E n \in 1 .. len : m = n + 1
    <3>1. m - 1 \in 1 .. len /\ m = m - 1 + 1
      BY <1>4, <2>2
    <3> QED
      BY <3>1
  <2> QED
    BY <2>1, <2>2
<1>7. /\ \A m \in 1 .. len + 1 : M[m] \in 3 .. next - 1
      /\ M \in Seq(3 .. next - 1) /\ DOMAIN M = 1 .. len + 1 /\ Len(M) = len + 1 /\ M # << >>
  <2>1. \A m \in 1 .. len + 1 : M[m] \in 3 .. next - 1
    BY <1>2, <1>4, <1>6
  <2>2. len + 1 \in Nat /\ 1 \in 1 .. len + 1
    BY <1>4
  <2>3. M \in [1 .. len + 1 -> 3 .. next - 1]
    BY <1>5, <2>1
  <2> DEFINE S == 3 .. next - 1
  <2>4. M \in [1 .. len + 1 -> S] /\ DOMAIN M = 1 .. len + 1
    BY <1>5, <2>3
  <2> HIDE DEF S
  <2>5. M \in Seq(S) /\ Len(M) = len + 1
    BY <2>2, <2>4
  <2>6. M # << >>
    BY <2>2, <2>5
  <2> QED
    BY <2>1, <2>4, <2>5, <2>6 DEF S
<1>8. ASSUME NEW i \in 1 .. len + 1, NEW j \in 1 .. len + 1, M[i] = M[j] PROVE i = j
  <2>1. ASSUME NEW n \in 1 .. len PROVE M[n + 1] # id
    <3>1. L[n] \in X /\ M[n + 1] = L[n]
      BY <1>4, <1>6
    <3> QED
      BY <3>1
  <2>2. CASE i = 1 \/ j = 1
    BY <1>6, <1>8, <2>1, <2>2
  <2>3. CASE i # 1 /\ j # 1
    <3>1. PICK m \in 1 .. len, n \in 1 .. len : i = m + 1 /\ j = n + 1
      BY <1>6, <2>3
    <3>2. M[m + 1] = L[m] /\ M[n + 1] = L[n]
      BY <1>6
    <3>3. L[m] = L[n]
      BY <1>8, <3>1, <3>2
    <3>4. m = n
      BY <1>4, <3>3
    <3> QED
      BY <3>1, <3>4
  <2> QED
    BY <2>2, <2>3
<1>9. Among(M) = X \union {id}
  <2>1. 1 \in 1 .. len + 1 /\ \A n \in 1 .. len : n + 1 \in 1 .. len + 1
    BY <1>4
  <2>2. ASSUME NEW x \in X PROVE x \in Among(M)
    <3>1. x \in Among(L)
      BY <1>3
    <3>2. PICK n \in 1 .. len : x = L[n]
      BY <1>4, <3>1 DEF Among
    <3>3. n + 1 \in DOMAIN M /\ M[n + 1] = x
      BY <1>6, <1>7, <2>1, <3>2
    <3> QED
      BY <3>3 DEF Among
  <2>3. id \in Among(M)
    BY <1>6, <1>7, <2>1 DEF Among
  <2>4. ASSUME NEW m \in 1 .. len + 1 PROVE M[m] \in X \union {id}
    <3>1. CASE m = 1
      BY <1>6, <3>1
    <3>2. CASE m # 1
      <4>1. PICK n \in 1 .. len : m = n + 1
        BY <1>6, <3>2
      <4>2. M[m] = L[n] /\ L[n] \in X
        BY <1>4, <1>6, <4>1
      <4> QED
        BY <4>2
    <3> QED
      BY <3>1, <3>2
  <2>5. Among(M) \subseteq X \union {id}
    BY <1>7, <2>4 DEF Among
  <2> QED
    BY <2>2, <2>3, <2>5
<1>10. Listed(M, next)
  BY <1>7, <1>8 DEF Listed
<1>11. ASSUME NEW m \in 1 .. len + 1
       PROVE  other[M[m]].next = IF m = len + 1 THEN 0 ELSE M[m + 1]
  <2>1. CASE m = 1
    <3>1. other[M[m]].next = s.head
      BY <1>6, <2>1
    <3>2. CASE len = 0
      BY <1>3, <1>4, <2>1, <3>1, <3>2
    <3>3. CASE len # 0
      <4>1. 1 \in 1 .. len /\ 1 # len + 1
        BY <1>4, <3>3
      <4>2. M[1 + 1] = L[1]
        BY <1>6, <4>1
      <4> QED
        BY <1>3, <1>4, <2>1, <3>1, <3>3, <4>1, <4>2
    <3> QED
      BY <3>2, <3>3
  <2>2. CASE m # 1
    <3>1. PICK n \in 1 .. len : m = n + 1
      BY <1>6, <2>2
    <3>2. other[M[m]] = file[L[n]]
      BY <1>4, <1>6, <3>1
    <3>3. (m = len + 1 <=> n = len) /\ (n # len => m \in 1 .. len)
      BY <1>4, <3>1
    <3>4. n # len => M[m + 1] = L[n + 1]
      BY <1>6, <3>1, <3>3
    <3> QED
      BY <1>3, <3>2, <3>3, <3>4
  <2> QED
    BY <2>1, <2>2
<1>12. Strung(other, t, X \union {id}, M)
  BY <1>2, <1>6, <1>7, <1>9, <1>10, <1>11 DEF Strung
<1> QED
  BY <1>12 DEF Chained


-----------------------------------------------------------------------------
(* The free pages, one operation at a time *)

\* What is free depends on three fields of the superblock and on the pages of
\* the chain only.
LEMMA FreeFrame ==
    ASSUME NEW file, NEW other, NEW s, NEW t, NEW X, FreeOK(file, s, X),
           s.nextPage = t.nextPage, s.head = t.head, s.free = t.free,
           \A x \in X : other[x] = file[x]
    PROVE  /\ FreeOK(other, t, X)
           /\ \A id : MayBeTaken(other, t, X, id) <=> MayBeTaken(file, s, X, id)
<1>1. FreeOK(other, t, X)
  <2>0. Chained(other, t, X)
    <3>1. Chained(file, s, X) /\ s.nextPage \in Nat
      BY DEF FreeOK
    <3>2. t.nextPage \in Nat /\ s.nextPage <= t.nextPage
      BY <3>1
    <3> QED
      BY <3>1, <3>2, ChainedFrame
  <2>1. /\ t.nextPage \in Nat /\ t.nextPage >= 3
        /\ Listed(t.free, t.nextPage)
        /\ X \subseteq 3 .. t.nextPage - 1 /\ t.head \in X \union {0}
        /\ X \intersect Among(t.free) = {}
    BY DEF FreeOK
  <2>2. ASSUME NEW x \in X
        PROVE  /\ other[x] = FreePage(other[x].next, other[x].ids)
               /\ other[x].next \in X \union {0}
               /\ t.head # 0 => other[x].next # t.head
               /\ Listed(other[x].ids, t.nextPage)
               /\ Among(other[x].ids) \intersect (X \union Among(t.free)) = {}
    BY DEF FreeOK
  <2>3. ASSUME NEW x \in X, NEW y \in X, x # y
        PROVE  /\ other[x].next # 0 => other[x].next # other[y].next
               /\ Among(other[x].ids) \intersect Among(other[y].ids) = {}
    <3>1. other[x] = file[x] /\ other[y] = file[y]
      OBVIOUS
    <3> QED
      BY <2>3, <3>1 DEF FreeOK
  <2> QED
    BY <2>0, <2>1, <2>2, <2>3 DEF FreeOK
<1>2. \A id : MayBeTaken(other, t, X, id) <=> MayBeTaken(file, s, X, id)
  BY DEF MayBeTaken
<1> QED
  BY <1>1, <1>2

\* A free page is none of the first three.
LEMMA FreeAbove ==
    ASSUME NEW file, NEW s, NEW X, FreeOK(file, s, X), NEW id, MayBeTaken(file, s, X, id)
    PROVE  id \in Nat /\ id >= 3
<1>1. s.nextPage \in Nat /\ s.nextPage >= 3
  BY DEF FreeOK
<1>2. id \in Among(s.free) => id \in 3 .. s.nextPage - 1
  BY ListedAmong DEF FreeOK
<1>3. id \in X => id \in 3 .. s.nextPage - 1
  BY DEF FreeOK
<1>4. ASSUME NEW x \in X, id \in Among(file[x].ids) PROVE id \in 3 .. s.nextPage - 1
  <2>1. Listed(file[x].ids, s.nextPage)
    BY DEF FreeOK
  <2> QED
    BY <2>1, <1>4, ListedAmong
<1>5. \/ id \in 3 .. s.nextPage - 1
      \/ id \in Nat /\ id >= s.nextPage
  BY <1>2, <1>3, <1>4 DEF MayBeTaken
<1> QED
  BY <1>1, <1>5

\* What the three ways to allocate do to the superblock and to the pages X of
\* the chain.
TakesFrom(file, s, X, id, t, Y) ==
    /\ FreeOK(file, t, Y) /\ id \in 3 .. t.nextPage - 1 /\ s.nextPage <= t.nextPage
    /\ MayBeTaken(file, s, X, id) /\ ~ MayBeTaken(file, t, Y, id)
    /\ \A i : MayBeTaken(file, t, Y, i) => MayBeTaken(file, s, X, i)
    /\ \A i : MayBeTaken(file, s, X, i) => i = id \/ MayBeTaken(file, t, Y, i)

LEMMA TakesLast ==
    ASSUME NEW file, NEW s, NEW X, FreeOK(file, s, X), s.free # << >>, NEW t,
           t.nextPage = s.nextPage, t.head = s.head, t.free = Front(s.free)
    PROVE  TakesFrom(file, s, X, Last(s.free), t, X)
<1> DEFINE id == Last(s.free)
<1>1. s.nextPage \in Nat /\ s.nextPage >= 3 /\ Listed(s.free, s.nextPage)
  BY DEF FreeOK
<1>2. /\ Listed(t.free, s.nextPage) /\ id \in 3 .. s.nextPage - 1
      /\ id \in Among(s.free) /\ id \notin Among(t.free)
      /\ Among(s.free) = Among(t.free) \union {id}
  <2>1. PICK ids, next, front : ids = s.free /\ next = s.nextPage /\ front = Front(ids)
    OBVIOUS
  <2>2. next \in Nat /\ Listed(ids, next) /\ ids # << >>
    BY <1>1, <2>1
  <2>3. /\ Listed(front, next) /\ Last(ids) \in 3 .. next - 1
        /\ Last(ids) \in Among(ids) /\ Last(ids) \notin Among(front)
        /\ Among(ids) = Among(front) \union {Last(ids)}
    BY <2>1, <2>2, ListedFront
  <2> QED
    BY <2>1, <2>3
<1> HIDE DEF id
<1>3. FreeOK(file, t, X)
  <2>1. X \intersect Among(t.free) = {}
    BY <1>2 DEF FreeOK
  <2>2. \A x \in X : Among(file[x].ids) \intersect (X \union Among(t.free)) = {}
    BY <1>2 DEF FreeOK
  <2>3. Chained(file, t, X)
    <3>1. Chained(file, s, X)
      BY DEF FreeOK
    <3> QED
      BY <1>1, <3>1, ChainedFrame
  <2> QED
    BY <1>2, <2>1, <2>2, <2>3 DEF FreeOK
<1>4. ~ MayBeTaken(file, t, X, id)
  <2>1. id \notin X /\ \A x \in X : id \notin Among(file[x].ids)
    BY <1>2 DEF FreeOK
  <2>2. ~ (id >= t.nextPage)
    BY <1>1, <1>2
  <2> QED
    BY <1>2, <2>1, <2>2 DEF MayBeTaken
<1>5. MayBeTaken(file, s, X, id) /\ \A i : MayBeTaken(file, t, X, i) => MayBeTaken(file, s, X, i)
  BY <1>2 DEF MayBeTaken
<1>6. \A i : MayBeTaken(file, s, X, i) => i = id \/ MayBeTaken(file, t, X, i)
  BY <1>2 DEF MayBeTaken
<1> QED
  BY <1>1, <1>2, <1>3, <1>4, <1>5, <1>6 DEF TakesFrom, id

LEMMA TakesHead ==
    ASSUME NEW file, NEW s, NEW X, FreeOK(file, s, X), s.free = << >>, s.head # 0, NEW t,
           t.nextPage = s.nextPage, t.head = file[s.head].next, t.free = file[s.head].ids
    PROVE  TakesFrom(file, s, X, s.head, t, X \ {s.head})
<1> DEFINE id == s.head
           Y == X \ {id}
<1>1. /\ s.nextPage \in Nat /\ s.nextPage >= 3 /\ id \in X /\ id \in 3 .. s.nextPage - 1
      /\ Y \subseteq X /\ id \notin Y /\ X = Y \union {id}
  BY DEF FreeOK
<1>0. Chained(file, t, Y)
  <2>1. Chained(file, s, X)
    BY DEF FreeOK
  <2> QED
    BY <1>1, <2>1, ChainedPop
<1>2. \A x \in X : /\ file[x] = FreePage(file[x].next, file[x].ids)
                   /\ file[x].next \in Y \union {0}
                   /\ Listed(file[x].ids, s.nextPage)
                   /\ Among(file[x].ids) \intersect X = {}
  BY DEF FreeOK
<1>3. \A x, y \in X : x # y => /\ file[x].next # 0 => file[x].next # file[y].next
                               /\ Among(file[x].ids) \intersect Among(file[y].ids) = {}
  BY DEF FreeOK
<1> HIDE DEF id, Y
<1>4. FreeOK(file, t, Y)
  <2>1. t.nextPage \in Nat /\ t.nextPage >= 3 /\ Listed(t.free, t.nextPage)
    BY <1>1, <1>2 DEF id
  <2>2. Y \subseteq 3 .. t.nextPage - 1 /\ t.head \in Y \union {0}
    BY <1>1, <1>2 DEF FreeOK, id
  <2>3. Y \intersect Among(t.free) = {}
    BY <1>1, <1>2 DEF id
  <2>4. ASSUME NEW x \in Y
        PROVE  /\ file[x] = FreePage(file[x].next, file[x].ids)
               /\ file[x].next \in Y \union {0}
               /\ t.head # 0 => file[x].next # t.head
               /\ Listed(file[x].ids, t.nextPage)
               /\ Among(file[x].ids) \intersect (Y \union Among(t.free)) = {}
    <3>1. x \in X /\ x # id
      BY <1>1
    <3>2. t.head # 0 => file[x].next # t.head
      BY <1>1, <1>3, <3>1 DEF id
    <3>3. Among(file[x].ids) \intersect Among(t.free) = {}
      BY <1>1, <1>3, <3>1 DEF id
    <3> QED
      BY <1>1, <1>2, <3>1, <3>2, <3>3
  <2>5. \A x, y \in Y : x # y => /\ file[x].next # 0 => file[x].next # file[y].next
                                 /\ Among(file[x].ids) \intersect Among(file[y].ids) = {}
    BY <1>1, <1>3
  <2> QED
    BY <1>0, <2>1, <2>2, <2>3, <2>4, <2>5 DEF FreeOK
<1>5. ~ MayBeTaken(file, t, Y, id)
  <2>1. ~ (id >= t.nextPage) /\ id \notin Y
    BY <1>1
  <2>2. id \notin Among(t.free) /\ \A x \in Y : id \notin Among(file[x].ids)
    BY <1>1, <1>2 DEF id
  <2> QED
    BY <2>1, <2>2 DEF MayBeTaken
<1>6. MayBeTaken(file, s, X, id) /\ \A i : MayBeTaken(file, t, Y, i) => MayBeTaken(file, s, X, i)
  BY <1>1 DEF MayBeTaken, id
<1>7. id \in 3 .. t.nextPage - 1 /\ s.nextPage <= t.nextPage
  BY <1>1
<1>9. ASSUME NEW i, MayBeTaken(file, s, X, i) PROVE i = id \/ MayBeTaken(file, t, Y, i)
  <2>1. Among(s.free) = {}
    BY <1>1, EmptyListed
  <2>2. CASE \E x \in X : i \in Among(file[x].ids)
    <3>1. PICK x \in X : i \in Among(file[x].ids)
      BY <2>2
    <3>2. CASE x = id
      BY <3>1, <3>2 DEF MayBeTaken, id
    <3>3. CASE x # id
      BY <1>1, <3>1, <3>3 DEF MayBeTaken
    <3> QED
      BY <3>2, <3>3
  <2>3. CASE i \in X \/ (i \in Nat /\ i >= s.nextPage)
    BY <1>1, <2>3 DEF MayBeTaken
  <2> QED
    BY <1>9, <2>1, <2>2, <2>3 DEF MayBeTaken
<1>8. TakesFrom(file, s, X, id, t, Y)
  BY <1>4, <1>5, <1>6, <1>7, <1>9 DEF TakesFrom
<1> QED
  BY <1>8 DEF id, Y

LEMMA TakesNew ==
    ASSUME NEW file, NEW s, NEW X, FreeOK(file, s, X), s.free = << >>, s.head = 0, NEW t,
           t.nextPage = s.nextPage + 1, t.head = s.head, t.free = s.free
    PROVE  TakesFrom(file, s, X, s.nextPage, t, X)
<1>1. s.nextPage \in Nat /\ s.nextPage >= 3 /\ X \subseteq 3 .. s.nextPage - 1
  BY DEF FreeOK
<1>2. \A x \in X : Listed(file[x].ids, s.nextPage)
  BY DEF FreeOK
<1>3. \A x \in X : /\ Listed(file[x].ids, t.nextPage)
                   /\ Among(file[x].ids) \subseteq 3 .. s.nextPage - 1
  <2>1. t.nextPage \in Nat /\ s.nextPage <= t.nextPage
    BY <1>1
  <2>2. SUFFICES ASSUME NEW x \in X
                 PROVE  /\ Listed(file[x].ids, t.nextPage)
                        /\ Among(file[x].ids) \subseteq 3 .. s.nextPage - 1
    OBVIOUS
  <2>3. Listed(file[x].ids, s.nextPage)
    BY <1>2
  <2>4. Listed(file[x].ids, t.nextPage)
    BY <1>1, <2>1, <2>3, ListedGrows
  <2>5. Among(file[x].ids) \subseteq 3 .. s.nextPage - 1
    BY <2>3, ListedAmong
  <2> QED
    BY <2>4, <2>5
<1>4. FreeOK(file, t, X)
  <2>1. Listed(t.free, t.nextPage) /\ X \subseteq 3 .. t.nextPage - 1 /\ t.nextPage >= 3
        /\ t.nextPage \in Nat
    BY <1>1, EmptyListed
  <2>2. Chained(file, t, X)
    <3>1. Chained(file, s, X)
      BY DEF FreeOK
    <3>2. s.nextPage <= t.nextPage
      BY <1>1
    <3> QED
      BY <1>1, <2>1, <3>1, <3>2, ChainedFrame
  <2> QED
    BY <1>3, <2>1, <2>2 DEF FreeOK
<1>5. ~ MayBeTaken(file, t, X, s.nextPage)
  BY <1>1, <1>3, EmptyListed DEF MayBeTaken
<1>6. MayBeTaken(file, s, X, s.nextPage) /\ \A i : MayBeTaken(file, t, X, i) => MayBeTaken(file, s, X, i)
  BY <1>1 DEF MayBeTaken
<1>7. ASSUME NEW i, MayBeTaken(file, s, X, i) PROVE i = s.nextPage \/ MayBeTaken(file, t, X, i)
  <2>1. i \in Nat /\ i >= s.nextPage => i = s.nextPage \/ i >= t.nextPage
    BY <1>1
  <2> QED
    BY <1>7, <2>1 DEF MayBeTaken
<1> QED
  BY <1>1, <1>4, <1>5, <1>6, <1>7 DEF TakesFrom

\* What add_to_free_list does: the page id, which was not free, now is.
Frees(file, s, X, id, other, t, Y) ==
    /\ FreeOK(other, t, Y)
    /\ \A i : MayBeTaken(other, t, Y, i) <=> i = id \/ MayBeTaken(file, s, X, i)

LEMMA FreesInList ==
    ASSUME NEW file, NEW s, NEW X, FreeOK(file, s, X), NEW id \in 3 .. s.nextPage - 1,
           ~ MayBeTaken(file, s, X, id), NEW other, \A x \in X : other[x] = file[x], NEW t,
           t.nextPage = s.nextPage, t.head = s.head, t.free = Append(s.free, id)
    PROVE  Frees(file, s, X, id, other, t, X)
<1>1. s.nextPage \in Nat /\ s.nextPage >= 3 /\ Listed(s.free, s.nextPage)
  BY DEF FreeOK
<1>2. id \notin Among(s.free) /\ id \notin X /\ \A x \in X : id \notin Among(file[x].ids)
  BY DEF MayBeTaken
<1>3. Listed(t.free, t.nextPage) /\ Among(t.free) = Among(s.free) \union {id}
  BY <1>1, <1>2, ListedAppend, AmongAppend, ListedAmong
<1>4. FreeOK(other, t, X)
  <2>1. X \intersect Among(t.free) = {}
    BY <1>2, <1>3 DEF FreeOK
  <2>2. \A x \in X : Among(file[x].ids) \intersect (X \union Among(t.free)) = {}
    BY <1>2, <1>3 DEF FreeOK
  <2>3. ASSUME NEW x \in X
        PROVE  /\ other[x] = FreePage(other[x].next, other[x].ids)
               /\ other[x].next \in X \union {0}
               /\ t.head # 0 => other[x].next # t.head
               /\ Listed(other[x].ids, t.nextPage)
               /\ Among(other[x].ids) \intersect (X \union Among(t.free)) = {}
    <3>1. other[x] = file[x]
      OBVIOUS
    <3>2. /\ file[x] = FreePage(file[x].next, file[x].ids)
          /\ file[x].next \in X \union {0}
          /\ s.head # 0 => file[x].next # s.head
          /\ Listed(file[x].ids, s.nextPage)
      BY DEF FreeOK
    <3> QED
      BY <2>2, <3>1, <3>2
  <2>4. ASSUME NEW x \in X, NEW y \in X, x # y
        PROVE  /\ other[x].next # 0 => other[x].next # other[y].next
               /\ Among(other[x].ids) \intersect Among(other[y].ids) = {}
    <3>1. other[x] = file[x] /\ other[y] = file[y]
      OBVIOUS
    <3>2. /\ file[x].next # 0 => file[x].next # file[y].next
          /\ Among(file[x].ids) \intersect Among(file[y].ids) = {}
      BY <2>4 DEF FreeOK
    <3> QED
      BY <3>1, <3>2
  <2>5. X \subseteq 3 .. t.nextPage - 1 /\ t.head \in X \union {0}
    BY DEF FreeOK
  <2>6. Chained(other, t, X)
    <3>1. Chained(file, s, X)
      BY DEF FreeOK
    <3> QED
      BY <1>1, <3>1, ChainedFrame
  <2> QED
    BY <1>1, <1>3, <2>1, <2>3, <2>4, <2>5, <2>6 DEF FreeOK
<1>5. \A i : MayBeTaken(other, t, X, i) <=> i = id \/ MayBeTaken(file, s, X, i)
  BY <1>3 DEF MayBeTaken
<1> QED
  BY <1>4, <1>5 DEF Frees

LEMMA FreesWithList ==
    ASSUME NEW file, NEW s, NEW X, FreeOK(file, s, X), NEW id \in 3 .. s.nextPage - 1,
           ~ MayBeTaken(file, s, X, id), NEW other, \A x \in X : other[x] = file[x],
           other[id] = FreePage(s.head, s.free), NEW t,
           t.nextPage = s.nextPage, t.head = id, t.free = << >>
    PROVE  Frees(file, s, X, id, other, t, X \union {id})
<1> DEFINE Y == X \union {id}
<1>1. /\ s.nextPage \in Nat /\ s.nextPage >= 3 /\ Listed(s.free, s.nextPage)
      /\ id # 0 /\ s.head \in X \union {0}
  BY DEF FreeOK
<1>2. id \notin Among(s.free) /\ id \notin X /\ \A x \in X : id \notin Among(file[x].ids)
  BY DEF MayBeTaken
<1>3. other[id].next = s.head /\ other[id].ids = s.free
  BY DEF FreePage
<1>4. Listed(t.free, t.nextPage) /\ Among(t.free) = {}
  BY <1>1, EmptyListed
<1>5. FreeOK(other, t, Y)
  <2>1. Y \subseteq 3 .. t.nextPage - 1 /\ t.head \in Y \union {0}
    BY DEF FreeOK
  <2>2. ASSUME NEW x \in Y
        PROVE  /\ other[x] = FreePage(other[x].next, other[x].ids)
               /\ other[x].next \in Y \union {0}
               /\ t.head # 0 => other[x].next # t.head
               /\ Listed(other[x].ids, t.nextPage)
               /\ Among(other[x].ids) \intersect (Y \union Among(t.free)) = {}
    <3>1. CASE x = id
      <4>1. s.head # id
        BY <1>1, <1>2
      <4>2. Among(s.free) \intersect (Y \union Among(t.free)) = {}
        BY <1>2, <1>4 DEF FreeOK
      <4> QED
        BY <1>1, <1>3, <3>1, <4>1, <4>2
    <3>2. CASE x \in X
      <4>1. /\ file[x] = FreePage(file[x].next, file[x].ids)
            /\ file[x].next \in X \union {0}
            /\ Listed(file[x].ids, s.nextPage)
            /\ Among(file[x].ids) \intersect X = {}
        BY <3>2 DEF FreeOK
      <4>2. other[x] = file[x] /\ file[x].next # id
        BY <1>1, <1>2, <3>2, <4>1
      <4> QED
        BY <1>2, <1>4, <3>2, <4>1, <4>2
    <3> QED
      BY <3>1, <3>2
  <2>3. ASSUME NEW x \in Y, NEW y \in Y, x # y
        PROVE  /\ other[x].next # 0 => other[x].next # other[y].next
               /\ Among(other[x].ids) \intersect Among(other[y].ids) = {}
    <3>1. \A z \in X : /\ s.head # 0 => other[z].next # s.head
                       /\ Among(other[z].ids) \intersect Among(s.free) = {}
      BY DEF FreeOK
    <3>2. CASE x = id
      BY <1>3, <2>3, <3>1, <3>2
    <3>3. CASE y = id
      BY <1>3, <2>3, <3>1, <3>3
    <3>4. CASE x \in X /\ y \in X
      BY <2>3, <3>4 DEF FreeOK
    <3> QED
      BY <3>2, <3>3, <3>4
  <2>4. Chained(other, t, Y)
    <3>1. Chained(file, s, X)
      BY DEF FreeOK
    <3> QED
      BY <1>1, <1>2, <1>3, <3>1, ChainedPush
  <2> HIDE DEF Y
  <2> QED
    BY <1>1, <1>4, <2>1, <2>2, <2>3, <2>4 DEF FreeOK
<1>6. ASSUME NEW i
      PROVE  MayBeTaken(other, t, Y, i) <=> i = id \/ MayBeTaken(file, s, X, i)
  <2>1. (\E x \in Y : i \in Among(other[x].ids))
           <=> i \in Among(s.free) \/ \E x \in X : i \in Among(file[x].ids)
    BY <1>3
  <2>2. i \in Y <=> i = id \/ i \in X
    OBVIOUS
  <2>3. i \notin Among(t.free) /\ t.nextPage = s.nextPage
    BY <1>4
  <2> HIDE DEF Y
  <2> QED
    BY <2>1, <2>2, <2>3 DEF MayBeTaken
<1> QED
  BY <1>5, <1>6 DEF Frees


-----------------------------------------------------------------------------
(* Pools *)

IsSuperblock(s) == s = Superblock(s.generation, s.root, s.nextPage, s.head, s.free)

PoolWith(s, taken, waiting, file, ids) ==
    [sb |-> s, epoch |-> taken, recycle |-> waiting, file |-> file, ids |-> ids]

IsPool(p) ==
    /\ p = PoolWith(p.sb, p.epoch, p.recycle, p.file, p.ids)
    /\ IsSuperblock(p.sb) /\ p.file = [id \in PageIds |-> p.file[id]]

\* A pool with the pages X in its chain of free pages.
PoolFits(p, X) == IsPool(p) /\ FreeOK(p.file, p.sb, X)

\* The superblock keeps the root and the generation.
SameTree(p, q) ==
    /\ q.sb.root = p.sb.root /\ q.sb.generation = p.sb.generation
    /\ p.sb.nextPage \in Nat /\ q.sb.nextPage \in Nat /\ p.sb.nextPage <= q.sb.nextPage

LEMMA TakesPageIs ==
    ASSUME NEW p, IsPool(p), NEW id, NEW t
    PROVE  TakesPage(p, id, t)
              = PoolWith(t, p.epoch \union {id}, p.recycle, p.file, Append(p.ids, id))
<1>1. PICK s, e, w, f, d : p = PoolWith(s, e, w, f, d)
  BY DEF IsPool
<1>2. p.epoch = e /\ p.recycle = w /\ p.file = f /\ p.ids = d
  BY <1>1 DEF PoolWith
<1>3. PICK more, longer : more = p.epoch \union {id} /\ longer = Append(p.ids, id)
  OBVIOUS
<1>4. PICK p1 : p1 = [p EXCEPT !.sb = t]
  OBVIOUS
<1>5. PICK p2 : p2 = [p1 EXCEPT !.epoch = more]
  OBVIOUS
<1>6. p1 = PoolWith(t, e, w, f, d)
  BY <1>1, <1>4 DEF PoolWith
<1>7. p2 = PoolWith(t, more, w, f, d)
  BY <1>5, <1>6 DEF PoolWith
<1>8. [p2 EXCEPT !.ids = longer] = PoolWith(t, more, w, f, longer)
  BY <1>7 DEF PoolWith
<1>9. TakesPage(p, id, t) = [p EXCEPT !.sb = t, !.epoch = more, !.ids = longer]
  BY <1>3, Zenon DEF TakesPage
<1>10. TakesPage(p, id, t) = [[p1 EXCEPT !.epoch = more] EXCEPT !.ids = longer]
  BY <1>4, <1>9, Zenon
<1> QED
  BY <1>2, <1>3, <1>5, <1>8, <1>10, Zenon

WithHead(s, head, free) == [s EXCEPT !.head = head, !.free = free]

LEMMA SuperblockEdits ==
    ASSUME NEW s, IsSuperblock(s), NEW a, NEW b
    PROVE  /\ [s EXCEPT !.free = a] = Superblock(s.generation, s.root, s.nextPage, s.head, a)
           /\ [s EXCEPT !.nextPage = b] = Superblock(s.generation, s.root, b, s.head, s.free)
           /\ [s EXCEPT !.root = b] = Superblock(s.generation, b, s.nextPage, s.head, s.free)
           /\ [s EXCEPT !.generation = b] = Superblock(b, s.root, s.nextPage, s.head, s.free)
<1>1. PICK g, r, n, h, f : s = Superblock(g, r, n, h, f)
  BY DEF IsSuperblock
<1>2. s.generation = g /\ s.root = r /\ s.nextPage = n /\ s.head = h /\ s.free = f
  BY <1>1 DEF Superblock
<1>3. [s EXCEPT !.free = a] = Superblock(g, r, n, h, a)
  BY <1>1 DEF Superblock
<1>5. [s EXCEPT !.nextPage = b] = Superblock(g, r, b, h, f)
  BY <1>1 DEF Superblock
<1>6. [s EXCEPT !.root = b] = Superblock(g, b, n, h, f)
  BY <1>1 DEF Superblock
<1>7. [s EXCEPT !.generation = b] = Superblock(b, r, n, h, f)
  BY <1>1 DEF Superblock
<1> QED
  BY <1>2, <1>3, <1>5, <1>6, <1>7, Zenon

LEMMA WithHeadIs ==
    ASSUME NEW s, IsSuperblock(s), NEW b, NEW a
    PROVE  WithHead(s, b, a) = Superblock(s.generation, s.root, s.nextPage, b, a)
<1>1. PICK g, r, n, h, f : s = Superblock(g, r, n, h, f)
  BY DEF IsSuperblock
<1>2. s.generation = g /\ s.root = r /\ s.nextPage = n
  BY <1>1 DEF Superblock
<1>3. PICK t : t = [s EXCEPT !.head = b]
  OBVIOUS
<1>4. t = Superblock(g, r, n, b, f)
  BY <1>1, <1>3 DEF Superblock
<1>5. [t EXCEPT !.free = a] = Superblock(g, r, n, b, a)
  BY <1>4 DEF Superblock
<1>6. WithHead(s, b, a) = [t EXCEPT !.free = a]
  BY <1>3, Zenon DEF WithHead
<1> QED
  BY <1>2, <1>5, <1>6

LEMMA FieldsOf ==
    ASSUME NEW s, NEW e, NEW w, NEW f, NEW d, NEW g, NEW r, NEW n, NEW h, NEW l
    PROVE  LET p == PoolWith(s, e, w, f, d)
               b == Superblock(g, r, n, h, l)
           IN /\ p.sb = s /\ p.epoch = e /\ p.recycle = w /\ p.file = f /\ p.ids = d
              /\ b.generation = g /\ b.root = r /\ b.nextPage = n /\ b.head = h /\ b.free = l
              /\ IsSuperblock(b) /\ b.type = "superblock"
BY DEF PoolWith, Superblock, IsSuperblock

\* What taking one page leaves.
TakesOne(p, X, q, id, Y) ==
    /\ PoolFits(q, Y) /\ SameTree(p, q)
    /\ q.file = p.file /\ q.recycle = p.recycle
    /\ q.epoch = p.epoch \union {id} /\ q.ids = Append(p.ids, id)
    /\ id \in 3 .. q.sb.nextPage - 1
    /\ FreeIn(p, X, id) /\ ~ FreeIn(q, Y, id)
    /\ \A i : FreeIn(q, Y, i) => FreeIn(p, X, i)
    /\ \A i : FreeIn(p, X, i) => i = id \/ FreeIn(q, Y, i)

LEMMA AllocatesOne ==
    ASSUME NEW p, NEW X, PoolFits(p, X)
    PROVE  \E id, Y : TakesOne(p, X, AllocateId(p), id, Y)
<1> DEFINE q == AllocateId(p)
           s == p.sb
<1>1. IsPool(p) /\ IsSuperblock(s) /\ FreeOK(p.file, s, X)
  BY DEF PoolFits, IsPool
<1>2. s.nextPage \in Nat
  BY <1>1 DEF FreeOK
<1> DEFINE is(id, Y, t) ==
        /\ q = PoolWith(t, p.epoch \union {id}, p.recycle, p.file, Append(p.ids, id))
        /\ IsSuperblock(t) /\ t.root = s.root /\ t.generation = s.generation
        /\ TakesFrom(p.file, s, X, id, t, Y)
<1>3. \E id, Y, t : is(id, Y, t)
  <2>1. CASE s.free # << >>
    <3> DEFINE t == [s EXCEPT !.free = Front(@)]
    <3>1. q = TakesPage(p, Last(s.free), t)
      BY <2>1 DEF AllocateId
    <3>2. t = Superblock(s.generation, s.root, s.nextPage, s.head, Front(s.free))
      <4>1. PICK c : c = Front(s.free)
        OBVIOUS
      <4>2. [s EXCEPT !.free = c] = Superblock(s.generation, s.root, s.nextPage, s.head, c)
        BY <1>1, SuperblockEdits
      <4> QED
        BY <4>1, <4>2
    <3>3. q = PoolWith(t, p.epoch \union {Last(s.free)}, p.recycle, p.file, Append(p.ids, Last(s.free)))
      BY <1>1, <3>1, TakesPageIs
    <3> HIDE DEF t, q, s
    <3>4. /\ t.nextPage = s.nextPage /\ t.head = s.head /\ t.free = Front(s.free)
          /\ IsSuperblock(t) /\ t.root = s.root /\ t.generation = s.generation
      BY <3>2, FieldsOf
    <3>5. TakesFrom(p.file, s, X, Last(s.free), t, X)
      BY <1>1, <2>1, <3>4, TakesLast
    <3>6. is(Last(s.free), X, t)
      BY <3>3, <3>4, <3>5
    <3> QED
      BY <3>6
  <2>2. CASE s.free = << >> /\ s.head # 0
    <3> DEFINE spill == p.file[s.head]
               t == [s EXCEPT !.head = spill.next, !.free = spill.ids]
    <3>1. q = TakesPage(p, s.head, t)
      BY <2>2 DEF AllocateId
    <3>2. t = Superblock(s.generation, s.root, s.nextPage, spill.next, spill.ids)
      <4>1. PICK h, c : h = spill.next /\ c = spill.ids
        OBVIOUS
      <4>2. IsSuperblock(s)
        BY <1>1
      <4> HIDE DEF s, spill
      <4>3. WithHead(s, h, c) = Superblock(s.generation, s.root, s.nextPage, h, c)
        BY <4>2, WithHeadIs
      <4>4. t = WithHead(s, h, c)
        BY <4>1, Zenon DEF WithHead
      <4> QED
        BY <4>1, <4>3, <4>4
    <3>3. q = PoolWith(t, p.epoch \union {s.head}, p.recycle, p.file, Append(p.ids, s.head))
      BY <1>1, <3>1, TakesPageIs
    <3> HIDE DEF t, q, s
    <3>4. /\ t.nextPage = s.nextPage /\ t.head = spill.next /\ t.free = spill.ids
          /\ IsSuperblock(t) /\ t.root = s.root /\ t.generation = s.generation
      BY <3>2, FieldsOf
    <3>5. TakesFrom(p.file, s, X, s.head, t, X \ {s.head})
      BY <1>1, <2>2, <3>4, TakesHead
    <3>6. is(s.head, X \ {s.head}, t)
      BY <3>3, <3>4, <3>5
    <3> QED
      BY <3>6
  <2>3. CASE s.free = << >> /\ s.head = 0
    <3> DEFINE t == [s EXCEPT !.nextPage = @ + 1]
    <3>1. q = TakesPage(p, s.nextPage, t)
      BY <2>3 DEF AllocateId
    <3>2. t = Superblock(s.generation, s.root, s.nextPage + 1, s.head, s.free)
      BY <1>1, SuperblockEdits, Zenon
    <3>3. q = PoolWith(t, p.epoch \union {s.nextPage}, p.recycle, p.file, Append(p.ids, s.nextPage))
      BY <1>1, <3>1, TakesPageIs
    <3> HIDE DEF t, q, s
    <3>4. /\ t.nextPage = s.nextPage + 1 /\ t.head = s.head /\ t.free = s.free
          /\ IsSuperblock(t) /\ t.root = s.root /\ t.generation = s.generation
      BY <3>2, FieldsOf
    <3>5. TakesFrom(p.file, s, X, s.nextPage, t, X)
      BY <1>1, <2>3, <3>4, TakesNew
    <3>6. is(s.nextPage, X, t)
      BY <3>3, <3>4, <3>5
    <3> QED
      BY <3>6
  <2> QED
    BY <2>1, <2>2, <2>3
<1> HIDE DEF q, s
<1>4. PICK id, Y, t : is(id, Y, t)
  BY <1>3
<1>5. /\ q.sb = t /\ q.epoch = p.epoch \union {id} /\ q.recycle = p.recycle
      /\ q.file = p.file /\ q.ids = Append(p.ids, id)
  <2>1. PICK more, longer : more = p.epoch \union {id} /\ longer = Append(p.ids, id)
    OBVIOUS
  <2>2. q = PoolWith(t, more, p.recycle, p.file, longer)
    BY <1>4, <2>1
  <2> QED
    BY <2>1, <2>2 DEF PoolWith
<1>6. PoolFits(q, Y)
  <2>1. q = PoolWith(q.sb, q.epoch, q.recycle, q.file, q.ids)
    BY <1>4, <1>5
  <2>2. FreeOK(q.file, q.sb, Y) /\ IsSuperblock(q.sb)
    BY <1>4, <1>5 DEF TakesFrom
  <2>3. q.file = [i \in PageIds |-> q.file[i]]
    BY <1>1, <1>5 DEF IsPool
  <2> QED
    BY <2>1, <2>2, <2>3 DEF PoolFits, IsPool
<1>7. SameTree(p, q)
  <2>1. t.nextPage \in Nat
    BY <1>6, <1>5 DEF PoolFits, FreeOK
  <2> QED
    BY <1>2, <1>4, <1>5, <2>1 DEF SameTree, TakesFrom, s
<1>8. /\ id \in 3 .. q.sb.nextPage - 1 /\ FreeIn(p, X, id) /\ ~ FreeIn(q, Y, id)
      /\ \A i : FreeIn(q, Y, i) => FreeIn(p, X, i)
      /\ \A i : FreeIn(p, X, i) => i = id \/ FreeIn(q, Y, i)
  BY <1>4, <1>5 DEF TakesFrom, FreeIn, s
<1>9. TakesOne(p, X, q, id, Y)
  BY <1>5, <1>6, <1>7, <1>8 DEF TakesOne
<1> QED
  BY <1>9 DEF q


\* One page given to the free list.
LEMMA AddsToList ==
    ASSUME NEW p, IsPool(p), NEW id, NEW a, Len(p.sb.free) < MAX_SB_FREE_LIST,
           a = Append(p.sb.free, id)
    PROVE  AddToFreeList(p, id)
              = PoolWith([p.sb EXCEPT !.free = a], p.epoch, p.recycle,
                         [p.file EXCEPT ![id] = FreePage(0, << >>)], p.ids)
<1>1. PICK s, e, w, f, d : p = PoolWith(s, e, w, f, d)
  BY DEF IsPool
<1>2. p.sb = s /\ p.epoch = e /\ p.recycle = w /\ p.file = f /\ p.ids = d
  BY <1>1 DEF PoolWith
<1>3. PICK c : c = FreePage(0, << >>)
  OBVIOUS
<1>4. PICK g : g = [f EXCEPT ![id] = c]
  OBVIOUS
<1>5. PICK t : t = [s EXCEPT !.free = a]
  OBVIOUS
<1>6. PICK p1 : p1 = [p EXCEPT !.file[id] = c]
  OBVIOUS
<1>7. p1 = PoolWith(s, e, w, g, d)
  <2>1. p1 = [p EXCEPT !.file = g]
    BY <1>2, <1>4, <1>6
  <2> QED
    BY <1>1, <2>1 DEF PoolWith
<1>8. [p1 EXCEPT !.sb.free = a] = PoolWith(t, e, w, g, d)
  <2>1. p1.sb = s
    BY <1>7 DEF PoolWith
  <2>2. [p1 EXCEPT !.sb.free = a] = [p1 EXCEPT !.sb = t]
    BY <2>1, <1>5
  <2>3. [p1 EXCEPT !.sb = t] = PoolWith(t, e, w, g, d)
    BY <1>7 DEF PoolWith
  <2> QED
    BY <2>2, <2>3
<1>9. AddToFreeList(p, id) = [p EXCEPT !.file[id] = c, !.sb.free = a]
  BY <1>3, Zenon DEF AddToFreeList
<1>10. AddToFreeList(p, id) = [p1 EXCEPT !.sb.free = a]
  BY <1>6, <1>9, Zenon
<1> QED
  BY <1>2, <1>3, <1>4, <1>5, <1>8, <1>10, Zenon

LEMMA AddsWithList ==
    ASSUME NEW p, IsPool(p), NEW id, ~ (Len(p.sb.free) < MAX_SB_FREE_LIST)
    PROVE  AddToFreeList(p, id)
              = PoolWith(WithHead(p.sb, id, << >>), p.epoch, p.recycle,
                         [p.file EXCEPT ![id] = FreePage(p.sb.head, p.sb.free)], p.ids)
<1>1. PICK s, e, w, f, d : p = PoolWith(s, e, w, f, d)
  BY DEF IsPool
<1>2. p.sb = s /\ p.epoch = e /\ p.recycle = w /\ p.file = f /\ p.ids = d
  BY <1>1 DEF PoolWith
<1>3. PICK c : c = FreePage(p.sb.head, p.sb.free)
  OBVIOUS
<1>4. PICK g : g = [f EXCEPT ![id] = c]
  OBVIOUS
<1>5. PICK t : t = [s EXCEPT !.head = id]
  OBVIOUS
<1>6. PICK u : u = [t EXCEPT !.free = << >>]
  OBVIOUS
<1>7. PICK p1 : p1 = [p EXCEPT !.file[id] = c]
  OBVIOUS
<1>8. p1 = PoolWith(s, e, w, g, d)
  <2>1. p1 = [p EXCEPT !.file = g]
    BY <1>2, <1>4, <1>7
  <2> QED
    BY <1>1, <2>1 DEF PoolWith
<1>9. PICK p2 : p2 = [p1 EXCEPT !.sb.head = id]
  OBVIOUS
<1>10. p2 = PoolWith(t, e, w, g, d)
  <2>1. p1.sb = s
    BY <1>8 DEF PoolWith
  <2>2. p2 = [p1 EXCEPT !.sb = t]
    BY <2>1, <1>5, <1>9
  <2> QED
    BY <1>8, <2>2 DEF PoolWith
<1>11. [p2 EXCEPT !.sb.free = << >>] = PoolWith(u, e, w, g, d)
  <2>1. p2.sb = t
    BY <1>10 DEF PoolWith
  <2>2. [p2 EXCEPT !.sb.free = << >>] = [p2 EXCEPT !.sb = u]
    BY <2>1, <1>6
  <2>3. [p2 EXCEPT !.sb = u] = PoolWith(u, e, w, g, d)
    BY <1>10 DEF PoolWith
  <2> QED
    BY <2>2, <2>3
<1>12. AddToFreeList(p, id) = [p EXCEPT !.file[id] = c, !.sb.head = id, !.sb.free = << >>]
  BY <1>3, Zenon DEF AddToFreeList
<1>13. AddToFreeList(p, id) = [p2 EXCEPT !.sb.free = << >>]
  BY <1>7, <1>9, <1>12, Zenon
<1>14. u = WithHead(s, id, << >>)
  BY <1>5, <1>6, Zenon DEF WithHead
<1> QED
  BY <1>2, <1>3, <1>4, <1>11, <1>13, <1>14, Zenon


\* Free pages are all that is written.
OnlyFrees(file, other) == \A i \in PageIds : other[i] = file[i] \/ other[i].type = "free"

\* What giving the pages S to the free list leaves.
GivesAway(p, X, q, Y, S) ==
    /\ PoolFits(q, Y) /\ SameTree(p, q) /\ q.sb.nextPage = p.sb.nextPage
    /\ q.epoch = p.epoch /\ q.recycle = p.recycle
    /\ \A i \in PageIds \ S : q.file[i] = p.file[i]
    /\ \A i : FreeIn(q, Y, i) <=> i \in S \/ FreeIn(p, X, i)
    /\ OnlyFrees(p.file, q.file)

LEMMA AddsOne ==
    ASSUME ShadowPagingAssumption, NEW p, NEW X, PoolFits(p, X), p.sb.nextPage <= MaxPages + 1,
           NEW id \in 3 .. p.sb.nextPage - 1, ~ FreeIn(p, X, id)
    PROVE  \E Y : GivesAway(p, X, AddToFreeList(p, id), Y, {id})
<1> DEFINE q == AddToFreeList(p, id)
           s == p.sb
           f == p.file
<1>1. /\ IsPool(p) /\ IsSuperblock(s) /\ FreeOK(f, s, X)
      /\ f = [i \in PageIds |-> f[i]] /\ s.nextPage \in Nat
      /\ X \subseteq 3 .. s.nextPage - 1
  BY DEF PoolFits, IsPool, FreeOK
<1>2. MaxPages \in Nat /\ 3 .. s.nextPage - 1 \subseteq PageIds /\ id \notin X
  BY <1>1 DEF ShadowPagingAssumption, PageIds, FreeIn, MayBeTaken
<1> DEFINE is(t, g, Y) ==
        /\ q = PoolWith(t, p.epoch, p.recycle, g, p.ids)
        /\ IsSuperblock(t) /\ t.root = s.root /\ t.generation = s.generation
        /\ t.nextPage = s.nextPage /\ g = [i \in PageIds |-> g[i]]
        /\ \A i \in PageIds \ {id} : g[i] = f[i]
        /\ OnlyFrees(f, g) /\ Frees(f, s, X, id, g, t, Y)
<1>3. \E t, g, Y : is(t, g, Y)
  <2>1. CASE Len(s.free) < MAX_SB_FREE_LIST
    <3>1. PICK a : a = Append(s.free, id)
      OBVIOUS
    <3>2. PICK c : c = FreePage(0, << >>)
      OBVIOUS
    <3>3. PICK t : t = [s EXCEPT !.free = a]
      OBVIOUS
    <3>4. PICK g : g = [f EXCEPT ![id] = c]
      OBVIOUS
    <3>5. q = PoolWith(t, p.epoch, p.recycle, g, p.ids)
      BY <1>1, <2>1, <3>1, <3>2, <3>3, <3>4, AddsToList
    <3>6. t = Superblock(s.generation, s.root, s.nextPage, s.head, a)
      BY <1>1, <3>3, SuperblockEdits
    <3>7. g = [i \in PageIds |-> g[i]] /\ \A i \in PageIds \ {id} : g[i] = f[i]
      BY <1>1, <3>4
    <3>12. OnlyFrees(f, g)
      <4>1. g[id] = c /\ c.type = "free"
        BY <1>1, <1>2, <3>2, <3>4 DEF FreePage
      <4> QED
        BY <3>7, <4>1 DEF OnlyFrees
    <3> HIDE DEF q, s, f
    <3>8. /\ t.nextPage = s.nextPage /\ t.head = s.head /\ t.free = a
          /\ IsSuperblock(t) /\ t.root = s.root /\ t.generation = s.generation
      BY <3>6, FieldsOf
    <3>9. \A x \in X : g[x] = f[x]
      BY <1>1, <1>2, <3>7
    <3>10. Frees(f, s, X, id, g, t, X)
      <4>1. ~ MayBeTaken(f, s, X, id) /\ id \in 3 .. s.nextPage - 1
        BY DEF s, f, FreeIn
      <4> QED
        BY <1>1, <3>1, <3>8, <3>9, <4>1, FreesInList
    <3>11. is(t, g, X)
      BY <3>5, <3>7, <3>8, <3>10, <3>12
    <3> QED
      BY <3>11
  <2>2. CASE ~ (Len(s.free) < MAX_SB_FREE_LIST)
    <3>2. PICK c : c = FreePage(s.head, s.free)
      OBVIOUS
    <3>3. PICK t : t = WithHead(s, id, << >>)
      OBVIOUS
    <3>4. PICK g : g = [f EXCEPT ![id] = c]
      OBVIOUS
    <3>5. q = PoolWith(t, p.epoch, p.recycle, g, p.ids)
      BY <1>1, <2>2, <3>2, <3>3, <3>4, AddsWithList
    <3>6. t = Superblock(s.generation, s.root, s.nextPage, id, << >>)
      BY <1>1, <3>3, WithHeadIs
    <3>7. /\ g = [i \in PageIds |-> g[i]] /\ \A i \in PageIds \ {id} : g[i] = f[i]
          /\ g[id] = c
      BY <1>1, <1>2, <3>4
    <3>12. OnlyFrees(f, g)
      <4>1. c.type = "free"
        BY <3>2 DEF FreePage
      <4> QED
        BY <3>7, <4>1 DEF OnlyFrees
    <3> HIDE DEF q, s, f
    <3>8. /\ t.nextPage = s.nextPage /\ t.head = id /\ t.free = << >>
          /\ IsSuperblock(t) /\ t.root = s.root /\ t.generation = s.generation
      BY <3>6, FieldsOf
    <3>9. \A x \in X : g[x] = f[x]
      BY <1>1, <1>2, <3>7
    <3>10. Frees(f, s, X, id, g, t, X \union {id})
      <4>1. ~ MayBeTaken(f, s, X, id) /\ id \in 3 .. s.nextPage - 1
        BY DEF s, f, FreeIn
      <4> QED
        BY <1>1, <3>2, <3>7, <3>8, <3>9, <4>1, FreesWithList
    <3>11. is(t, g, X \union {id})
      BY <3>5, <3>7, <3>8, <3>10, <3>12
    <3> QED
      BY <3>11
  <2> QED
    BY <2>1, <2>2
<1> HIDE DEF q, s, f
<1>4. PICK t, g, Y : is(t, g, Y)
  BY <1>3
<1>5. q.sb = t /\ q.epoch = p.epoch /\ q.recycle = p.recycle /\ q.file = g /\ q.ids = p.ids
  BY <1>4 DEF PoolWith
<1>6. PoolFits(q, Y)
  BY <1>4, <1>5 DEF PoolFits, IsPool, Frees
<1>7. SameTree(p, q) /\ q.sb.nextPage = p.sb.nextPage
  BY <1>1, <1>4, <1>5 DEF SameTree, s
<1>8. /\ \A i \in PageIds \ {id} : q.file[i] = p.file[i]
      /\ \A i : FreeIn(q, Y, i) <=> i \in {id} \/ FreeIn(p, X, i)
      /\ OnlyFrees(p.file, q.file)
  BY <1>4, <1>5 DEF Frees, FreeIn, s, f
<1>9. GivesAway(p, X, q, Y, {id})
  BY <1>5, <1>6, <1>7, <1>8 DEF GivesAway
<1> QED
  BY <1>9 DEF q

\* What giving the pages S back leaves: those of the epoch are free, the others
\* wait for the commit.
GivesBack(p, X, q, Y, S) ==
    /\ PoolFits(q, Y) /\ SameTree(p, q) /\ q.sb.nextPage = p.sb.nextPage
    /\ q.epoch = p.epoch \ S
    /\ Listed(q.recycle, q.sb.nextPage)
    /\ Among(q.recycle) \subseteq Among(p.recycle) \union (S \ p.epoch)
    /\ \A i \in Among(p.recycle) \union (S \ p.epoch) : i > 2 => i \in Among(q.recycle)
    /\ \A i \in PageIds \ (S \intersect p.epoch) : q.file[i] = p.file[i]
    /\ \A i : FreeIn(q, Y, i) <=> i \in S \intersect p.epoch \/ FreeIn(p, X, i)
    /\ OnlyFrees(p.file, q.file)

LEMMA RecyclesOne ==
    ASSUME ShadowPagingAssumption, NEW p, NEW X, PoolFits(p, X), p.sb.nextPage <= MaxPages + 1,
           Listed(p.recycle, p.sb.nextPage), p.epoch \subseteq 3 .. p.sb.nextPage - 1,
           NEW id \in 2 .. p.sb.nextPage - 1, ~ FreeIn(p, X, id), id \notin Among(p.recycle)
    PROVE  \E Y : GivesBack(p, X, RecycleId(p, id), Y, {id})
<1>0. PICK s, e, w, f, d : p = PoolWith(s, e, w, f, d)
  BY DEF PoolFits, IsPool
<1>1. p.sb = s /\ p.epoch = e /\ p.recycle = w /\ p.file = f /\ p.ids = d
  BY <1>0 DEF PoolWith
<1>2. s.nextPage \in Nat /\ SameTree(p, p)
  BY <1>1 DEF PoolFits, FreeOK, SameTree
<1>3. CASE id <= 2
  <2>1. RecycleId(p, id) = p /\ id \notin p.epoch
    BY <1>1, <1>2, <1>3 DEF RecycleId
  <2>2. p.epoch = p.epoch \ {id} /\ {id} \intersect p.epoch = {} /\ ~ (id > 2)
    BY <1>1, <1>2, <1>3, <2>1
  <2>3. GivesBack(p, X, p, X, {id})
    BY <1>2, <2>2 DEF GivesBack, OnlyFrees
  <2> QED
    BY <2>1, <2>3
<1>4. CASE ~ (id <= 2) /\ id \in p.epoch
  <2>1. PICK less : less = e \ {id}
    OBVIOUS
  <2>2. PICK r : r = [p EXCEPT !.epoch = less]
    OBVIOUS
  <2>3. r = PoolWith(s, less, w, f, d)
    BY <1>0, <2>2 DEF PoolWith
  <2>4. r.sb = s /\ r.epoch = less /\ r.recycle = w /\ r.file = f /\ r.ids = d
    BY <2>3 DEF PoolWith
  <2>5. RecycleId(p, id) = AddToFreeList(r, id)
    BY <1>1, <1>4, <2>1, <2>2 DEF RecycleId
  <2>6. PoolFits(r, X)
    BY <1>1, <2>3, <2>4 DEF PoolFits, IsPool
  <2>7. r.sb.nextPage <= MaxPages + 1 /\ id \in 3 .. r.sb.nextPage - 1 /\ ~ FreeIn(r, X, id)
    BY <1>1, <1>2, <1>4, <2>4 DEF FreeIn
  <2>8. PICK Y : GivesAway(r, X, AddToFreeList(r, id), Y, {id})
    BY <2>6, <2>7, AddsOne
  <2> DEFINE q == AddToFreeList(r, id)
  <2>9. /\ PoolFits(q, Y) /\ SameTree(r, q) /\ q.sb.nextPage = r.sb.nextPage
        /\ q.epoch = r.epoch /\ q.recycle = r.recycle
        /\ \A i \in PageIds \ {id} : q.file[i] = r.file[i]
        /\ \A i : FreeIn(q, Y, i) <=> i \in {id} \/ FreeIn(r, X, i)
        /\ OnlyFrees(r.file, q.file)
    BY <2>8 DEF GivesAway
  <2> HIDE DEF q
  <2>10. SameTree(p, q) /\ q.sb.nextPage = p.sb.nextPage
    BY <1>1, <2>4, <2>9 DEF SameTree
  <2>11. q.epoch = p.epoch \ {id} /\ q.recycle = p.recycle
    BY <1>1, <2>1, <2>4, <2>9
  <2>12. /\ \A i \in PageIds \ ({id} \intersect p.epoch) : q.file[i] = p.file[i]
         /\ \A i : FreeIn(q, Y, i) <=> i \in {id} \intersect p.epoch \/ FreeIn(p, X, i)
         /\ OnlyFrees(p.file, q.file)
    BY <1>1, <1>4, <2>4, <2>9 DEF FreeIn
  <2>14. {id} \ p.epoch = {}
    BY <1>4
  <2>13. GivesBack(p, X, q, Y, {id})
    BY <2>9, <2>10, <2>11, <2>12, <2>14 DEF GivesBack
  <2> QED
    BY <2>5, <2>13 DEF q
<1>5. CASE ~ (id <= 2) /\ id \notin p.epoch
  <2>1. PICK longer : longer = Append(w, id)
    OBVIOUS
  <2>2. PICK q : q = [p EXCEPT !.recycle = longer]
    OBVIOUS
  <2>3. q = PoolWith(s, e, longer, f, d)
    BY <1>0, <2>2 DEF PoolWith
  <2>4. q.sb = s /\ q.epoch = e /\ q.recycle = longer /\ q.file = f /\ q.ids = d
    BY <2>3 DEF PoolWith
  <2>5. RecycleId(p, id) = q
    BY <1>1, <1>5, <2>1, <2>2 DEF RecycleId
  <2>6. PoolFits(q, X)
    BY <1>1, <2>3, <2>4 DEF PoolFits, IsPool
  <2>7. Listed(longer, s.nextPage) /\ Among(longer) = Among(w) \union {id}
    <3>1. Listed(w, s.nextPage) /\ id \in 3 .. s.nextPage - 1 /\ id \notin Among(w)
      BY <1>1, <1>2, <1>5
    <3> QED
      BY <1>2, <2>1, <3>1, ListedAppend, AmongAppend, ListedAmong
  <2>8. /\ SameTree(p, q) /\ q.sb.nextPage = p.sb.nextPage /\ q.epoch = p.epoch \ {id}
    BY <1>1, <1>2, <1>5, <2>4 DEF SameTree
  <2>9. /\ Listed(q.recycle, q.sb.nextPage)
        /\ Among(q.recycle) = Among(p.recycle) \union ({id} \ p.epoch)
        /\ {id} \intersect p.epoch = {}
    BY <1>1, <1>5, <2>4, <2>7
  <2>10. /\ \A i \in PageIds : q.file[i] = p.file[i]
         /\ \A i : FreeIn(q, X, i) <=> FreeIn(p, X, i)
    BY <1>1, <2>4 DEF FreeIn
  <2>11. GivesBack(p, X, q, X, {id})
    BY <2>6, <2>8, <2>9, <2>10 DEF GivesBack, OnlyFrees
  <2> QED
    BY <2>5, <2>11
<1> QED
  BY <1>3, <1>4, <1>5


-----------------------------------------------------------------------------
(* The free pages, several operations *)

\* What taking pages leaves: they are different, were free and no longer are.
Takes(p, X, q, Y) ==
    /\ PoolFits(q, Y) /\ SameTree(p, q) /\ q.file = p.file /\ q.recycle = p.recycle
    /\ q.epoch = p.epoch \union Among(q.ids) /\ Listed(q.ids, q.sb.nextPage)
    /\ \A i \in Among(q.ids) : FreeIn(p, X, i) /\ ~ FreeIn(q, Y, i)
    /\ \A i : FreeIn(q, Y, i) => FreeIn(p, X, i)
    /\ \A i : FreeIn(p, X, i) => i \in Among(q.ids) \/ FreeIn(q, Y, i)

LEMMA TakesMore ==
    ASSUME NEW p, NEW X, NEW q, NEW Y, Takes(p, X, q, Y)
    PROVE  /\ \E Z : Takes(p, X, AllocateId(q), Z)
           /\ Len(AllocateId(q).ids) = Len(q.ids) + 1
<1>1. PoolFits(q, Y) /\ SameTree(p, q) /\ Listed(q.ids, q.sb.nextPage) /\ q.sb.nextPage \in Nat
  BY DEF Takes, SameTree
<1>2. PICK r : r = AllocateId(q)
  OBVIOUS
<1>3. PICK id, Z :
        /\ PoolFits(r, Z) /\ SameTree(q, r)
        /\ r.file = q.file /\ r.recycle = q.recycle
        /\ r.epoch = q.epoch \union {id} /\ r.ids = Append(q.ids, id)
        /\ id \in 3 .. r.sb.nextPage - 1
        /\ FreeIn(q, Y, id) /\ ~ FreeIn(r, Z, id)
        /\ \A i : FreeIn(r, Z, i) => FreeIn(q, Y, i)
        /\ \A i : FreeIn(q, Y, i) => i = id \/ FreeIn(r, Z, i)
  <2>1. PICK id, Z : TakesOne(q, Y, r, id, Z)
    BY <1>1, <1>2, AllocatesOne
  <2> QED
    BY <2>1, Zenon DEF TakesOne
<1>4. SameTree(p, r) /\ r.sb.nextPage \in Nat /\ q.sb.nextPage <= r.sb.nextPage
  BY <1>1, <1>3 DEF SameTree
<1>5. id \notin Among(q.ids)
  BY <1>3 DEF Takes
<1>6. Listed(q.ids, r.sb.nextPage)
  BY <1>1, <1>4, ListedGrows
<1>7. Listed(r.ids, r.sb.nextPage)
  BY <1>3, <1>4, <1>5, <1>6, ListedAppend
<1>8. Among(r.ids) = Among(q.ids) \union {id} /\ Len(r.ids) = Len(q.ids) + 1
  <2>1. q.ids \in Seq(3 .. q.sb.nextPage - 1)
    BY <1>1, ListedAmong
  <2> QED
    BY <1>3, <2>1, AmongAppend
<1>9. r.file = p.file /\ r.recycle = p.recycle /\ r.epoch = p.epoch \union Among(r.ids)
  BY <1>3, <1>8 DEF Takes
<1>10. /\ \A i \in Among(r.ids) : FreeIn(p, X, i) /\ ~ FreeIn(r, Z, i)
       /\ \A i : FreeIn(r, Z, i) => FreeIn(p, X, i)
       /\ \A i : FreeIn(p, X, i) => i \in Among(r.ids) \/ FreeIn(r, Z, i)
  BY <1>3, <1>8 DEF Takes
<1>11. Takes(p, X, r, Z)
  BY <1>3, <1>4, <1>7, <1>9, <1>10 DEF Takes
<1> QED
  BY <1>2, <1>8, <1>11

LEMMA AllocatesAll ==
    ASSUME NEW p, NEW X, PoolFits(p, X), p.ids = << >>, NEW count \in Nat
    PROVE  \E Y : Takes(p, X, AllocateIds(p, count), Y) /\ Len(AllocateIds(p, count).ids) = count
<1>1. PICK g : /\ g[0] = p /\ AllocateIds(p, count) = g[count]
               /\ \A n \in 1 .. count : g[n] = AllocateId(g[n - 1])
  <2>1. \E g : TakesBy(p, count, g)
    BY AllocateIdsSteps, Zenon
  <2> QED
    BY <2>1, Zenon DEF TakesBy
<1> DEFINE T == {n \in 0 .. count : \E Y : Takes(p, X, g[n], Y) /\ Len(g[n].ids) = n}
<1>2. 0 \in T
  <2>1. p.sb.nextPage \in Nat
    BY DEF PoolFits, FreeOK
  <2>2. Takes(p, X, p, X)
    BY <2>1, EmptyListed DEF Takes, SameTree
  <2>3. Len(p.ids) = 0
    OBVIOUS
  <2> QED
    BY <1>1, <2>2, <2>3
<1>3. ASSUME NEW n \in 0 .. count - 1, n \in T PROVE n + 1 \in T
  <2>1. PICK Y : Takes(p, X, g[n], Y) /\ Len(g[n].ids) = n
    BY <1>3
  <2>2. n + 1 \in 1 .. count /\ n + 1 \in 0 .. count /\ n + 1 - 1 = n
    OBVIOUS
  <2>3. g[n + 1] = AllocateId(g[n])
    BY <1>1, <2>2
  <2>4. PICK q : q = g[n]
    OBVIOUS
  <2>5. /\ \E Z : Takes(p, X, AllocateId(q), Z)
        /\ Len(AllocateId(q).ids) = n + 1
    BY <2>1, <2>4, TakesMore
  <2> QED
    BY <2>2, <2>3, <2>4, <2>5
<1> HIDE DEF T
<1>4. count \in T
  <2>1. 0 .. count \subseteq T
    BY <1>2, <1>3, UpTo
  <2> QED
    BY <2>1
<1> QED
  BY <1>1, <1>4 DEF T

\* The first n of a list.
FirstOf(ids, n) == {ids[i] : i \in 1 .. n}

LEMMA FirstOfNext ==
    ASSUME NEW ids, NEW n \in Nat, n < Len(ids), Len(ids) \in Nat,
           \A i, j \in 1 .. Len(ids) : ids[i] = ids[j] => i = j
    PROVE  /\ FirstOf(ids, n + 1) = FirstOf(ids, n) \union {ids[n + 1]}
           /\ ids[n + 1] \notin FirstOf(ids, n) /\ FirstOf(ids, 0) = {}
<1>1. 1 .. n + 1 = (1 .. n) \union {n + 1}
  OBVIOUS
<1>2. n + 1 \notin 1 .. n /\ 1 .. n \subseteq 1 .. Len(ids) /\ n + 1 \in 1 .. Len(ids) /\ 1 .. 0 = {}
  OBVIOUS
<1>3. PICK m : m = n + 1
  OBVIOUS
<1>4. FirstOf(ids, m) = FirstOf(ids, n) \union {ids[m]}
  BY <1>1, <1>3 DEF FirstOf
<1>5. ids[m] \notin FirstOf(ids, n)
  BY <1>2, <1>3 DEF FirstOf
<1> QED
  BY <1>2, <1>3, <1>4, <1>5 DEF FirstOf

\* Pages that were not free, each once, given to the free list.
LEMMA AddsAll ==
    ASSUME ShadowPagingAssumption, NEW p, NEW X, PoolFits(p, X), p.sb.nextPage <= MaxPages + 1,
           NEW ids, Len(ids) \in Nat, DOMAIN ids = 1 .. Len(ids),
           \A i, j \in 1 .. Len(ids) : ids[i] = ids[j] => i = j,
           \A i \in Among(ids) : i \in 3 .. p.sb.nextPage - 1 /\ ~ FreeIn(p, X, i)
    PROVE  \E Y : GivesAway(p, X, Drained(p, ids), Y, Among(ids))
<1>0. \A n \in 1 .. Len(ids) : ids[n] \in Among(ids)
  BY DEF Among
<1>1. PICK g : /\ g[0] = p /\ Drained(p, ids) = g[Len(ids)]
               /\ \A n \in 1 .. Len(ids) : g[n] = AddToFreeList(g[n - 1], ids[n])
  <2>1. \E g : DrainsBy(p, ids, g)
    BY DrainedSteps, Zenon
  <2> QED
    BY <2>1, Zenon DEF DrainsBy
<1>2. p.sb.nextPage \in Nat
  BY DEF PoolFits, FreeOK
<1> DEFINE T == {n \in 0 .. Len(ids) : \E Y : GivesAway(p, X, g[n], Y, FirstOf(ids, n))}
<1>3. 0 \in T
  <2>1. FirstOf(ids, 0) = {}
    BY DEF FirstOf
  <2>2. GivesAway(p, X, p, X, {})
    BY <1>2 DEF GivesAway, SameTree, OnlyFrees
  <2>3. GivesAway(p, X, g[0], X, FirstOf(ids, 0))
    BY <1>1, <2>1, <2>2
  <2>4. 0 \in 0 .. Len(ids)
    BY <1>0
  <2> QED
    BY <2>3, <2>4
<1>4. ASSUME NEW n \in 0 .. Len(ids) - 1, n \in T PROVE n + 1 \in T
  <2>1. PICK Y : GivesAway(p, X, g[n], Y, FirstOf(ids, n))
    BY <1>4
  <2>2. n + 1 \in 1 .. Len(ids) /\ n + 1 \in 0 .. Len(ids) /\ n + 1 - 1 = n /\ n \in Nat /\ n < Len(ids)
    BY <1>0
  <2>3. g[n + 1] = AddToFreeList(g[n], ids[n + 1])
    BY <1>1, <2>2
  <2>4. PICK q, id, S : q = g[n] /\ id = ids[n + 1] /\ S = FirstOf(ids, n)
    OBVIOUS
  <2>5. FirstOf(ids, n + 1) = S \union {id} /\ id \notin S
    BY <1>0, <2>2, <2>4, FirstOfNext
  <2>6. /\ PoolFits(q, Y) /\ SameTree(p, q) /\ q.sb.nextPage = p.sb.nextPage
        /\ q.epoch = p.epoch /\ q.recycle = p.recycle
        /\ \A i \in PageIds \ S : q.file[i] = p.file[i]
        /\ \A i : FreeIn(q, Y, i) <=> i \in S \/ FreeIn(p, X, i)
        /\ OnlyFrees(p.file, q.file)
    BY <2>1, <2>4 DEF GivesAway
  <2>7. id \in Among(ids) /\ id \in 3 .. q.sb.nextPage - 1
    BY <1>0, <2>2, <2>4, <2>6
  <2>8. ~ FreeIn(q, Y, id)
    BY <2>5, <2>6, <2>7
  <2>9. PICK r : r = AddToFreeList(q, id)
    OBVIOUS
  <2>10. PICK Z : GivesAway(q, Y, r, Z, {id})
    BY <2>6, <2>7, <2>8, <2>9, AddsOne
  <2>11. /\ PoolFits(r, Z) /\ SameTree(q, r) /\ r.sb.nextPage = q.sb.nextPage
         /\ r.epoch = q.epoch /\ r.recycle = q.recycle
         /\ \A i \in PageIds \ {id} : r.file[i] = q.file[i]
         /\ \A i : FreeIn(r, Z, i) <=> i \in {id} \/ FreeIn(q, Y, i)
         /\ OnlyFrees(q.file, r.file)
    BY <2>10 DEF GivesAway
  <2>12. SameTree(p, r)
    BY <2>6, <2>11 DEF SameTree
  <2>13. /\ \A i \in PageIds \ (S \union {id}) : r.file[i] = p.file[i]
         /\ \A i : FreeIn(r, Z, i) <=> i \in S \union {id} \/ FreeIn(p, X, i)
    BY <2>6, <2>11
  <2>15. OnlyFrees(p.file, r.file)
    BY <2>6, <2>11 DEF OnlyFrees
  <2>14. GivesAway(p, X, r, Z, S \union {id})
    BY <2>6, <2>11, <2>12, <2>13, <2>15 DEF GivesAway
  <2>16. GivesAway(p, X, g[n + 1], Z, FirstOf(ids, n + 1))
    BY <2>3, <2>4, <2>5, <2>9, <2>14
  <2> QED
    BY <2>2, <2>16
<1> HIDE DEF T
<1>5. Len(ids) \in T
  <2>1. 0 .. Len(ids) \subseteq T
    BY <1>0, <1>3, <1>4, UpTo
  <2> QED
    BY <1>0, <2>1
<1>6. FirstOf(ids, Len(ids)) = Among(ids)
  BY <1>0 DEF FirstOf, Among
<1> QED
  BY <1>1, <1>5, <1>6 DEF T

\* Pages that were neither free nor waiting, each once, given back.
LEMMA RecyclesAll ==
    ASSUME ShadowPagingAssumption, NEW p, NEW X, PoolFits(p, X), p.sb.nextPage <= MaxPages + 1,
           Listed(p.recycle, p.sb.nextPage), p.epoch \subseteq 3 .. p.sb.nextPage - 1,
           NEW ids, Len(ids) \in Nat, DOMAIN ids = 1 .. Len(ids),
           \A i, j \in 1 .. Len(ids) : ids[i] = ids[j] => i = j,
           \A i \in Among(ids) : /\ i \in 2 .. p.sb.nextPage - 1
                                 /\ ~ FreeIn(p, X, i) /\ i \notin Among(p.recycle)
    PROVE  \E Y : GivesBack(p, X, Recycled(p, ids), Y, Among(ids))
<1>1. PICK g : /\ g[0] = p /\ Recycled(p, ids) = g[Len(ids)]
               /\ \A n \in 1 .. Len(ids) : g[n] = RecycleId(g[n - 1], ids[n])
  <2>1. \E g : RecyclesBy(p, ids, g)
    BY RecycledSteps, Zenon
  <2> QED
    BY <2>1, Zenon DEF RecyclesBy
<1>2. p.sb.nextPage \in Nat
  BY DEF PoolFits, FreeOK
<1> DEFINE T == {n \in 0 .. Len(ids) : \E Y : GivesBack(p, X, g[n], Y, FirstOf(ids, n))}
<1>3. 0 \in T
  <2>1. FirstOf(ids, 0) = {}
    BY DEF FirstOf
  <2>2. GivesBack(p, X, p, X, {})
    BY <1>2 DEF GivesBack, SameTree, OnlyFrees
  <2>3. GivesBack(p, X, g[0], X, FirstOf(ids, 0))
    BY <1>1, <2>1, <2>2
  <2>4. 0 \in 0 .. Len(ids)
    OBVIOUS
  <2> QED
    BY <2>3, <2>4
<1>4. ASSUME NEW n \in 0 .. Len(ids) - 1, n \in T PROVE n + 1 \in T
  <2>1. PICK Y : GivesBack(p, X, g[n], Y, FirstOf(ids, n))
    BY <1>4
  <2>2. n + 1 \in 1 .. Len(ids) /\ n + 1 \in 0 .. Len(ids) /\ n + 1 - 1 = n /\ n \in Nat /\ n < Len(ids)
    OBVIOUS
  <2>3. g[n + 1] = RecycleId(g[n], ids[n + 1])
    BY <1>1, <2>2
  <2>4. PICK q, id, S : q = g[n] /\ id = ids[n + 1] /\ S = FirstOf(ids, n)
    OBVIOUS
  <2>5. FirstOf(ids, n + 1) = S \union {id} /\ id \notin S
    BY <2>2, <2>4, FirstOfNext
  <2>6. /\ PoolFits(q, Y) /\ SameTree(p, q) /\ q.sb.nextPage = p.sb.nextPage
        /\ q.epoch = p.epoch \ S
        /\ Listed(q.recycle, q.sb.nextPage)
        /\ Among(q.recycle) \subseteq Among(p.recycle) \union (S \ p.epoch)
        /\ \A i \in Among(p.recycle) \union (S \ p.epoch) : i > 2 => i \in Among(q.recycle)
        /\ \A i \in PageIds \ (S \intersect p.epoch) : q.file[i] = p.file[i]
        /\ \A i : FreeIn(q, Y, i) <=> i \in S \intersect p.epoch \/ FreeIn(p, X, i)
        /\ OnlyFrees(p.file, q.file)
    BY <2>1, <2>4 DEF GivesBack
  <2>7. id \in Among(ids)
    BY <2>2, <2>4 DEF Among
  <2>8. /\ id \in 2 .. q.sb.nextPage - 1 /\ ~ FreeIn(q, Y, id) /\ id \notin Among(q.recycle)
        /\ q.epoch \subseteq 3 .. q.sb.nextPage - 1
    BY <2>5, <2>6, <2>7
  <2>9. PICK r : r = RecycleId(q, id)
    OBVIOUS
  <2>10. PICK Z : GivesBack(q, Y, r, Z, {id})
    BY <2>6, <2>8, <2>9, RecyclesOne
  <2>11. /\ PoolFits(r, Z) /\ SameTree(q, r) /\ r.sb.nextPage = q.sb.nextPage
         /\ r.epoch = q.epoch \ {id}
         /\ Listed(r.recycle, r.sb.nextPage)
         /\ Among(r.recycle) \subseteq Among(q.recycle) \union ({id} \ q.epoch)
         /\ \A i \in Among(q.recycle) \union ({id} \ q.epoch) : i > 2 => i \in Among(r.recycle)
         /\ \A i \in PageIds \ ({id} \intersect q.epoch) : r.file[i] = q.file[i]
         /\ \A i : FreeIn(r, Z, i) <=> i \in {id} \intersect q.epoch \/ FreeIn(q, Y, i)
         /\ OnlyFrees(q.file, r.file)
    BY <2>10 DEF GivesBack
  <2>12. SameTree(p, r)
    BY <2>6, <2>11 DEF SameTree
  <2> DEFINE U == S \union {id}
  <2>13. /\ r.epoch = p.epoch \ U
         /\ Among(r.recycle) \subseteq Among(p.recycle) \union (U \ p.epoch)
    BY <2>5, <2>6, <2>11
  <2>14. /\ \A i \in PageIds \ (U \intersect p.epoch) : r.file[i] = p.file[i]
         /\ \A i : FreeIn(r, Z, i) <=> i \in U \intersect p.epoch \/ FreeIn(p, X, i)
    BY <2>5, <2>6, <2>11
  <2>17. ASSUME NEW i \in Among(p.recycle) \union (U \ p.epoch), i > 2 PROVE i \in Among(r.recycle)
    <3>1. i \in Among(q.recycle) \/ i \in {id} \ q.epoch
      BY <2>5, <2>6, <2>17
    <3> QED
      BY <2>11, <2>17, <3>1
  <2>18. OnlyFrees(p.file, r.file)
    BY <2>6, <2>11 DEF OnlyFrees
  <2>15. GivesBack(p, X, r, Z, U)
    BY <2>6, <2>11, <2>12, <2>13, <2>14, <2>17, <2>18 DEF GivesBack
  <2>16. GivesBack(p, X, g[n + 1], Z, FirstOf(ids, n + 1))
    BY <2>3, <2>4, <2>5, <2>9, <2>15
  <2> QED
    BY <2>2, <2>16
<1> HIDE DEF T
<1>5. Len(ids) \in T
  <2>1. 0 .. Len(ids) \subseteq T
    BY <1>3, <1>4, UpTo
  <2> QED
    BY <2>1
<1>6. FirstOf(ids, Len(ids)) = Among(ids)
  BY DEF FirstOf, Among
<1> QED
  BY <1>1, <1>5, <1>6 DEF T


-----------------------------------------------------------------------------
(* Chains of overflow pages, and the tree *)

\* A list found by following it from page to page, until there is none.
LEMMA CountedIs ==
    ASSUME NEW max \in Nat, NEW g, NEW c, NEW len \in Nat, len <= max,
           \A n \in 0 .. max : g[n] = (IF n < len THEN c[n + 1] ELSE 0),
           \A n \in 1 .. len : c[n] # 0, c = [n \in 1 .. len |-> c[n]]
    PROVE  Counted(g, max) = c
<1>1. {i \in 0 .. max : g[i] # 0} = 0 .. len - 1
  <2>1. \A i \in 0 .. max : i < len => i + 1 \in 1 .. len
    OBVIOUS
  <2>2. \A i \in 0 .. max : g[i] # 0 <=> i < len
    BY <2>1
  <2> QED
    BY <2>2
<1>2. Cardinality(0 .. len - 1) = len
  <2>1. PICK last : last = len - 1
    OBVIOUS
  <2>2. last \in Int /\ 0 \in Int
    BY <2>1
  <2>3. Cardinality(0 .. last) = IF 0 > last THEN 0 ELSE last - 0 + 1
    BY <2>2, FS_Interval
  <2> QED
    BY <2>1, <2>3
<1>3. Counted(g, max) = [n \in 1 .. len |-> g[n - 1]]
  BY <1>1, <1>2 DEF Counted
<1>4. ASSUME NEW n \in 1 .. len PROVE g[n - 1] = c[n]
  <2>1. n - 1 \in 0 .. max /\ n - 1 < len /\ n - 1 + 1 = n
    OBVIOUS
  <2> QED
    BY <2>1
<1> QED
  BY <1>3, <1>4

Lists(max, g, c, len) ==
    /\ max \in Nat /\ len \in Nat /\ len <= max
    /\ \A n \in 0 .. max : g[n] = (IF n < len THEN c[n + 1] ELSE 0)
    /\ \A n \in 1 .. len : c[n] # 0
    /\ c = [n \in 1 .. len |-> c[n]]

LEMMA ListsCount ==
    ASSUME NEW max, NEW g, NEW c, NEW len, Lists(max, g, c, len)
    PROVE  Counted(g, max) = c
  BY CountedIs DEF Lists

LEMMA ChainFound ==
    ASSUME ShadowPagingAssumption, NEW file, NEW slot, NEW c, NEW next, ChainIs(file, slot, c, next)
    PROVE  ChainOf(file, slot) = c
<1>1. PICK len : len = Len(c)
  OBVIOUS
<1>2. /\ len \in Nat /\ len <= MaxChain /\ MaxChain \in Nat
      /\ slot.first = (IF c = << >> THEN 0 ELSE c[1])
      /\ \A n \in 1 .. len : file[c[n]] = Overflow(slot.val, IF n = len THEN 0 ELSE c[n + 1])
  <2>1. Listed(c, next) /\ MaxChain \in Nat
    BY DEF ChainIs, ShadowPagingAssumption
  <2>2. len \in Nat
    BY <1>1, <2>1, ListedAmong
  <2> QED
    BY <1>1, <2>1, <2>2 DEF ChainIs
<1>3. /\ \A n \in 1 .. len : c[n] # 0
      /\ c = [n \in 1 .. len |-> c[n]]
      /\ c = << >> <=> len = 0
  <2>1. Listed(c, next)
    BY DEF ChainIs
  <2>2. c \in Seq(3 .. next - 1) /\ \A n \in 1 .. len : c[n] \in Among(c)
    BY <1>1, <2>1, ListedAmong
  <2>3. Among(c) \subseteq 3 .. next - 1
    BY <2>1, ListedAmong
  <2>4. c = [n \in 1 .. len |-> c[n]] /\ (c = << >> <=> len = 0)
    <3> DEFINE S == 3 .. next - 1
    <3>1. c \in Seq(S)
      BY <2>2
    <3> HIDE DEF S
    <3> QED
      BY <1>1, <3>1
  <2>5. \A i \in 3 .. next - 1 : i # 0
    OBVIOUS
  <2> QED
    BY <2>2, <2>3, <2>4, <2>5
<1>0. PICK g : Followed(g, file, slot)
  BY ChainOfSteps, Zenon
<1>4. /\ g[0] = slot.first /\ \A n \in 1 .. MaxChain : g[n] = NextOf(file, g[n - 1])
      /\ ChainOf(file, slot) = Counted(g, MaxChain)
  BY <1>0, Zenon DEF Followed
<1> DEFINE T == {n \in 0 .. MaxChain : g[n] = IF n < len THEN c[n + 1] ELSE 0}
<1>6. 0 \in T
  BY <1>2, <1>3, <1>4
<1>7. ASSUME NEW n \in 0 .. MaxChain - 1, n \in T PROVE n + 1 \in T
  <2>1. /\ n + 1 \in 1 .. MaxChain /\ n + 1 \in 0 .. MaxChain /\ n + 1 - 1 = n /\ n \in Nat
        /\ len \in Nat
    BY <1>2
  <2>2. g[n + 1] = NextOf(file, g[n])
    BY <1>4, <2>1
  <2>3. CASE n < len
    <3>1. PICK m : m = n + 1
      OBVIOUS
    <3>2. m \in 1 .. len /\ (m = len <=> ~ (m < len))
      BY <2>1, <2>3, <3>1
    <3>3. g[n] = c[m] /\ c[m] # 0
      BY <1>3, <1>7, <2>3, <3>1, <3>2
    <3>4. file[c[m]] = Overflow(slot.val, IF m = len THEN 0 ELSE c[m + 1])
      BY <1>2, <3>2
    <3>5. NextOf(file, c[m]) = IF m = len THEN 0 ELSE c[m + 1]
      BY <3>3, <3>4 DEF NextOf, Overflow
    <3>6. g[m] = IF m < len THEN c[m + 1] ELSE 0
      BY <2>2, <3>1, <3>2, <3>3, <3>5
    <3> QED
      BY <2>1, <3>1, <3>6
  <2>4. CASE ~ (n < len)
    <3>1. g[n] = 0 /\ ~ (n + 1 < len)
      BY <1>7, <2>1, <2>4
    <3>2. g[n + 1] = 0
      BY <2>2, <3>1 DEF NextOf
    <3> QED
      BY <2>1, <3>1, <3>2
  <2> QED
    BY <2>3, <2>4
<1> HIDE DEF T
<1>8. 0 .. MaxChain \subseteq T
  BY <1>2, <1>6, <1>7, UpTo
<1>9. \A n \in 0 .. MaxChain : g[n] = (IF n < len THEN c[n + 1] ELSE 0)
  BY <1>8 DEF T
<1>10. Lists(MaxChain, g, c, len)
  BY <1>2, <1>3, <1>9, Zenon DEF Lists
<1>11. Counted(g, MaxChain) = c
  BY <1>10, ListsCount
<1> QED
  BY <1>4, <1>11

LEMMA ChainFrame ==
    ASSUME NEW file, NEW other, NEW slot, NEW c, NEW next \in Nat, NEW more \in Nat, next <= more,
           ChainIs(file, slot, c, next), \A i \in Among(c) : other[i] = file[i]
    PROVE  ChainIs(other, slot, c, more)
<1>1. Listed(c, next)
  BY DEF ChainIs
<1>2. Listed(c, more) /\ \A n \in 1 .. Len(c) : c[n] \in Among(c)
  BY <1>1, ListedGrows, ListedAmong
<1> QED
  BY <1>2 DEF ChainIs

LEMMA TreeFrame ==
    ASSUME NEW file, NEW other, NEW slots, NEW root, NEW next \in Nat, NEW more \in Nat, next <= more,
           NEW chains, TreeIs(file, slots, root, next, chains),
           \A k \in TreeKeys : \A i \in Among(chains[k]) : other[i] = file[i]
    PROVE  TreeIs(other, slots, root, more, chains)
<1>1. \A k \in TreeKeys : ChainIs(file, slots[k], chains[k], next)
  BY DEF TreeIs
<1>2. \A k \in TreeKeys : ChainIs(other, slots[k], chains[k], more)
  BY <1>1, ChainFrame
<1>3. root \in 2 .. more - 1
  BY DEF TreeIs
<1> QED
  BY <1>2, <1>3 DEF TreeIs

\* The pages of a tree are pages of the file, and none of them a superblock.
LEMMA TreePages ==
    ASSUME ShadowPagingAssumption, NEW file, NEW slots, NEW root, NEW next \in Nat,
           next <= MaxPages + 1, NEW chains, TreeIs(file, slots, root, next, chains)
    PROVE  /\ PagesOf(root, chains) \subseteq 2 .. next - 1
           /\ PagesOf(root, chains) \subseteq PageIds \ {0, 1}
           /\ root \in PagesOf(root, chains)
           /\ \A k \in TreeKeys : Among(chains[k]) \subseteq PagesOf(root, chains)
<1>1. ASSUME NEW k \in TreeKeys PROVE Among(chains[k]) \subseteq 3 .. next - 1
  <2>1. Listed(chains[k], next)
    BY DEF TreeIs, ChainIs
  <2> QED
    BY <2>1, ListedAmong
<1>2. root \in 2 .. next - 1
  BY DEF TreeIs
<1>3. PagesOf(root, chains) \subseteq 2 .. next - 1
  BY <1>1, <1>2 DEF PagesOf
<1>4. 2 .. next - 1 \subseteq PageIds \ {0, 1}
  BY DEF PageIds, ShadowPagingAssumption
<1> QED
  BY <1>3, <1>4 DEF PagesOf

\* open reads the tree that the invariant describes.
LEMMA TreeFound ==
    ASSUME ShadowPagingAssumption, NEW file, NEW s, NEW chains, DurableIs(file, s, chains)
    PROVE  /\ TreeReadable(file, s.root)
           /\ PagesOf(s.root, chains)
                = {s.root} \union UNION {ToSet(ChainOf(file, file[s.root].slots[k])) : k \in TreeKeys}
<1> DEFINE slots == file[s.root].slots
<1>1. file[s.root].type = "leaf"
  BY DEF DurableIs, Leaf
<1>2. \A k \in TreeKeys : ChainIs(file, slots[k], chains[k], s.nextPage)
  BY DEF DurableIs, TreeIs
<1>3. \A k \in TreeKeys : ChainOf(file, slots[k]) = chains[k]
  BY <1>2, ChainFound
<1>4. ASSUME NEW k \in TreeKeys PROVE Intact(file, slots[k])
  <2>1. PICK c, t : c = chains[k] /\ t = slots[k]
    OBVIOUS
  <2>2. ChainIs(file, t, c, s.nextPage) /\ ChainOf(file, t) = c
    BY <1>2, <1>3, <2>1
  <2>3. /\ Len(c) = t.len
        /\ \A n \in 1 .. Len(c) : file[c[n]] = Overflow(t.val, IF n = Len(c) THEN 0 ELSE c[n + 1])
    BY <2>2 DEF ChainIs
  <2>4. ASSUME NEW n \in 1 .. Len(c)
        PROVE  file[c[n]].type = "overflow" /\ file[c[n]].val = t.val
    <3>1. PICK v, m, o : /\ v = t.val /\ m = (IF n = Len(c) THEN 0 ELSE c[n + 1])
                         /\ o = file[c[n]]
      OBVIOUS
    <3>2. o = Overflow(v, m)
      BY <2>3, <3>1
    <3>3. o.type = "overflow" /\ o.val = v
      BY <3>2 DEF Overflow
    <3> QED
      BY <3>1, <3>3
  <2>5. Intact(file, t)
    BY <2>2, <2>3, <2>4 DEF Intact
  <2> QED
    BY <2>1, <2>5
<1>5. ASSUME NEW k \in TreeKeys PROVE ToSet(ChainOf(file, slots[k])) = Among(chains[k])
  BY <1>3 DEF ToSet, Among
<1> QED
  BY <1>1, <1>4, <1>5 DEF TreeReadable, PagesOf

\* The pages that write_value_chain writes, and the others.
DistinctPages(ids) ==
    /\ Len(ids) \in Nat /\ \A n \in 1 .. Len(ids) : ids[n] \in PageIds
    /\ \A i, j \in 1 .. Len(ids) : ids[i] = ids[j] => i = j

HasChain(file, ids, val, other) ==
    /\ other = [i \in PageIds |-> other[i]]
    /\ \A i \in PageIds : (\A n \in 1 .. Len(ids) : ids[n] # i) => other[i] = file[i]
    /\ \A n \in 1 .. Len(ids) :
          other[ids[n]] = Overflow(val, IF n = Len(ids) THEN 0 ELSE ids[n + 1])

LEMMA ChainWritten ==
    ASSUME NEW file, NEW ids, NEW val, DistinctPages(ids)
    PROVE  HasChain(file, ids, val, WithChain(file, ids, val))
<1>0. /\ Len(ids) \in Nat /\ \A n \in 1 .. Len(ids) : ids[n] \in PageIds
      /\ \A i, j \in 1 .. Len(ids) : ids[i] = ids[j] => i = j
  BY DEF DistinctPages
<1>1. PICK other : other = WithChain(file, ids, val)
  OBVIOUS
<1> DEFINE older(i) ==
        IF \E n \in 1 .. Len(ids) : ids[n] = i
        THEN LET n == CHOOSE n \in 1 .. Len(ids) : ids[n] = i
             IN Overflow(val, IF n = Len(ids) THEN 0 ELSE ids[n + 1])
        ELSE file[i]
<1>2. other = [i \in PageIds |-> older(i)]
  BY <1>1 DEF WithChain
<1>3. \A i \in PageIds : (\A n \in 1 .. Len(ids) : ids[n] # i) => older(i) = file[i]
  OBVIOUS
<1>4. ASSUME NEW n \in 1 .. Len(ids)
      PROVE  older(ids[n]) = Overflow(val, IF n = Len(ids) THEN 0 ELSE ids[n + 1])
  <2>1. PICK m : m = CHOOSE i \in 1 .. Len(ids) : ids[i] = ids[n]
    OBVIOUS
  <2>2. m \in 1 .. Len(ids) /\ ids[m] = ids[n]
    BY <2>1
  <2>3. m = n
    BY <1>0, <2>2
  <2>4. older(ids[n]) = Overflow(val, IF m = Len(ids) THEN 0 ELSE ids[m + 1])
    BY <2>1
  <2> QED
    BY <2>3, <2>4
<1> HIDE DEF older
<1>5. \A i \in PageIds : other[i] = older(i)
  BY <1>2
<1>6. other = [i \in PageIds |-> other[i]]
  BY <1>2
<1>7. \A n \in 1 .. Len(ids) :
         other[ids[n]] = Overflow(val, IF n = Len(ids) THEN 0 ELSE ids[n + 1])
  BY <1>0, <1>4, <1>5
<1>8. \A i \in PageIds : (\A n \in 1 .. Len(ids) : ids[n] # i) => other[i] = file[i]
  BY <1>3, <1>5
<1> QED
  BY <1>1, <1>6, <1>7, <1>8 DEF HasChain


-----------------------------------------------------------------------------
(* A write *)

\* The pages that a write gives back are different.
LEMMA GoneOnce ==
    ASSUME NEW c, NEW next \in Nat, Listed(c, next), NEW root, root \notin Among(c)
    PROVE  LET gone == Append(c, root)
           IN /\ Len(gone) \in Nat /\ DOMAIN gone = 1 .. Len(gone)
              /\ Among(gone) = Among(c) \union {root}
              /\ \A i, j \in 1 .. Len(gone) : gone[i] = gone[j] => i = j
<1>1. /\ Len(c) \in Nat /\ \A n \in 1 .. Len(c) : c[n] \in Among(c)
      /\ \A i, j \in 1 .. Len(c) : c[i] = c[j] => i = j
      /\ c \in Seq(3 .. next - 1)
  BY ListedAmong
<1>2. PICK gone, len : gone = Append(c, root) /\ len = Len(c)
  OBVIOUS
<1>3. /\ Among(gone) = Among(c) \union {root} /\ Len(gone) = len + 1
      /\ gone[len + 1] = root /\ \A n \in 1 .. len : gone[n] = c[n]
  BY <1>1, <1>2, AmongAppend
<1>4. DOMAIN gone = 1 .. Len(gone)
  BY <1>1, <1>2
<1>5. ASSUME NEW i \in 1 .. len + 1, NEW j \in 1 .. len + 1, gone[i] = gone[j] PROVE i = j
  <2>1. (i \in 1 .. len \/ i = len + 1) /\ (j \in 1 .. len \/ j = len + 1)
    BY <1>1, <1>2
  <2> QED
    BY <1>1, <1>2, <1>3, <1>5, <2>1
<1>6. len \in Nat
  BY <1>1, <1>2
<1> QED
  BY <1>2, <1>3, <1>4, <1>5, <1>6


LEMMA FileGrows ==
    ASSUME NEW next \in Nat, NEW more \in Nat, next <= more
    PROVE  /\ 3 .. next - 1 \subseteq 3 .. more - 1 /\ 2 .. next - 1 \subseteq 2 .. more - 1
           /\ 0 \notin 3 .. more - 1 /\ 1 \notin 3 .. more - 1
OBVIOUS

\* The pool after the pages of a new chain are written.
LEMMA WritesIs ==
    ASSUME NEW p, IsPool(p), NEW ids, NEW val
    PROVE  [p EXCEPT !.file = WithChain(@, ids, val)]
              = PoolWith(p.sb, p.epoch, p.recycle, WithChain(p.file, ids, val), p.ids)
<1>1. PICK s, e, w, f, d : p = PoolWith(s, e, w, f, d)
  BY DEF IsPool
<1>2. p.sb = s /\ p.epoch = e /\ p.recycle = w /\ p.file = f /\ p.ids = d
  BY <1>1 DEF PoolWith
<1>3. PICK g : g = WithChain(p.file, ids, val)
  OBVIOUS
<1>4. [p EXCEPT !.file = g] = PoolWith(s, e, w, g, d)
  BY <1>1 DEF PoolWith
<1>5. [p EXCEPT !.file = WithChain(@, ids, val)] = [p EXCEPT !.file = g]
  BY <1>3, Zenon
<1> QED
  BY <1>2, <1>3, <1>4, <1>5

Written(taken, val) == [taken EXCEPT !.file = WithChain(@, Tail(taken.ids), val)]

Writes(p, q, Y, r, chain, val) ==
    /\ PoolFits(r, Y) /\ SameTree(p, r) /\ r.recycle = q.recycle /\ r.epoch = q.epoch
    /\ r.sb = q.sb
    /\ \A i \in PageIds \ Among(chain) : r.file[i] = p.file[i]
    /\ \A n \in 1 .. Len(chain) :
          r.file[chain[n]] = Overflow(val, IF n = Len(chain) THEN 0 ELSE chain[n + 1])
    /\ \A i : FreeIn(r, Y, i) <=> FreeIn(q, Y, i)

\* Taking pages and writing a chain to all but the first of them.
LEMMA TakesAndWrites ==
    ASSUME ShadowPagingAssumption, NEW p, NEW X, NEW q, NEW Y, Takes(p, X, q, Y), PoolFits(p, X),
           q.sb.nextPage <= MaxPages + 1, Len(q.ids) > 0, NEW val
    PROVE  Writes(p, q, Y, Written(q, val), Tail(q.ids), val)
<1>1. PICK r, chain : r = Written(q, val) /\ chain = Tail(q.ids)
  OBVIOUS
<1>2. /\ PoolFits(q, Y) /\ SameTree(p, q) /\ q.file = p.file /\ Listed(q.ids, q.sb.nextPage)
      /\ q.sb.nextPage \in Nat /\ \A i \in Among(q.ids) : ~ FreeIn(q, Y, i)
      /\ IsPool(q)
  BY DEF Takes, SameTree, PoolFits
<1>3. PICK g : g = WithChain(q.file, chain, val)
  OBVIOUS
<1>4. r = PoolWith(q.sb, q.epoch, q.recycle, g, q.ids)
  BY <1>1, <1>2, <1>3, WritesIs, Zenon DEF Written
<1>5. r.sb = q.sb /\ r.epoch = q.epoch /\ r.recycle = q.recycle /\ r.file = g /\ r.ids = q.ids
  BY <1>4 DEF PoolWith
<1>6. Listed(chain, q.sb.nextPage) /\ Among(chain) \subseteq Among(q.ids)
  BY <1>1, <1>2, ListedTail
<1>7. 3 .. q.sb.nextPage - 1 \subseteq PageIds
  BY <1>2 DEF PageIds, ShadowPagingAssumption
<1>8. /\ Len(chain) \in Nat /\ \A n \in 1 .. Len(chain) : chain[n] \in PageIds
      /\ \A n \in 1 .. Len(chain) : chain[n] \in Among(chain)
      /\ \A i, j \in 1 .. Len(chain) : chain[i] = chain[j] => i = j
  BY <1>6, <1>7, ListedAmong
<1>9. /\ g = [i \in PageIds |-> g[i]]
      /\ \A i \in PageIds : (\A n \in 1 .. Len(chain) : chain[n] # i) => g[i] = q.file[i]
      /\ \A n \in 1 .. Len(chain) :
            g[chain[n]] = Overflow(val, IF n = Len(chain) THEN 0 ELSE chain[n + 1])
  <2>1. DistinctPages(chain)
    BY <1>8 DEF DistinctPages
  <2>2. PICK file : file = q.file
    OBVIOUS
  <2>3. HasChain(file, chain, val, g)
    BY <1>3, <2>1, <2>2, ChainWritten
  <2> QED
    BY <2>2, <2>3 DEF HasChain
<1>10. \A i \in PageIds \ Among(chain) : g[i] = q.file[i]
  BY <1>8, <1>9
<1>11. \A x \in Y : r.file[x] = q.file[x]
  <2>1. Y \subseteq 3 .. q.sb.nextPage - 1
    BY <1>2 DEF PoolFits, FreeOK
  <2>2. \A x \in Y : x \notin Among(chain)
    BY <1>2, <1>6 DEF FreeIn, MayBeTaken
  <2> QED
    BY <1>5, <1>7, <1>10, <2>1, <2>2
<1>12. FreeOK(r.file, r.sb, Y) /\ \A i : FreeIn(r, Y, i) <=> FreeIn(q, Y, i)
  <2>1. FreeOK(q.file, q.sb, Y)
    BY <1>2 DEF PoolFits
  <2> QED
    BY <1>5, <1>11, <2>1, FreeFrame DEF FreeIn
<1>13. PoolFits(r, Y)
  <2>1. IsSuperblock(q.sb)
    BY <1>2 DEF IsPool
  <2> QED
    BY <1>4, <1>5, <1>9, <1>12, <2>1 DEF PoolFits, IsPool
<1>14. SameTree(p, r)
  BY <1>2, <1>5 DEF SameTree
<1>15. Writes(p, q, Y, r, chain, val)
  BY <1>2, <1>5, <1>9, <1>10, <1>12, <1>13, <1>14 DEF Writes
<1> QED
  BY <1>1, <1>15

Pushes(p, X, slots, root, chains, held, k, val, len, taken, done, slot) ==
    /\ PoolFits(p, X) /\ p.ids = << >> /\ TreeIs(p.file, slots, root, p.sb.nextPage, chains)
    /\ Apart(p, X, root, chains, held) /\ k \in TreeKeys /\ len \in Nat /\ len <= MaxChain
    /\ taken = AllocateIds(p, 1 + len) /\ taken.sb.nextPage <= MaxPages + 1
    /\ done = Recycled(Written(taken, val), Append(chains[k], root))
    /\ slot = [val |-> val, len |-> len, first |-> IF len = 0 THEN 0 ELSE Head(Tail(taken.ids))]

Pushed(p, X, was, chains, done, slots, root, held) ==
    \E Z, more :
       /\ PoolFits(done, Z) /\ SameTree(p, done) /\ done.sb.nextPage <= MaxPages + 1
       /\ TreeIs(done.file, slots, root, done.sb.nextPage, more)
       /\ Apart(done, Z, root, more, held) /\ root \in done.epoch
       /\ \A i \in PageIds : i \in held \union {0, 1} => done.file[i] = p.file[i]
       /\ Whole(p, X, was, chains) => Whole(done, Z, root, more)
       /\ TypedPages(p.file) => TypedPages(done.file)

\* A write leaves the pages that the durable superblock holds as they were; the
\* tree has the new root and the new chain, and none of its pages is free.
LEMMA PushFits ==
    ASSUME ShadowPagingAssumption, NEW p, NEW X, NEW slots, NEW root, NEW chains, NEW held,
           NEW k, NEW val, NEW len, NEW taken, NEW done, NEW slot,
           Pushes(p, X, slots, root, chains, held, k, val, len, taken, done, slot)
    PROVE  Pushed(p, X, root, chains, done, [slots EXCEPT ![k] = slot], Head(taken.ids), held)
<1>0. /\ PoolFits(p, X) /\ p.ids = << >> /\ TreeIs(p.file, slots, root, p.sb.nextPage, chains)
      /\ Apart(p, X, root, chains, held) /\ k \in TreeKeys /\ len \in Nat /\ len <= MaxChain
      /\ taken = AllocateIds(p, 1 + len) /\ taken.sb.nextPage <= MaxPages + 1
      /\ done = Recycled(Written(taken, val), Append(chains[k], root))
      /\ slot = [val |-> val, len |-> len, first |-> IF len = 0 THEN 0 ELSE Head(Tail(taken.ids))]
  BY DEF Pushes
<1> USE <1>0
<1>1. PICK Y : Takes(p, X, taken, Y) /\ Len(taken.ids) = 1 + len
  BY AllocatesAll
<1>2. PICK new, chain, I, mid, gone, G, next :
        /\ new = Head(taken.ids) /\ chain = Tail(taken.ids) /\ I = Among(taken.ids)
        /\ mid = Written(taken, val) /\ gone = Append(chains[k], root) /\ G = Among(gone)
        /\ next = taken.sb.nextPage
  OBVIOUS
<1>3. /\ SameTree(p, taken) /\ Listed(taken.ids, next) /\ next \in Nat
      /\ p.sb.nextPage \in Nat /\ p.sb.nextPage <= next /\ next <= MaxPages + 1
      /\ taken.epoch = p.epoch \union I /\ taken.recycle = p.recycle
      /\ \A i \in I : FreeIn(p, X, i) /\ ~ FreeIn(taken, Y, i)
      /\ \A i : FreeIn(taken, Y, i) => FreeIn(p, X, i)
      /\ \A i : FreeIn(p, X, i) => i \in I \/ FreeIn(taken, Y, i)
  BY <1>1, <1>2 DEF Takes, SameTree
<1>4. /\ Listed(chain, next) /\ new \in 3 .. next - 1 /\ new \notin Among(chain)
      /\ I = {new} \union Among(chain) /\ Len(chain) = len
  <2>1. PICK ids : ids = taken.ids
    OBVIOUS
  <2>2. Listed(ids, next) /\ Len(ids) > 0 /\ Len(ids) - 1 = len
    BY <1>1, <1>3, <2>1
  <2>3. /\ Listed(Tail(ids), next) /\ Head(ids) \in 3 .. next - 1
        /\ Head(ids) \notin Among(Tail(ids)) /\ Among(ids) = {Head(ids)} \union Among(Tail(ids))
        /\ Len(Tail(ids)) = len
    BY <1>3, <2>2, ListedTail
  <2> QED
    BY <1>2, <2>1, <2>3
<1>5. /\ I \subseteq 3 .. next - 1 /\ 3 .. next - 1 \subseteq PageIds /\ 2 .. next - 1 \subseteq PageIds
      /\ 0 \notin 3 .. next - 1 /\ 1 \notin 3 .. next - 1
      /\ 3 .. p.sb.nextPage - 1 \subseteq 3 .. next - 1 /\ 2 .. p.sb.nextPage - 1 \subseteq 2 .. next - 1
  <2>1. I \subseteq 3 .. next - 1
    BY <1>2, <1>3, ListedAmong
  <2>2. 3 .. next - 1 \subseteq PageIds /\ 2 .. next - 1 \subseteq PageIds
    BY <1>3 DEF PageIds, ShadowPagingAssumption
  <2>3. /\ 0 \notin 3 .. next - 1 /\ 1 \notin 3 .. next - 1
        /\ 3 .. p.sb.nextPage - 1 \subseteq 3 .. next - 1
        /\ 2 .. p.sb.nextPage - 1 \subseteq 2 .. next - 1
    <3>1. p.sb.nextPage \in Nat /\ next \in Nat /\ p.sb.nextPage <= next
      BY <1>3
    <3> QED
      BY <3>1, FileGrows, Zenon
  <2> QED
    BY <2>1, <2>2, <2>3
<1>6. /\ Listed(p.recycle, p.sb.nextPage) /\ p.epoch \subseteq 3 .. p.sb.nextPage - 1
      /\ Among(p.recycle) \intersect PagesOf(root, chains) = {}
      /\ p.epoch \intersect held = {}
      /\ \A id \in PageIds : FreeIn(p, X, id) =>
            /\ id \notin p.epoch \union Among(p.recycle)
            /\ id \notin PagesOf(root, chains) \union held
  BY DEF Apart
<1>7. I \intersect (p.epoch \union Among(p.recycle) \union PagesOf(root, chains) \union held) = {}
  BY <1>3, <1>5, <1>6
<1>8. /\ PagesOf(root, chains) \subseteq 2 .. p.sb.nextPage - 1
      /\ root \in PagesOf(root, chains)
      /\ \A l \in TreeKeys : Among(chains[l]) \subseteq PagesOf(root, chains)
  <2>1. PICK f, n : f = p.file /\ n = p.sb.nextPage
    OBVIOUS
  <2>2. n \in Nat /\ n <= MaxPages + 1
    BY <1>3, <2>1 DEF ShadowPagingAssumption
  <2>3. TreeIs(f, slots, root, n, chains)
    BY <2>1
  <2>4. /\ PagesOf(root, chains) \subseteq 2 .. n - 1
        /\ root \in PagesOf(root, chains)
        /\ \A l \in TreeKeys : Among(chains[l]) \subseteq PagesOf(root, chains)
    BY <2>2, <2>3, TreePages
  <2> QED
    BY <2>1, <2>4
<1>9. /\ \A l \in TreeKeys : ChainIs(p.file, slots[l], chains[l], p.sb.nextPage)
                             /\ root \notin Among(chains[l])
      /\ \A l, m \in TreeKeys : l # m => Among(chains[l]) \intersect Among(chains[m]) = {}
      /\ slots = [l \in TreeKeys |-> slots[l]]
  BY DEF TreeIs
<1>10. /\ Len(gone) \in Nat /\ DOMAIN gone = 1 .. Len(gone)
       /\ G = Among(chains[k]) \union {root}
       /\ \A i, j \in 1 .. Len(gone) : gone[i] = gone[j] => i = j
  <2>1. Listed(chains[k], p.sb.nextPage) /\ root \notin Among(chains[k])
    BY <1>9 DEF ChainIs
  <2> QED
    BY <1>2, <1>3, <2>1, GoneOnce
<1>11. G \subseteq PagesOf(root, chains)
  BY <1>8, <1>10
<1>12. /\ PoolFits(mid, Y) /\ SameTree(p, mid) /\ mid.recycle = p.recycle
       /\ mid.epoch = p.epoch \union I /\ mid.sb.nextPage = next
       /\ \A i \in PageIds \ Among(chain) : mid.file[i] = p.file[i]
       /\ \A n \in 1 .. len : mid.file[chain[n]] = Overflow(val, IF n = len THEN 0 ELSE chain[n + 1])
       /\ \A i : FreeIn(mid, Y, i) <=> FreeIn(taken, Y, i)
  <2>1. Len(taken.ids) > 0 /\ taken.sb.nextPage <= MaxPages + 1
    BY <1>1
  <2>2. /\ PoolFits(mid, Y) /\ SameTree(p, mid) /\ mid.recycle = taken.recycle
        /\ mid.epoch = taken.epoch /\ mid.sb = taken.sb
        /\ \A i \in PageIds \ Among(chain) : mid.file[i] = p.file[i]
        /\ \A n \in 1 .. Len(chain) :
              mid.file[chain[n]] = Overflow(val, IF n = Len(chain) THEN 0 ELSE chain[n + 1])
        /\ \A i : FreeIn(mid, Y, i) <=> FreeIn(taken, Y, i)
    <3>1. Writes(p, taken, Y, mid, chain, val)
      BY <1>1, <1>2, <2>1, TakesAndWrites
    <3> QED
      BY <3>1 DEF Writes
  <2>3. mid.sb.nextPage = next /\ mid.recycle = p.recycle /\ mid.epoch = p.epoch \union I
    BY <1>2, <1>3, <2>2
  <2> QED
    BY <1>4, <2>2, <2>3
<1>13. PICK Z : GivesBack(mid, Y, done, Z, G)
  <2>1. Listed(mid.recycle, mid.sb.nextPage)
    <3>1. PICK w, n : w = p.recycle /\ n = p.sb.nextPage
      OBVIOUS
    <3>2. Listed(w, next)
      BY <1>3, <1>6, <3>1, ListedGrows
    <3> QED
      BY <1>12, <3>1, <3>2
  <2>2. mid.epoch \subseteq 3 .. mid.sb.nextPage - 1 /\ mid.sb.nextPage <= MaxPages + 1
    BY <1>3, <1>5, <1>6, <1>12
  <2>3. ASSUME NEW i \in G
        PROVE  i \in 2 .. mid.sb.nextPage - 1 /\ ~ FreeIn(mid, Y, i) /\ i \notin Among(mid.recycle)
    <3>1. i \in PagesOf(root, chains) /\ i \in 2 .. next - 1 /\ i \in PageIds
      BY <1>3, <1>5, <1>8, <1>11
    <3>2. ~ FreeIn(p, X, i) /\ i \notin Among(p.recycle)
      BY <1>6, <3>1
    <3> QED
      BY <1>3, <1>12, <3>1, <3>2
  <2>4. done = Recycled(mid, gone) /\ G = Among(gone)
    BY <1>2
  <2>5. \E Z : GivesBack(mid, Y, Recycled(mid, gone), Z, Among(gone))
    <3>1. PoolFits(mid, Y)
      BY <1>12
    <3> QED
      BY <1>10, <2>1, <2>2, <2>3, <2>4, <3>1, RecyclesAll
  <2> QED
    BY <2>4, <2>5
<1>14. /\ PoolFits(done, Z) /\ SameTree(mid, done) /\ done.sb.nextPage = next
       /\ done.epoch = (p.epoch \union I) \ G
       /\ Listed(done.recycle, next)
       /\ Among(done.recycle) \subseteq Among(p.recycle) \union (G \ p.epoch)
       /\ \A i \in Among(p.recycle) \union (G \ p.epoch) : i > 2 => i \in Among(done.recycle)
       /\ \A i \in PageIds \ (G \intersect p.epoch) : done.file[i] = mid.file[i]
       /\ \A i : FreeIn(done, Z, i) <=> i \in G \intersect p.epoch \/ FreeIn(taken, Y, i)
       /\ OnlyFrees(mid.file, done.file)
  <2>1. /\ G \intersect (p.epoch \union I) = G \intersect p.epoch
        /\ G \ (p.epoch \union I) = G \ p.epoch
    BY <1>7, <1>11
  <2>2. /\ PoolFits(done, Z) /\ SameTree(mid, done) /\ done.sb.nextPage = next
        /\ done.epoch = (p.epoch \union I) \ G
        /\ Listed(done.recycle, done.sb.nextPage)
        /\ Among(done.recycle) \subseteq Among(p.recycle) \union (G \ (p.epoch \union I))
        /\ \A i \in Among(p.recycle) \union (G \ (p.epoch \union I)) :
              i > 2 => i \in Among(done.recycle)
        /\ \A i \in PageIds \ (G \intersect (p.epoch \union I)) : done.file[i] = mid.file[i]
        /\ \A i : FreeIn(done, Z, i) <=> i \in G \intersect (p.epoch \union I) \/ FreeIn(mid, Y, i)
        /\ OnlyFrees(mid.file, done.file)
    BY <1>12, <1>13 DEF GivesBack
  <2> QED
    BY <1>12, <2>1, <2>2
<1>15. SameTree(p, done)
  BY <1>12, <1>14 DEF SameTree
<1>16. PICK more : more = [l \in TreeKeys |-> IF l = k THEN chain ELSE chains[l]]
  OBVIOUS
<1>17. \A l \in TreeKeys : more[l] = IF l = k THEN chain ELSE chains[l]
  BY <1>16
<1>18. /\ new \notin PagesOf(root, chains)
       /\ Among(chain) \intersect PagesOf(root, chains) = {}
       /\ \A l \in TreeKeys \ {k} : Among(chains[l]) \intersect G = {}
  BY <1>4, <1>7, <1>9, <1>10
<1>19. ASSUME NEW l \in TreeKeys, l # k PROVE ChainIs(done.file, slots[l], chains[l], next)
  <2>1. \A i \in Among(chains[l]) : done.file[i] = p.file[i]
    <3>1. Among(chains[l]) \subseteq PageIds
      BY <1>3, <1>5, <1>8
    <3> QED
      BY <1>8, <1>12, <1>14, <1>18, <1>19, <3>1
  <2> QED
    BY <1>3, <1>9, <2>1, ChainFrame
<1>20. ChainIs(done.file, slot, chain, next)
  <2>1. slot = [val |-> val, first |-> slot.first, len |-> len] /\ slot.val = val /\ slot.len = len
        /\ slot.first = (IF len = 0 THEN 0 ELSE Head(chain))
    BY <1>2
  <2>2. /\ chain = << >> <=> len = 0
        /\ len # 0 => Head(chain) = chain[1]
    <3>1. chain \in Seq(3 .. next - 1)
      BY <1>4, ListedAmong
    <3> QED
      BY <1>4, <3>1
  <2>3. ASSUME NEW n \in 1 .. len
        PROVE  done.file[chain[n]] = Overflow(val, IF n = len THEN 0 ELSE chain[n + 1])
    <3>1. chain[n] \in Among(chain)
      BY <1>4, ListedAmong
    <3>2. chain[n] \in PageIds /\ chain[n] \notin G
      BY <1>4, <1>5, <1>11, <1>18, <3>1
    <3> QED
      BY <1>12, <1>14, <3>2
  <2> QED
    BY <1>4, <2>1, <2>2, <2>3 DEF ChainIs
<1>21. TreeIs(done.file, [slots EXCEPT ![k] = slot], new, next, more)
  <2>1. PICK s : s = [slots EXCEPT ![k] = slot]
    OBVIOUS
  <2>2. s = [l \in TreeKeys |-> s[l]] /\ \A l \in TreeKeys : s[l] = IF l = k THEN slot ELSE slots[l]
    BY <1>9, <2>1
  <2>3. \A l \in TreeKeys : ChainIs(done.file, s[l], more[l], next)
    BY <1>17, <1>19, <1>20, <2>2
  <2>4. \A l \in TreeKeys : new \notin Among(more[l])
    BY <1>4, <1>8, <1>17, <1>18
  <2>5. \A l, m \in TreeKeys : l # m => Among(more[l]) \intersect Among(more[m]) = {}
    BY <1>8, <1>9, <1>17, <1>18
  <2>6. new \in 2 .. next - 1
    BY <1>3, <1>4
  <2>7. TreeIs(done.file, s, new, next, more)
    BY <2>2, <2>3, <2>4, <2>5, <2>6 DEF TreeIs
  <2> QED
    BY <2>1, <2>7
<1>22. PagesOf(new, more) \subseteq I \union (PagesOf(root, chains) \ G)
  <2>1. ASSUME NEW l \in TreeKeys PROVE Among(more[l]) \subseteq I \union (PagesOf(root, chains) \ G)
    BY <1>4, <1>8, <1>17, <1>18
  <2> QED
    BY <1>4, <2>1 DEF PagesOf
<1>27. I \union (PagesOf(root, chains) \ G) \subseteq PagesOf(new, more)
  <2>1. Among(chain) \subseteq PagesOf(new, more)
    <3>1. more[k] = chain
      BY <1>17
    <3> QED
      BY <3>1 DEF PagesOf
  <2>2. ASSUME NEW i \in PagesOf(root, chains), i \notin G PROVE i \in PagesOf(new, more)
    <3>1. PICK l \in TreeKeys : i \in Among(chains[l])
      BY <1>10, <2>2 DEF PagesOf
    <3>2. l # k /\ more[l] = chains[l]
      BY <1>10, <1>17, <2>2, <3>1
    <3> QED
      BY <3>1, <3>2 DEF PagesOf
  <2>3. new \in PagesOf(new, more)
    BY DEF PagesOf
  <2> QED
    BY <1>4, <2>1, <2>2, <2>3
<1>28. ASSUME Whole(p, X, root, chains) PROVE Whole(done, Z, new, more)
  <2>1. ASSUME NEW i \in Nat, i >= 3
        PROVE  FreeIn(done, Z, i) \/ i \in PagesOf(new, more) \/ i \in Among(done.recycle)
    <3>1. FreeIn(p, X, i) \/ i \in PagesOf(root, chains) \/ i \in Among(p.recycle)
      BY <1>28, <2>1 DEF Whole
    <3>2. CASE FreeIn(p, X, i)
      BY <1>3, <1>14, <1>27, <3>2
    <3>3. CASE i \in PagesOf(root, chains) \ G
      BY <1>27, <3>3
    <3>4. CASE i \in G
      BY <1>14, <2>1, <3>4
    <3>5. CASE i \in Among(p.recycle)
      BY <1>14, <2>1, <3>5
    <3> QED
      BY <3>1, <3>2, <3>3, <3>4, <3>5
  <2> QED
    BY <2>1 DEF Whole
<1>29. ASSUME TypedPages(p.file) PROVE TypedPages(done.file)
  <2>1. ASSUME NEW i \in PageIds PROVE mid.file[i].type \in PageTypes
    <3>1. CASE i \notin Among(chain)
      BY <1>12, <1>29, <3>1 DEF TypedPages
    <3>2. CASE i \in Among(chain)
      <4>1. PICK n \in 1 .. len : i = chain[n]
        <5>1. DOMAIN chain = 1 .. len
          BY <1>4, ListedAmong
        <5> QED
          BY <3>2, <5>1 DEF Among
      <4>2. PICK after : mid.file[i] = Overflow(val, after)
        BY <1>12, <4>1
      <4>3. mid.file[i].type = "overflow"
        BY <4>2 DEF Overflow
      <4> QED
        BY <4>3 DEF PageTypes
    <3> QED
      BY <3>1, <3>2
  <2> QED
    BY <1>14, <2>1 DEF TypedPages, OnlyFrees, PageTypes
<1>23. Apart(done, Z, new, more, held)
  <2>1. done.epoch \subseteq 3 .. next - 1
    BY <1>3, <1>5, <1>6, <1>14
  <2>2. Among(done.recycle) \intersect PagesOf(new, more) = {}
    BY <1>6, <1>7, <1>11, <1>14, <1>22
  <2>3. done.epoch \intersect held = {}
    BY <1>6, <1>7, <1>14
  <2>4. ASSUME NEW id \in PageIds, FreeIn(done, Z, id)
        PROVE  /\ id \notin done.epoch \union Among(done.recycle)
               /\ id \notin PagesOf(new, more) \union held
    <3>1. CASE id \in G \intersect p.epoch
      <4>1. id \notin I
        BY <1>7, <1>11, <3>1
      <4>2. id \notin Among(done.recycle)
        BY <1>6, <1>11, <1>14, <3>1
      <4> QED
        BY <1>6, <1>14, <1>22, <3>1, <4>1, <4>2
    <3>2. CASE FreeIn(taken, Y, id)
      <4>1. FreeIn(p, X, id) /\ id \notin I
        BY <1>3, <3>2
      <4>2. id \notin p.epoch \union Among(p.recycle) \union PagesOf(root, chains) \union held
        BY <1>6, <4>1
      <4> QED
        BY <1>11, <1>14, <1>22, <4>1, <4>2
    <3> QED
      BY <1>14, <2>4, <3>1, <3>2
  <2> QED
    BY <1>14, <2>1, <2>2, <2>3, <2>4 DEF Apart
<1>24. new \in done.epoch
  BY <1>4, <1>11, <1>14, <1>18
<1>25. ASSUME NEW i \in PageIds, i \in held \union {0, 1} PROVE done.file[i] = p.file[i]
  <2>1. i \notin I /\ i \notin p.epoch
    <3>1. CASE i \in held
      BY <1>6, <1>7, <3>1
    <3>2. CASE i \in {0, 1}
      BY <1>3, <1>5, <1>6, <3>2
    <3> QED
      BY <1>25, <3>1, <3>2
  <2> QED
    BY <1>4, <1>12, <1>14, <2>1
<1>26. Pushed(p, X, root, chains, done, [slots EXCEPT ![k] = slot], new, held)
  BY <1>3, <1>14, <1>15, <1>21, <1>23, <1>24, <1>25, <1>28, <1>29 DEF Pushed
<1> QED
  BY <1>2, <1>26


-----------------------------------------------------------------------------
(* The actions *)

LEMMA PoolIs ==
    ASSUME NEW X, NEW chains, NEW onDisk, FileFits, RolesFit(X, chains, onDisk)
    PROVE  /\ PoolFits(Pool, X) /\ Pool.ids = << >> /\ Pool.sb = sb /\ Pool.file = page
           /\ Pool.epoch = epoch /\ Pool.recycle = recycle
           /\ TreeIs(Pool.file, tree.slots, tree.root, Pool.sb.nextPage, chains)
           /\ sb.nextPage \in Nat /\ sb.nextPage <= MaxPages + 1 /\ sb.root = tree.root
<1>1. Pool = PoolWith(sb, epoch, recycle, page, << >>)
  BY DEF Pool, PoolWith
<1>2. /\ Pool.ids = << >> /\ Pool.sb = sb /\ Pool.file = page
      /\ Pool.epoch = epoch /\ Pool.recycle = recycle
  BY <1>1 DEF PoolWith
<1>3. IsSuperblock(sb) /\ sb.root = tree.root
  BY FieldsOf DEF RolesFit
<1>4. IsPool(Pool)
  BY <1>1, <1>2, <1>3 DEF IsPool, FileFits
<1>5. FreeOK(page, sb, X) /\ sb.nextPage \in Nat
  BY DEF RolesFit, FreeOK
<1> QED
  BY <1>2, <1>3, <1>4, <1>5 DEF PoolFits, RolesFit

LEMMA ApartFrame ==
    ASSUME NEW p, NEW q, NEW X, FreeOK(p.file, p.sb, X), NEW root, NEW chains, NEW held,
           Apart(p, X, root, chains, held),
           q.sb.nextPage = p.sb.nextPage, q.sb.head = p.sb.head, q.sb.free = p.sb.free,
           q.epoch = p.epoch, q.recycle = p.recycle, \A x \in X : q.file[x] = p.file[x]
    PROVE  Apart(q, X, root, chains, held)
<1>1. PICK f, g, s, t : f = p.file /\ g = q.file /\ s = p.sb /\ t = q.sb
  OBVIOUS
<1>2. \A id : MayBeTaken(g, t, X, id) <=> MayBeTaken(f, s, X, id)
  BY <1>1, FreeFrame
<1> QED
  BY <1>1, <1>2 DEF Apart, FreeIn

LEMMA WholeFrame ==
    ASSUME NEW p, NEW q, NEW X, FreeOK(p.file, p.sb, X), NEW root, NEW chains,
           Whole(p, X, root, chains),
           q.sb.nextPage = p.sb.nextPage, q.sb.head = p.sb.head, q.sb.free = p.sb.free,
           q.recycle = p.recycle, \A x \in X : q.file[x] = p.file[x]
    PROVE  Whole(q, X, root, chains)
<1>1. PICK f, g, s, t : f = p.file /\ g = q.file /\ s = p.sb /\ t = q.sb
  OBVIOUS
<1>2. \A id : MayBeTaken(g, t, X, id) <=> MayBeTaken(f, s, X, id)
  BY <1>1, FreeFrame
<1> QED
  BY <1>1, <1>2 DEF Whole, FreeIn

LEMMA UsesOne ==
    ASSUME treeUsed \in [TreeBounds -> Nat], NEW what \in TreeBounds, NEW max \in Nat,
           Uses(what, max)
    PROVE  /\ treeUsed' \in [TreeBounds -> Nat]
           /\ treeUsed'[what] = treeUsed[what] + 1 /\ treeUsed'[what] <= max
           /\ \A other \in TreeBounds \ {what} : treeUsed'[other] = treeUsed[other]
BY DEF Uses

Agree(file, other, ids) == \A i \in ids : other[i] = file[i]

LEMMA DurableFrame ==
    ASSUME NEW file, NEW other, NEW s, NEW chains, DurableIs(file, s, chains),
           Agree(file, other, PagesOf(s.root, chains))
    PROVE  DurableIs(other, s, chains) /\ other[s.root] = file[s.root]
<1>1. s.root \in PagesOf(s.root, chains) /\ \A k \in TreeKeys : Among(chains[k]) \subseteq PagesOf(s.root, chains)
  BY DEF PagesOf
<1>2. other[s.root] = file[s.root]
  BY <1>1 DEF Agree
<1>3. PICK slots, root, next : slots = file[s.root].slots /\ root = s.root /\ next = s.nextPage
  OBVIOUS
<1>4. next \in Nat /\ TreeIs(file, slots, root, next, chains)
  BY <1>3 DEF DurableIs
<1>5. \A k \in TreeKeys : \A i \in Among(chains[k]) : other[i] = file[i]
  BY <1>1 DEF Agree
<1>6. TreeIs(other, slots, root, next, chains)
  BY <1>4, <1>5, TreeFrame
<1> QED
  BY <1>2, <1>3, <1>6 DEF DurableIs

\* The pages of the durable tree are pages of the file, and no superblock.
LEMMA DurablePages ==
    ASSUME ShadowPagingAssumption, NEW file, NEW s, NEW chains, DurableIs(file, s, chains)
    PROVE  PagesOf(s.root, chains) \subseteq PageIds \ {0, 1}
<1>1. PICK slots, root, next : slots = file[s.root].slots /\ root = s.root /\ next = s.nextPage
  OBVIOUS
<1>2. next \in Nat /\ next <= MaxPages + 1 /\ TreeIs(file, slots, root, next, chains)
  BY <1>1 DEF DurableIs, ShadowPagingAssumption
<1> QED
  BY <1>1, <1>2, TreePages

LEMMA ActiveIds ==
    ASSUME ShadowPagingAssumption, NEW a \in {0, 1}
    PROVE  a \in PageIds /\ 1 - a \in PageIds /\ 1 - a \in {0, 1} /\ a # 1 - a /\ {0, 1} \subseteq PageIds
BY DEF PageIds, ShadowPagingAssumption

\* push_msg.
LEMMA PushKeeps ==
    ASSUME ShadowPagingAssumption, ShadowInv, treeAt = "open",
           NEW k \in TreeKeys, NEW val, NEW len \in 0 .. MaxChain, PushMsg(k, val, len),
           Uses("writes", MaxTreeWrites)
    PROVE  ShadowInv'
<1>1. PICK X, chains, onDisk : RolesFit(X, chains, onDisk) /\ ActiveFits(onDisk)
  BY DEF ShadowInv, Working
<1>2. FileFits /\ CommitFits /\ TypesFit
  BY DEF ShadowInv, Working
<1>3. PICK held, p, taken, done, slot, root :
        /\ held = PagesOf(page[active].root, onDisk) /\ p = Pool /\ taken = AllocateIds(p, 1 + len)
        /\ root = Head(taken.ids)
        /\ done = Recycled(Written(taken, val), Append(chains[k], tree.root))
        /\ slot = [val |-> val, len |-> len, first |-> IF len = 0 THEN 0 ELSE Head(Tail(taken.ids))]
  OBVIOUS
<1>4. /\ PoolFits(p, X) /\ p.ids = << >> /\ p.sb = sb /\ p.file = page /\ p.epoch = epoch
      /\ p.recycle = recycle /\ TreeIs(p.file, tree.slots, tree.root, p.sb.nextPage, chains)
      /\ sb.nextPage \in Nat /\ sb.nextPage <= MaxPages + 1
  BY <1>1, <1>2, <1>3, PoolIs
<1>5. ChainOf(page, tree.slots[k]) = chains[k]
  <2>1. ChainIs(page, tree.slots[k], chains[k], sb.nextPage)
    BY <1>1 DEF RolesFit, TreeIs
  <2> QED
    BY <2>1, ChainFound
<1>6. /\ taken.sb.nextPage <= MaxPages + 1
      /\ page' = done.file /\ epoch' = done.epoch /\ recycle' = done.recycle
      /\ tree' = [root |-> root, slots |-> [tree.slots EXCEPT ![k] = slot]]
      /\ sb' = [done.sb EXCEPT !.root = root]
      /\ UNCHANGED <<synced, active, treeAt, kept, saving>>
  BY <1>3, <1>5 DEF PushMsg, Written
<1>7. len \in Nat /\ len <= MaxChain
  BY DEF ShadowPagingAssumption
<1>8. Apart(p, X, tree.root, chains, held)
  BY <1>1, <1>3 DEF RolesFit
<1>9. PICK Z, more :
        /\ PoolFits(done, Z) /\ SameTree(p, done) /\ done.sb.nextPage <= MaxPages + 1
        /\ TreeIs(done.file, [tree.slots EXCEPT ![k] = slot], root, done.sb.nextPage, more)
        /\ Apart(done, Z, root, more, held) /\ root \in done.epoch
        /\ \A i \in PageIds : i \in held \union {0, 1} => done.file[i] = p.file[i]
        /\ Whole(p, X, tree.root, chains) => Whole(done, Z, root, more)
        /\ TypedPages(p.file) => TypedPages(done.file)
  <2>1. PICK slots, old : slots = tree.slots /\ old = tree.root
    OBVIOUS
  <2>2. Pushes(p, X, slots, old, chains, held, k, val, len, taken, done, slot)
    BY <1>3, <1>4, <1>6, <1>7, <1>8, <2>1 DEF Pushes
  <2>3. Pushed(p, X, old, chains, done, [slots EXCEPT ![k] = slot], Head(taken.ids), held)
    BY <2>2, PushFits
  <2> QED
    BY <1>3, <2>1, <2>3 DEF Pushed
<1>10. sb' = Superblock(done.sb.generation, root, done.sb.nextPage, done.sb.head, done.sb.free)
  <2>1. PICK t : t = done.sb
    OBVIOUS
  <2>2. IsSuperblock(t)
    BY <1>9, <2>1 DEF PoolFits, IsPool
  <2> QED
    BY <1>6, <2>1, <2>2, SuperblockEdits
<1>11. /\ sb'.generation = done.sb.generation /\ sb'.root = root /\ sb'.nextPage = done.sb.nextPage
       /\ sb'.head = done.sb.head /\ sb'.free = done.sb.free
  BY <1>10 DEF Superblock
<1>12. /\ tree'.root = root /\ tree'.slots = [tree.slots EXCEPT ![k] = slot]
       /\ tree' = [root |-> tree'.root, slots |-> tree'.slots]
  BY <1>6
<1>13. /\ active \in {0, 1} /\ DurableIs(page, page[active], onDisk)
       /\ page[active].nextPage <= sb.nextPage
       /\ page[active] = synced[active] /\ Older(synced[1 - active], page[active])
       /\ \A id \in PagesOf(page[active].root, onDisk) : page[id] = synced[id]
       /\ kept = MapOf(page[page[active].root].slots)
       /\ sb.generation = page[active].generation
       /\ page[1 - active] = synced[1 - active]
       /\ page[active].nextPage \in Nat
  BY <1>1 DEF ActiveFits, DurableIs
<1>14. held \subseteq PageIds \ {0, 1} /\ active \in PageIds /\ 1 - active \in PageIds /\ 1 - active \in {0, 1}
  BY <1>3, <1>13, DurablePages, ActiveIds
<1>15. page'[active] = page[active] /\ page'[1 - active] = page[1 - active]
       /\ \A i \in held : page'[i] = page[i]
  BY <1>4, <1>6, <1>9, <1>13, <1>14
<1>16. /\ DurableIs(page', page[active], onDisk)
       /\ page'[page[active].root] = page[page[active].root]
  <2>1. PICK file, other, s : file = page /\ other = page' /\ s = page[active]
    OBVIOUS
  <2>2. DurableIs(file, s, onDisk) /\ Agree(file, other, PagesOf(s.root, onDisk))
    BY <1>3, <1>13, <1>15, <2>1 DEF Agree
  <2>3. DurableIs(other, s, onDisk) /\ other[s.root] = file[s.root]
    BY <2>2, DurableFrame
  <2> QED
    BY <2>1, <2>3
<1>17. Apart(Pool', Z, root, more, held)
  <2>1. /\ Pool'.sb = sb' /\ Pool'.file = page' /\ Pool'.epoch = epoch' /\ Pool'.recycle = recycle'
    BY DEF Pool
  <2>2. PICK q : q = Pool'
    OBVIOUS
  <2>3. /\ q.sb.nextPage = done.sb.nextPage /\ q.sb.head = done.sb.head /\ q.sb.free = done.sb.free
        /\ q.epoch = done.epoch /\ q.recycle = done.recycle
        /\ \A x \in Z : q.file[x] = done.file[x]
    BY <1>6, <1>11, <2>1, <2>2
  <2>4. FreeOK(done.file, done.sb, Z)
    BY <1>9 DEF PoolFits
  <2>5. Apart(q, Z, root, more, held)
    BY <1>9, <2>3, <2>4, ApartFrame
  <2> QED
    BY <2>2, <2>5
<1>18. FreeOK(page', sb', Z)
  <2>1. PICK s, t, f : s = done.sb /\ t = sb' /\ f = done.file
    OBVIOUS
  <2>2. FreeOK(f, s, Z) /\ s.nextPage = t.nextPage /\ s.head = t.head /\ s.free = t.free
    BY <1>9, <1>11, <2>1 DEF PoolFits
  <2>3. FreeOK(f, t, Z)
    BY <2>2, FreeFrame
  <2> QED
    BY <1>6, <2>1, <2>3
<1>24. treeUsed' \in [TreeBounds -> Nat] /\ treeUsed'.writes <= MaxTreeWrites
       /\ treeUsed'.crashes = treeUsed.crashes
  <2>1. MaxTreeWrites \in Nat
    BY DEF ShadowPagingAssumption
  <2> QED
    BY <1>2, <2>1, UsesOne DEF TypesFit, TreeBounds
<1>25. treeUsed'.crashes = 0 => Whole(Pool', Z, root, more)
  <2>1. ASSUME treeUsed'.crashes = 0 PROVE Whole(done, Z, root, more)
    <3>1. Whole(p, X, tree.root, chains)
      BY <1>1, <1>3, <1>24, <2>1 DEF RolesFit
    <3> QED
      BY <1>9, <3>1
  <2>2. PICK q : q = Pool'
    OBVIOUS
  <2>3. /\ q.sb.nextPage = done.sb.nextPage /\ q.sb.head = done.sb.head /\ q.sb.free = done.sb.free
        /\ q.recycle = done.recycle /\ \A x \in Z : q.file[x] = done.file[x]
    BY <1>6, <1>11, <2>2 DEF Pool
  <2>4. FreeOK(done.file, done.sb, Z)
    BY <1>9 DEF PoolFits
  <2>5. treeUsed'.crashes = 0 => Whole(q, Z, root, more)
    BY <2>1, <2>3, <2>4, WholeFrame
  <2> QED
    BY <2>2, <2>5
<1>19. RolesFit(Z, more, onDisk)'
  <2>1. PagesOf(page[active].root, onDisk) = held
    BY <1>3
  <2> QED
    BY <1>6, <1>9, <1>10, <1>11, <1>12, <1>15, <1>17, <1>18, <1>25, <2>1 DEF RolesFit
<1>20. sb'.generation = sb.generation /\ page[active].nextPage <= sb'.nextPage
  <2>1. done.sb.generation = sb.generation /\ sb.nextPage <= done.sb.nextPage /\ done.sb.nextPage \in Nat
    BY <1>4, <1>9 DEF SameTree
  <2>2. PICK a, b, c : a = page[active].nextPage /\ b = sb.nextPage /\ c = done.sb.nextPage
    OBVIOUS
  <2>3. a \in Nat /\ b \in Nat /\ c \in Nat /\ a <= b /\ b <= c
    BY <1>4, <1>13, <2>1, <2>2
  <2>4. a <= c
    BY <2>3
  <2> QED
    BY <1>11, <2>1, <2>2, <2>4
<1>21. ActiveFits(onDisk)'
  <2>1. PICK a, s : a = active /\ s = page[active]
    OBVIOUS
  <2>2. /\ active' = a /\ page'[a] = s /\ synced' = synced /\ treeAt' = "open"
        /\ kept' = kept /\ page'[1 - a] = page[1 - a]
    BY <1>6, <1>15, <2>1
  <2>3. /\ a \in {0, 1} /\ DurableIs(page', s, onDisk) /\ s.nextPage <= sb'.nextPage
        /\ s = synced[a] /\ Older(synced[1 - a], s)
        /\ kept = MapOf(page'[s.root].slots) /\ page'[1 - a] = synced[1 - a]
    BY <1>13, <1>15, <1>16, <1>20, <2>1
  <2>4. \A id \in PagesOf(s.root, onDisk) : page'[id] = synced[id]
    BY <1>3, <1>13, <1>15, <2>1
  <2>5. sb'.generation = s.generation + 0
    BY <1>13, <1>20, <2>1 DEF DurableIs
  <2> QED
    BY <2>2, <2>3, <2>4, <2>5 DEF ActiveFits
<1>22. CommitFits'
  BY <1>6, <1>9, <1>12 DEF CommitFits
<1>23. FileFits'
  <2>1. page' = [id \in PageIds |-> page'[id]]
    BY <1>6, <1>9 DEF PoolFits, IsPool
  <2> QED
    BY <1>2, <1>6, <2>1 DEF FileFits, Working
<1>26. TypesFit'
  BY <1>2, <1>4, <1>6, <1>9, <1>24 DEF TypesFit, Working
<1> QED
  BY <1>6, <1>19, <1>21, <1>22, <1>23, <1>26 DEF ShadowInv, Working


\* What the roles depend on.
LEMMA RolesKept ==
    ASSUME NEW X, NEW chains, NEW onDisk, RolesFit(X, chains, onDisk),
           sb' = Superblock(sb'.generation, tree.root, sb.nextPage, sb.head, sb.free),
           tree' = tree, epoch' = epoch, recycle' = recycle,
           \A i \in X : page'[i] = page[i],
           \A k \in TreeKeys : \A i \in Among(chains[k]) : page'[i] = page[i],
           page'[active'].root = page[active].root, treeUsed'.crashes = treeUsed.crashes
    PROVE  RolesFit(X, chains, onDisk)'
<1>1. PICK s, t, f, g, p, q, root, slots :
        /\ s = sb /\ t = sb' /\ f = page /\ g = page' /\ p = Pool /\ q = Pool'
        /\ root = tree.root /\ slots = tree.slots
  OBVIOUS
<1>2. /\ t.nextPage = s.nextPage /\ t.head = s.head /\ t.free = s.free
      /\ t = Superblock(t.generation, root, t.nextPage, t.head, t.free)
  BY <1>1 DEF Superblock
<1>3. FreeOK(f, s, X) /\ TreeIs(f, slots, root, s.nextPage, chains) /\ s.nextPage <= MaxPages + 1
  BY <1>1 DEF RolesFit
<1>4. s.nextPage \in Nat
  BY <1>3 DEF FreeOK
<1>5. \A i \in X : g[i] = f[i]
  BY <1>1
<1>6. FreeOK(g, t, X)
  BY <1>2, <1>3, <1>5, FreeFrame
<1>7. TreeIs(g, slots, root, t.nextPage, chains)
  <2>1. \A k \in TreeKeys : \A i \in Among(chains[k]) : g[i] = f[i]
    BY <1>1
  <2>2. TreeIs(g, slots, root, s.nextPage, chains)
    BY <1>3, <1>4, <2>1, TreeFrame
  <2> QED
    BY <1>2, <2>2
<1>8. PICK held : held = PagesOf(page[active].root, onDisk)
  OBVIOUS
<1>9. /\ p.sb = s /\ p.file = f /\ p.epoch = epoch /\ p.recycle = recycle
      /\ q.sb = t /\ q.file = g /\ q.epoch = epoch /\ q.recycle = recycle
  BY <1>1 DEF Pool
<1>10. Apart(p, X, root, chains, held)
  BY <1>1, <1>8 DEF RolesFit
<1>11. Apart(q, X, root, chains, held)
  BY <1>2, <1>3, <1>5, <1>9, <1>10, ApartFrame
<1>12. treeUsed'.crashes = 0 => Whole(q, X, root, chains)
  <2>1. treeUsed'.crashes = 0 => Whole(p, X, root, chains)
    BY <1>1 DEF RolesFit
  <2> QED
    BY <1>2, <1>3, <1>5, <1>9, <2>1, WholeFrame
<1> QED
  BY <1>1, <1>2, <1>3, <1>6, <1>7, <1>8, <1>11, <1>12 DEF RolesFit

\* The pages of the tree are not free, and no superblock.
LEMMA RolesPages ==
    ASSUME ShadowPagingAssumption, NEW X, NEW chains, NEW onDisk, RolesFit(X, chains, onDisk)
    PROVE  /\ PagesOf(tree.root, chains) \subseteq PageIds \ {0, 1}
           /\ tree.root \in PagesOf(tree.root, chains)
           /\ \A k \in TreeKeys : /\ Among(chains[k]) \subseteq PagesOf(tree.root, chains)
                                  /\ tree.root \notin Among(chains[k])
           /\ X \intersect PagesOf(tree.root, chains) = {} /\ X \intersect {0, 1} = {}
           /\ epoch \intersect PagesOf(page[active].root, onDisk) = {}
           /\ sb.nextPage \in Nat /\ sb.nextPage >= 3 /\ sb.nextPage <= MaxPages + 1
<1>1. PICK slots, root, next, f : slots = tree.slots /\ root = tree.root /\ next = sb.nextPage /\ f = page
  OBVIOUS
<1>2. FreeOK(f, sb, X) /\ TreeIs(f, slots, root, next, chains) /\ next <= MaxPages + 1
  BY <1>1 DEF RolesFit
<1>3. next \in Nat /\ next >= 3 /\ X \subseteq 3 .. next - 1
  BY <1>1, <1>2 DEF FreeOK
<1>4. /\ PagesOf(root, chains) \subseteq PageIds \ {0, 1}
      /\ root \in PagesOf(root, chains)
      /\ \A k \in TreeKeys : Among(chains[k]) \subseteq PagesOf(root, chains)
  BY <1>2, <1>3, TreePages
<1>5. \A k \in TreeKeys : root \notin Among(chains[k])
  BY <1>2 DEF TreeIs
<1>6. Apart(Pool, X, root, chains, PagesOf(page[active].root, onDisk))
  BY <1>1 DEF RolesFit
<1>7. \A x \in X : FreeIn(Pool, X, x)
  BY DEF FreeIn, MayBeTaken
<1>8. X \intersect PagesOf(root, chains) = {}
  BY <1>4, <1>6, <1>7 DEF Apart
<1>9. X \intersect {0, 1} = {}
  BY <1>3
<1>10. epoch \intersect PagesOf(page[active].root, onDisk) = {}
  BY <1>6 DEF Apart, Pool
<1> QED
  BY <1>1, <1>2, <1>3, <1>4, <1>5, <1>8, <1>9, <1>10

\* What ActiveFits says, named.
LEMMA ActiveIs ==
    ASSUME ShadowPagingAssumption, NEW onDisk, ActiveFits(onDisk)
    PROVE  /\ active \in {0, 1} /\ 1 - active \in {0, 1} /\ 1 - active # active
           /\ {active, 1 - active} \subseteq PageIds
           /\ DurableIs(page, page[active], onDisk)
           /\ PagesOf(page[active].root, onDisk) \subseteq PageIds \ {active, 1 - active}
           /\ page[active].root \in PagesOf(page[active].root, onDisk)
           /\ page[active].generation \in Nat
<1>1. active \in {0, 1} /\ DurableIs(page, page[active], onDisk)
  BY DEF ActiveFits
<1>2. PagesOf(page[active].root, onDisk) \subseteq PageIds \ {0, 1}
  BY <1>1, DurablePages
<1>3. page[active].generation \in Nat /\ page[active].root \in PagesOf(page[active].root, onDisk)
  BY <1>1 DEF DurableIs, PagesOf
<1> QED
  BY <1>1, <1>2, <1>3, ActiveIds

LEMMA CommitPagesKeeps ==
    ASSUME ShadowPagingAssumption, ShadowInv, CommitPages
    PROVE  ShadowInv'
<1>1. /\ treeAt = "open" /\ treeAt' = "sync"
      /\ page' = [page EXCEPT ![tree.root] = Leaf(tree.slots)]
      /\ saving' = MapOf(tree.slots)
      /\ UNCHANGED <<synced, tree, sb, active, epoch, recycle, kept>>
  BY DEF CommitPages, memoryVars
<1>2. PICK X, chains, onDisk : RolesFit(X, chains, onDisk) /\ ActiveFits(onDisk)
  BY <1>1 DEF ShadowInv, Working
<1>3. FileFits /\ CommitFits /\ TypesFit
  BY <1>1 DEF ShadowInv, Working
<1>4. /\ tree.root \in PageIds \ {0, 1} /\ tree.root \notin X
      /\ \A k \in TreeKeys : tree.root \notin Among(chains[k])
      /\ \A k \in TreeKeys : Among(chains[k]) \subseteq PageIds
      /\ X \intersect {0, 1} = {} /\ epoch \intersect PagesOf(page[active].root, onDisk) = {}
      /\ X \subseteq PageIds
  <2>1. X \subseteq 3 .. sb.nextPage - 1 /\ sb.nextPage \in Nat /\ sb.nextPage <= MaxPages + 1
    BY <1>2 DEF RolesFit, FreeOK
  <2>2. X \subseteq PageIds
    BY <2>1 DEF PageIds, ShadowPagingAssumption
  <2> QED
    BY <1>2, <2>2, RolesPages
<1>5. /\ page' = [id \in PageIds |-> page'[id]] /\ page'[tree.root] = Leaf(tree.slots)
      /\ \A i \in PageIds \ {tree.root} : page'[i] = page[i]
  BY <1>1, <1>3, <1>4 DEF FileFits
<1>6. \A i \in PagesOf(page[active].root, onDisk) : page'[i] = page[i]
  <2>1. PagesOf(page[active].root, onDisk) \subseteq PageIds
    BY <1>2, ActiveIs
  <2>2. tree.root \in PagesOf(page[active].root, onDisk) => page'[tree.root] = page[tree.root]
    BY <1>3, <1>4, <1>5 DEF CommitFits
  <2> QED
    BY <1>5, <2>1, <2>2
<1>7. active \in {0, 1} /\ page'[active] = page[active] /\ page'[1 - active] = page[1 - active]
  BY <1>2, <1>4, <1>5, ActiveIs
<1>12. treeUsed' \in [TreeBounds -> Nat] /\ treeUsed'.writes <= MaxTreeWrites
       /\ treeUsed'.crashes = treeUsed.crashes
  <2>1. Uses("commits", MaxTreeCommits) /\ MaxTreeCommits \in Nat
    BY DEF CommitPages, ShadowPagingAssumption
  <2> QED
    BY <1>3, <2>1, UsesOne DEF TypesFit, TreeBounds
<1>8. RolesFit(X, chains, onDisk)'
  <2>1. sb' = Superblock(sb'.generation, tree.root, sb.nextPage, sb.head, sb.free)
    BY <1>1, <1>2 DEF RolesFit
  <2>2. \A i \in X : page'[i] = page[i]
    BY <1>4, <1>5
  <2>3. \A k \in TreeKeys : \A i \in Among(chains[k]) : page'[i] = page[i]
    BY <1>4, <1>5
  <2>4. page'[active'].root = page[active].root
    BY <1>1, <1>7
  <2>5. tree' = tree /\ epoch' = epoch /\ recycle' = recycle
    BY <1>1
  <2> QED
    BY <1>2, <1>12, <2>1, <2>2, <2>3, <2>4, <2>5, RolesKept
<1>9. ActiveFits(onDisk)'
  <2>1. PICK f, g, a, s : f = page /\ g = page' /\ a = active /\ s = page[active]
    OBVIOUS
  <2>2. /\ DurableIs(f, s, onDisk) /\ s.nextPage <= sb.nextPage /\ s = synced[a]
        /\ Older(synced[1 - a], s) /\ \A id \in PagesOf(s.root, onDisk) : f[id] = synced[id]
        /\ kept = MapOf(f[s.root].slots) /\ sb.generation = s.generation + 0
        /\ f[1 - a] = synced[1 - a] /\ a \in {0, 1}
    BY <1>1, <1>2, <2>1 DEF ActiveFits
  <2>3. Agree(f, g, PagesOf(s.root, onDisk))
    BY <1>6, <2>1 DEF Agree
  <2>4. DurableIs(g, s, onDisk) /\ g[s.root] = f[s.root]
    <3>1. DurableIs(f, s, onDisk)
      BY <2>2
    <3> QED
      BY <2>3, <3>1, DurableFrame
  <2>5. g[a] = s /\ g[1 - a] = synced[1 - a]
    BY <1>7, <2>1, <2>2
  <2>6. active' = a /\ page' = g /\ synced' = synced /\ sb' = sb /\ kept' = kept /\ treeAt' = "sync"
    BY <1>1, <2>1
  <2> QED
    BY <2>2, <2>3, <2>4, <2>5, <2>6 DEF ActiveFits, Agree
<1>10. CommitFits'
  BY <1>1, <1>3, <1>5, <1>7 DEF CommitFits
<1>11. FileFits'
  BY <1>1, <1>3, <1>5 DEF FileFits, Working
<1>13. TypesFit'
  <2>1. TypedPages(page')
    <3>1. Leaf(tree.slots).type \in PageTypes
      BY DEF Leaf, PageTypes
    <3> QED
      BY <1>3, <1>5, <3>1 DEF TypesFit, TypedPages
  <2> QED
    BY <1>1, <1>3, <1>12, <2>1 DEF TypesFit, Working
<1> QED
  BY <1>1, <1>8, <1>9, <1>10, <1>11, <1>13 DEF ShadowInv, Working

LEMMA CommitSyncKeeps ==
    ASSUME ShadowPagingAssumption, ShadowInv, CommitSync
    PROVE  ShadowInv'
<1>1. /\ treeAt = "sync" /\ treeAt' = "superblock" /\ synced' = page
      /\ UNCHANGED <<page, tree, sb, active, epoch, recycle, kept, saving, treeUsed>>
  BY DEF CommitSync, memoryVars
<1>2. PICK X, chains, onDisk : RolesFit(X, chains, onDisk) /\ ActiveFits(onDisk)
  BY <1>1 DEF ShadowInv, Working
<1>3. FileFits /\ CommitFits /\ TypesFit
  BY <1>1 DEF ShadowInv, Working
<1>4. RolesFit(X, chains, onDisk)'
  <2>1. sb' = Superblock(sb'.generation, tree.root, sb.nextPage, sb.head, sb.free)
    BY <1>1, <1>2 DEF RolesFit
  <2> QED
    BY <1>1, <1>2, <2>1, RolesKept
<1>5. ActiveFits(onDisk)'
  BY <1>1, <1>2 DEF ActiveFits
<1>6. CommitFits' /\ FileFits'
  BY <1>1, <1>3 DEF CommitFits, FileFits, Working
<1>7. TypesFit'
  BY <1>1, <1>3 DEF TypesFit, Working
<1> QED
  BY <1>1, <1>4, <1>5, <1>6, <1>7 DEF ShadowInv, Working

LEMMA CommitSuperblockKeeps ==
    ASSUME ShadowPagingAssumption, ShadowInv, CommitSuperblock
    PROVE  ShadowInv'
<1>1. /\ treeAt = "superblock" /\ treeAt' = "drain" /\ sb' = [sb EXCEPT !.generation = @ + 1]
      /\ page' = [page EXCEPT ![1 - active] = sb']
      /\ UNCHANGED <<synced, tree, active, epoch, recycle, kept, saving, treeUsed>>
  BY DEF CommitSuperblock
<1>2. PICK X, chains, onDisk : RolesFit(X, chains, onDisk) /\ ActiveFits(onDisk)
  BY <1>1 DEF ShadowInv, Working
<1>3. FileFits /\ CommitFits /\ TypesFit
  BY <1>1 DEF ShadowInv, Working
<1>4. /\ sb = Superblock(sb.generation, tree.root, sb.nextPage, sb.head, sb.free)
      /\ sb.root = tree.root /\ IsSuperblock(sb)
  BY <1>2 DEF RolesFit, Superblock, IsSuperblock
<1>5. sb' = Superblock(sb.generation + 1, tree.root, sb.nextPage, sb.head, sb.free)
  <2>1. PICK n, s : n = sb.generation + 1 /\ s = sb
    OBVIOUS
  <2>2. [s EXCEPT !.generation = n] = Superblock(n, s.root, s.nextPage, s.head, s.free)
    BY <1>4, <2>1, SuperblockEdits
  <2> QED
    BY <1>1, <1>4, <2>1, <2>2
<1>6. sb'.generation = sb.generation + 1 /\ sb'.nextPage = sb.nextPage
  BY <1>5 DEF Superblock
<1>7. /\ active \in {0, 1} /\ 1 - active \in {0, 1} /\ 1 - active # active
      /\ {active, 1 - active} \subseteq PageIds
      /\ PagesOf(page[active].root, onDisk) \subseteq PageIds \ {active, 1 - active}
  BY <1>2, ActiveIs
<1>8. /\ page' = [id \in PageIds |-> page'[id]] /\ page'[1 - active] = sb'
      /\ \A i \in PageIds \ {1 - active} : page'[i] = page[i]
  BY <1>1, <1>3, <1>7 DEF FileFits
<1>9. /\ PagesOf(tree.root, chains) \subseteq PageIds \ {0, 1}
      /\ tree.root \in PagesOf(tree.root, chains)
      /\ \A k \in TreeKeys : Among(chains[k]) \subseteq PagesOf(tree.root, chains)
      /\ X \intersect {0, 1} = {} /\ X \subseteq PageIds
  <2>1. X \subseteq 3 .. sb.nextPage - 1 /\ sb.nextPage \in Nat /\ sb.nextPage <= MaxPages + 1
    BY <1>2 DEF RolesFit, FreeOK
  <2>2. X \subseteq PageIds
    BY <2>1 DEF PageIds, ShadowPagingAssumption
  <2> QED
    BY <1>2, <2>2, RolesPages
<1>10. RolesFit(X, chains, onDisk)'
  <2>1. sb' = Superblock(sb'.generation, tree.root, sb.nextPage, sb.head, sb.free)
    BY <1>5, <1>6
  <2>2. \A i \in X : page'[i] = page[i]
    BY <1>7, <1>8, <1>9
  <2>3. \A k \in TreeKeys : \A i \in Among(chains[k]) : page'[i] = page[i]
    BY <1>7, <1>8, <1>9
  <2>4. page'[active'].root = page[active].root
    BY <1>1, <1>7, <1>8
  <2>5. tree' = tree /\ epoch' = epoch /\ recycle' = recycle /\ treeUsed' = treeUsed
    BY <1>1
  <2> QED
    BY <1>2, <2>1, <2>2, <2>3, <2>4, <2>5, RolesKept
<1>11. ActiveFits(onDisk)'
  <2>1. PICK f, g, a, s : f = page /\ g = page' /\ a = active /\ s = page[active]
    OBVIOUS
  <2>2. /\ DurableIs(f, s, onDisk) /\ s.nextPage <= sb.nextPage /\ s = synced[a]
        /\ Older(synced[1 - a], s) /\ \A id \in PagesOf(s.root, onDisk) : f[id] = synced[id]
        /\ kept = MapOf(f[s.root].slots) /\ sb.generation = s.generation + 0
        /\ a \in {0, 1}
    BY <1>1, <1>2, <2>1 DEF ActiveFits
  <2>3. Agree(f, g, PagesOf(s.root, onDisk))
    BY <1>7, <1>8, <2>1 DEF Agree
  <2>4. DurableIs(g, s, onDisk) /\ g[s.root] = f[s.root]
    <3>1. DurableIs(f, s, onDisk)
      BY <2>2
    <3> QED
      BY <2>3, <3>1, DurableFrame
  <2>5. g[a] = s /\ g[1 - a] = sb'
    BY <1>7, <1>8, <2>1
  <2>6. active' = a /\ page' = g /\ synced' = synced /\ kept' = kept /\ treeAt' = "drain"
    BY <1>1, <2>1
  <2>7. sb'.generation = s.generation + 1 /\ s.nextPage <= sb'.nextPage
    BY <1>6, <2>2 DEF DurableIs
  <2> QED
    BY <2>2, <2>3, <2>4, <2>5, <2>6, <2>7 DEF ActiveFits, Agree
<1>12. CommitFits'
  BY <1>1, <1>3, <1>7, <1>8, <1>9 DEF CommitFits
<1>13. FileFits'
  BY <1>1, <1>3, <1>8 DEF FileFits, Working
<1>14. TypesFit'
  <2>1. TypedPages(page')
    <3>1. sb'.type \in PageTypes
      BY <1>5 DEF Superblock, PageTypes
    <3> QED
      BY <1>3, <1>8, <3>1 DEF TypesFit, TypedPages
  <2> QED
    BY <1>1, <1>3, <2>1 DEF TypesFit, Working
<1> QED
  BY <1>1, <1>10, <1>11, <1>12, <1>13, <1>14 DEF ShadowInv, Working


LEMMA CommitDrainKeeps ==
    ASSUME ShadowPagingAssumption, ShadowInv, CommitDrain
    PROVE  ShadowInv'
<1>1. PICK p, done : p = Pool /\ done = Drained(p, recycle)
  OBVIOUS
<1>2. /\ treeAt = "drain" /\ treeAt' = "open" /\ synced' = page /\ page' = done.file
      /\ sb' = done.sb /\ active' = 1 - active /\ recycle' = << >> /\ epoch' = {} /\ kept' = saving
      /\ UNCHANGED <<tree, saving, treeUsed>>
  BY <1>1 DEF CommitDrain
<1>3. PICK X, chains, onDisk : RolesFit(X, chains, onDisk) /\ ActiveFits(onDisk)
  BY <1>2 DEF ShadowInv, Working
<1>4. FileFits /\ CommitFits /\ TypesFit
  BY <1>2 DEF ShadowInv, Working
<1>5. PICK root, slots, next, a, b, s, waits, reached :
        /\ root = tree.root /\ slots = tree.slots /\ next = sb.nextPage /\ a = active /\ b = 1 - active
        /\ s = page[active] /\ waits = Among(recycle) /\ reached = PagesOf(tree.root, chains)
  OBVIOUS
<1>6. /\ PoolFits(p, X) /\ p.sb = sb /\ p.file = page /\ p.epoch = epoch /\ p.recycle = recycle
      /\ TreeIs(page, slots, root, next, chains) /\ next \in Nat /\ next <= MaxPages + 1
      /\ sb.root = root
  BY <1>1, <1>3, <1>4, <1>5, PoolIs
<1>7. Apart(p, X, root, chains, PagesOf(s.root, onDisk))
  BY <1>1, <1>3, <1>5 DEF RolesFit
<1>8. /\ Listed(recycle, next) /\ waits \intersect reached = {}
      /\ \A id \in PageIds : FreeIn(p, X, id) => id \notin waits /\ id \notin reached
  BY <1>5, <1>6, <1>7 DEF Apart
<1>9. /\ a \in {0, 1} /\ b \in {0, 1} /\ a # b /\ 1 - b = a /\ {a, b} \subseteq PageIds
      /\ {0, 1} = {a, b}
  BY <1>3, <1>5, ActiveIs
<1>10. /\ Len(recycle) \in Nat /\ DOMAIN recycle = 1 .. Len(recycle) /\ waits \subseteq 3 .. next - 1
       /\ \A i, j \in 1 .. Len(recycle) : recycle[i] = recycle[j] => i = j
  BY <1>5, <1>8, ListedAmong
<1>11. 3 .. next - 1 \subseteq PageIds \ {0, 1}
  BY <1>6 DEF PageIds, ShadowPagingAssumption
<1>12. PICK Y : GivesAway(p, X, done, Y, waits)
  <2>1. ASSUME NEW i \in Among(recycle) PROVE i \in 3 .. p.sb.nextPage - 1 /\ ~ FreeIn(p, X, i)
    BY <1>5, <1>6, <1>8, <1>10, <1>11
  <2>2. p.sb.nextPage <= MaxPages + 1
    BY <1>5, <1>6
  <2>3. \E Y : GivesAway(p, X, Drained(p, recycle), Y, Among(recycle))
    BY <1>6, <1>10, <2>1, <2>2, AddsAll
  <2> QED
    BY <1>1, <1>5, <2>3
<1>13. /\ PoolFits(done, Y) /\ done.sb.root = root /\ done.sb.generation = sb.generation
       /\ done.sb.nextPage = next
       /\ \A i \in PageIds \ waits : done.file[i] = page[i]
       /\ \A i : FreeIn(done, Y, i) <=> i \in waits \/ FreeIn(p, X, i)
       /\ OnlyFrees(page, done.file)
  BY <1>5, <1>6, <1>12 DEF GivesAway, SameTree
<1>14. /\ reached \subseteq PageIds \ {0, 1} /\ root \in reached
       /\ \A k \in TreeKeys : Among(chains[k]) \subseteq reached
  BY <1>3, <1>5, RolesPages
<1>15. /\ \A i \in reached : page'[i] = page[i]
       /\ page'[a] = page[a] /\ page'[b] = page[b]
  BY <1>2, <1>8, <1>9, <1>10, <1>11, <1>13, <1>14
<1>16. TreeIs(page', slots, root, next, chains)
  <2>1. PICK f, g : f = page /\ g = page'
    OBVIOUS
  <2>2. \A k \in TreeKeys : \A i \in Among(chains[k]) : g[i] = f[i]
    BY <1>14, <1>15, <2>1
  <2>3. TreeIs(g, slots, root, next, chains)
    BY <1>6, <2>1, <2>2, TreeFrame
  <2> QED
    BY <2>1, <2>3
<1>17. /\ page[b] = sb /\ sb.generation = s.generation + 1 /\ s.generation \in Nat
       /\ sb = Superblock(sb.generation, sb.root, sb.nextPage, sb.head, sb.free)
       /\ next >= 3 /\ Listed(sb.free, next)
       /\ page[root] = Leaf(slots) /\ saving = MapOf(slots)
       /\ Valid(s)
  <2>1. page[b] = sb /\ sb.generation = s.generation + 1
    BY <1>2, <1>3, <1>5 DEF ActiveFits
  <2>2. s.generation \in Nat /\ Valid(s)
    BY <1>3, <1>5, ActiveIs DEF DurableIs, Valid, Superblock
  <2>3. /\ sb = Superblock(sb.generation, sb.root, sb.nextPage, sb.head, sb.free)
        /\ next >= 3 /\ Listed(sb.free, next)
    BY <1>3, <1>5, <1>6 DEF RolesFit, FreeOK
  <2>4. page[root] = Leaf(slots) /\ saving = MapOf(slots)
    BY <1>2, <1>4, <1>5 DEF CommitFits
  <2> QED
    BY <2>1, <2>2, <2>3, <2>4
<1>18. page'[root] = Leaf(slots) /\ Leaf(slots).slots = slots
  BY <1>14, <1>15, <1>17 DEF Leaf
<1>19. DurableIs(page', sb, chains)
  <2>1. Among(sb.free) \intersect reached = {}
    <3>1. \A id \in Among(sb.free) : FreeIn(p, X, id)
      BY <1>6 DEF FreeIn, MayBeTaken
    <3> QED
      BY <1>8, <1>14, <3>1
  <2>2. next \in 3 .. MaxPages + 1 /\ sb.generation \in Nat
    BY <1>6, <1>17 DEF ShadowPagingAssumption
  <2>3. PICK t, g : t = sb /\ g = page'
    OBVIOUS
  <2>4. /\ t = Superblock(t.generation, t.root, t.nextPage, t.head, t.free)
        /\ t.generation \in Nat /\ t.nextPage \in 3 .. MaxPages + 1 /\ t.root = root /\ t.nextPage = next
        /\ g[root] = Leaf(slots) /\ g[root].slots = slots
        /\ TreeIs(g, slots, root, next, chains) /\ Listed(t.free, next)
        /\ Among(t.free) \intersect PagesOf(root, chains) = {}
    BY <1>5, <1>6, <1>16, <1>17, <1>18, <2>1, <2>2, <2>3
  <2>5. DurableIs(g, t, chains)
    BY <2>4 DEF DurableIs
  <2> QED
    BY <2>3, <2>5
<1>20. page'[b] = sb /\ page'[b].root = root /\ page'[active'] = sb
  BY <1>2, <1>5, <1>6, <1>15, <1>17
<1>21. RolesFit(Y, chains, chains)'
  <2>1. IsSuperblock(done.sb) /\ FreeOK(done.file, done.sb, Y)
    BY <1>13 DEF PoolFits, IsPool
  <2>2. sb' = Superblock(sb'.generation, root, sb'.nextPage, sb'.head, sb'.free)
    BY <1>2, <1>13, <2>1 DEF IsSuperblock
  <2>3. PICK q : q = Pool'
    OBVIOUS
  <2>4. q.sb = done.sb /\ q.file = done.file /\ q.epoch = {} /\ q.recycle = << >>
    BY <1>2, <2>3 DEF Pool
  <2>5. Apart(q, Y, root, chains, reached)
    <3>1. Listed(<< >>, next) /\ Among(<< >>) = {}
      BY <1>6, EmptyListed
    <3>2. ASSUME NEW id \in PageIds, FreeIn(q, Y, id) PROVE id \notin reached
      <4>1. FreeIn(done, Y, id)
        BY <2>4, <3>2 DEF FreeIn
      <4>2. id \in waits \/ FreeIn(p, X, id)
        BY <1>13, <4>1
      <4> QED
        BY <1>8, <4>2
    <3>3. PagesOf(root, chains) = reached
      BY <1>5
    <3> QED
      BY <1>13, <2>4, <3>1, <3>2, <3>3 DEF Apart
  <2>6. sb'.nextPage = next /\ tree' = tree
    BY <1>2, <1>13
  <2>7. tree' = [root |-> tree'.root, slots |-> tree'.slots]
    BY <1>3, <2>6 DEF RolesFit
  <2>8. FreeOK(page', sb', Y)
    BY <1>2, <2>1
  <2>9. treeUsed'.crashes = 0 => Whole(q, Y, root, chains)
    <3>1. treeUsed'.crashes = 0 => Whole(p, X, root, chains)
      BY <1>1, <1>2, <1>3, <1>5 DEF RolesFit
    <3>2. ASSUME Whole(p, X, root, chains), NEW i \in Nat, i >= 3
          PROVE  FreeIn(q, Y, i) \/ i \in PagesOf(root, chains)
      <4>1. FreeIn(done, Y, i) \/ i \in PagesOf(root, chains)
        BY <1>5, <1>6, <1>13, <3>2 DEF Whole
      <4> QED
        BY <2>4, <4>1 DEF FreeIn
    <3> QED
      BY <3>1, <3>2 DEF Whole
  <2> QED
    BY <1>5, <1>6, <1>16, <1>20, <2>2, <2>3, <2>5, <2>6, <2>7, <2>8, <2>9 DEF RolesFit
<1>22. ActiveFits(chains)'
  <2>1. PICK g, f, t : g = page' /\ f = page /\ t = sb
    OBVIOUS
  <2>2. /\ active' = b /\ page' = g /\ g[b] = t /\ synced' = f /\ treeAt' = "open"
        /\ kept' = MapOf(slots) /\ g[a] = f[a] /\ f[a] = s /\ f[b] = t /\ 1 - b = a
    BY <1>2, <1>5, <1>9, <1>15, <1>17, <1>20, <2>1
  <2>3. DurableIs(g, t, chains) /\ b \in {0, 1} /\ t.root = root
    BY <1>6, <1>9, <1>19, <2>1
  <2>4. t.nextPage <= sb'.nextPage /\ sb'.generation = t.generation + 0
    BY <1>2, <1>5, <1>6, <1>13, <1>17, <2>1
  <2>5. Older(s, t)
    BY <1>17, <2>1 DEF Older
  <2>6. \A id \in PagesOf(t.root, chains) : g[id] = f[id]
    BY <1>5, <1>15, <2>1, <2>3
  <2>7. kept' = MapOf(g[t.root].slots)
    BY <1>18, <2>1, <2>2, <2>3
  <2> QED
    BY <2>2, <2>3, <2>4, <2>5, <2>6, <2>7 DEF ActiveFits
<1>23. CommitFits'
  BY <1>2, <1>5, <1>18, <1>20 DEF CommitFits
<1>24. FileFits'
  <2>1. page' = [id \in PageIds |-> page'[id]]
    BY <1>2, <1>13 DEF PoolFits, IsPool
  <2> QED
    BY <1>2, <1>4, <2>1 DEF FileFits, Working
<1>25. TypesFit'
  <2>1. TypedPages(page')
    BY <1>2, <1>4, <1>13 DEF TypesFit, TypedPages, OnlyFrees, PageTypes
  <2> QED
    BY <1>2, <1>4, <2>1 DEF TypesFit, Working
<1> QED
  BY <1>2, <1>21, <1>22, <1>23, <1>24, <1>25 DEF ShadowInv, Working

-----------------------------------------------------------------------------
(* Crashes, and open *)

\* What open finds in the superblocks first and second, when the crash leaves
\* these: the one of the page chosen, whose tree is on the disk.
Left(first, second, chosen, onDisk) ==
    LET found == IF chosen = 0 THEN first ELSE second
        other == IF chosen = 0 THEN second ELSE first
    IN /\ found = page[chosen] /\ DurableIs(page, found, onDisk) /\ Older(other, found)
       /\ \A id \in PagesOf(found.root, onDisk) : page[id] = synced[id]
       /\ MapOf(page[found.root].slots) \in {kept, saving}

LEMMA ChosenIs ==
    ASSUME NEW first, NEW second, NEW chosen \in {0, 1}, NEW found, NEW other,
           found = (IF chosen = 0 THEN first ELSE second),
           other = (IF chosen = 0 THEN second ELSE first),
           Valid(found), found.generation \in Nat, Older(other, found)
    PROVE  ActiveOf(first, second) = chosen
<1>1. Valid(other) => other.generation \in Nat /\ other.generation < found.generation
  BY DEF Older
<1>2. CASE chosen = 0
  BY <1>1, <1>2 DEF ActiveOf
<1>3. CASE chosen = 1
  BY <1>1, <1>3 DEF ActiveOf
<1> QED
  BY <1>2, <1>3

LEMMA DurableValid ==
    ASSUME NEW file, NEW s, NEW chains, DurableIs(file, s, chains)
    PROVE  Valid(s) /\ s.generation \in Nat
BY DEF DurableIs, Valid, Superblock

\* The invariant, about any crash.
LEMMA CrashLeaves ==
    ASSUME ShadowPagingAssumption, ShadowInv, NEW first \in LeftOf(0), NEW second \in LeftOf(1)
    PROVE  \E chosen \in {0, 1} : \E onDisk : Left(first, second, chosen, onDisk)
<1> DEFINE left(i) == IF i = 0 THEN first ELSE second
<1>1. CASE treeAt \in Working
  <2>1. PICK X, chains, onDisk : RolesFit(X, chains, onDisk) /\ ActiveFits(onDisk)
    BY <1>1 DEF ShadowInv
  <2>2. CommitFits
    BY <1>1 DEF ShadowInv
  <2>3. PICK a, b, s : a = active /\ b = 1 - active /\ s = page[active]
    OBVIOUS
  <2>4. /\ a \in {0, 1} /\ b \in {0, 1} /\ a # b /\ {a, b} \subseteq PageIds
        /\ DurableIs(page, s, onDisk) /\ s.generation \in Nat
    BY <2>1, <2>3, ActiveIs
  <2>5. /\ page[a] = s /\ synced[a] = s /\ Older(synced[b], s)
        /\ \A id \in PagesOf(s.root, onDisk) : page[id] = synced[id]
        /\ kept = MapOf(page[s.root].slots)
        /\ treeAt = "drain" => page[b] = sb /\ sb.generation = s.generation + 1
        /\ treeAt # "drain" => page[b] = synced[b]
    BY <2>1, <2>3 DEF ActiveFits
  <2>6. left(a) = s /\ left(b) \in {page[b], synced[b], TornPage}
    BY <2>4, <2>5 DEF LeftOf
  <2>7. CASE Older(left(b), s)
    <3>1. Left(first, second, a, onDisk)
      BY <2>4, <2>5, <2>6, <2>7 DEF Left
    <3> QED
      BY <2>4, <3>1
  <2>8. CASE ~ Older(left(b), s)
    <3>1. ~ Valid(TornPage)
      BY DEF Valid, TornPage
    <3>2. left(b) # TornPage /\ left(b) # synced[b]
      BY <2>5, <2>8, <3>1 DEF Older
    <3>3. /\ left(b) = page[b] /\ treeAt = "drain" /\ page[b] = sb
          /\ sb.generation = s.generation + 1
      BY <2>5, <2>6, <3>2
    <3>4. PICK root, slots, next : root = tree.root /\ slots = tree.slots /\ next = sb.nextPage
      OBVIOUS
    <3>5. /\ page[root] = Leaf(slots) /\ saving = MapOf(slots)
          /\ \A id \in PageIds \ {b} : page[id] = synced[id]
      BY <2>2, <2>3, <3>3, <3>4 DEF CommitFits
    <3>6. /\ sb = Superblock(sb.generation, sb.root, sb.nextPage, sb.head, sb.free)
          /\ sb.root = root /\ next \in Nat /\ next >= 3 /\ next <= MaxPages + 1
          /\ Listed(sb.free, next) /\ TreeIs(page, slots, root, next, chains)
      <4>1. sb.root = tree.root
        BY <2>1 DEF RolesFit, Superblock
      <4> QED
        BY <2>1, <3>4, <4>1 DEF RolesFit, FreeOK
    <3>7. Among(sb.free) \intersect PagesOf(root, chains) = {}
      <4>1. \A id \in Among(sb.free) : FreeIn(Pool, X, id)
        BY DEF FreeIn, MayBeTaken, Pool
      <4>2. \A id \in PageIds : FreeIn(Pool, X, id) => id \notin PagesOf(root, chains)
        BY <2>1, <3>4 DEF RolesFit, Apart
      <4>3. PagesOf(root, chains) \subseteq PageIds
        BY <2>1, <3>4, RolesPages
      <4> QED
        BY <4>1, <4>2, <4>3
    <3>8. next \in 3 .. MaxPages + 1 /\ sb.generation \in Nat /\ Leaf(slots).slots = slots
      BY <2>4, <3>3, <3>6 DEF ShadowPagingAssumption, Leaf
    <3>9. DurableIs(page, sb, chains)
      <4>1. PICK t, g : t = sb /\ g = page
        OBVIOUS
      <4>2. /\ t = Superblock(t.generation, t.root, t.nextPage, t.head, t.free)
            /\ t.generation \in Nat /\ t.nextPage \in 3 .. MaxPages + 1 /\ t.root = root /\ t.nextPage = next
            /\ g[root] = Leaf(slots) /\ g[root].slots = slots
            /\ TreeIs(g, slots, root, next, chains) /\ Listed(t.free, next)
            /\ Among(t.free) \intersect PagesOf(root, chains) = {}
        BY <3>4, <3>5, <3>6, <3>7, <3>8, <4>1
      <4>3. DurableIs(g, t, chains)
        BY <4>2 DEF DurableIs
      <4> QED
        BY <4>1, <4>3
    <3>10. Older(s, sb)
      BY <2>4, <3>3 DEF Older
    <3>11. \A id \in PagesOf(sb.root, chains) : page[id] = synced[id]
      <4>1. PagesOf(root, chains) \subseteq PageIds \ {0, 1}
        BY <2>1, <3>4, RolesPages
      <4> QED
        BY <2>4, <3>5, <3>6, <4>1
    <3>12. MapOf(page[sb.root].slots) = saving
      BY <3>5, <3>6, <3>8
    <3>13. left(b) = sb
      BY <3>3
    <3>14. Left(first, second, b, chains)
      BY <2>4, <2>6, <3>3, <3>9, <3>10, <3>11, <3>12, <3>13 DEF Left
    <3> QED
      BY <2>4, <3>14
  <2> QED
    BY <2>7, <2>8
<1>2. CASE treeAt \notin Working
  <2>1. PICK chosen, onDisk : chosen \in {0, 1} /\ Durable(chosen, onDisk)
    BY <1>2 DEF ShadowInv
  <2>2. page = synced
    BY <2>1 DEF Durable
  <2>3. first = page[0] /\ second = page[1]
    BY <2>2 DEF LeftOf
  <2>4. Left(first, second, chosen, onDisk)
    BY <2>1, <2>2, <2>3 DEF Left, Durable
  <2> QED
    BY <2>1, <2>4
<1> QED
  BY <1>1, <1>2


LEMMA TreeCrashKeeps ==
    ASSUME ShadowPagingAssumption, ShadowInv, TreeCrash
    PROVE  ShadowInv'
<1>1. PICK first \in LeftOf(0), second \in LeftOf(1), fate \in {"new", "old", "torn"} :
        page' = [id \in PageIds |->
                    CASE id = 0 -> first
                      [] id = 1 -> second
                      [] OTHER -> IF id \notin Unsynced \/ fate = "new" THEN page[id]
                                  ELSE IF fate = "old" THEN synced[id] ELSE TornPage]
  BY Zenon DEF TreeCrash
<1>2. /\ synced' = page' /\ treeAt' = "closed" /\ epoch' = {} /\ recycle' = << >>
      /\ UNCHANGED <<kept, saving>>
  BY DEF TreeCrash
<1>3. PICK chosen, onDisk : chosen \in {0, 1} /\ Left(first, second, chosen, onDisk)
  BY <1>1, CrashLeaves
<1>4. PICK f, found, other :
        /\ f = page /\ found = (IF chosen = 0 THEN first ELSE second)
        /\ other = (IF chosen = 0 THEN second ELSE first)
  OBVIOUS
<1>5. /\ DurableIs(f, found, onDisk) /\ Older(other, found)
      /\ \A id \in PagesOf(found.root, onDisk) : f[id] = synced[id]
      /\ MapOf(f[found.root].slots) \in {kept, saving}
  BY <1>3, <1>4 DEF Left
<1>6. PagesOf(found.root, onDisk) \subseteq PageIds \ {0, 1} /\ 0 \in PageIds /\ 1 \in PageIds
      /\ found.root \in PagesOf(found.root, onDisk)
  BY <1>5, DurablePages, ActiveIds DEF PagesOf
<1>7. /\ page'[0] = first /\ page'[1] = second
      /\ \A id \in PageIds \ {0, 1} : id \notin Unsynced => page'[id] = page[id]
  BY <1>1, <1>6
<1>8. page'[chosen] = found /\ page'[1 - chosen] = other
  <2>1. 1 - 0 = 1 /\ 1 - 1 = 0
    OBVIOUS
  <2> QED
    BY <1>3, <1>4, <1>7, <2>1
<1>9. PICK g : g = page'
  OBVIOUS
<1>10. Agree(f, g, PagesOf(found.root, onDisk))
  BY <1>4, <1>5, <1>6, <1>7, <1>9 DEF Agree, Unsynced
<1>11. DurableIs(g, found, onDisk) /\ g[found.root] = f[found.root]
  BY <1>5, <1>10, DurableFrame
<1>12. Durable(chosen, onDisk)'
  BY <1>2, <1>5, <1>8, <1>9, <1>11 DEF Durable
<1>13. treeAt' \notin Working
  BY <1>2 DEF Working
<1>14. FileFits'
  <2>1. page' = [id \in PageIds |-> page'[id]]
    BY <1>1
  <2> QED
    BY <1>2, <2>1 DEF FileFits
<1>15. TypesFit'
  <2>1. TypesFit
    BY DEF ShadowInv
  <2>2. Uses("crashes", MaxTreeCrashes) /\ MaxTreeCrashes \in Nat
    BY DEF TreeCrash, ShadowPagingAssumption
  <2>3. /\ treeUsed' \in [TreeBounds -> Nat] /\ treeUsed'.writes <= MaxTreeWrites
        /\ treeUsed'.crashes = treeUsed.crashes + 1
    BY <2>1, <2>2, UsesOne DEF TypesFit, TreeBounds
  <2>4. treeUsed'.crashes # 0
    BY <2>1, <2>3 DEF TypesFit, TreeBounds
  <2>5. TypedPages(page')
    <3>1. TornPage.type \in PageTypes
      BY DEF TornPage, PageTypes
    <3>2. first.type \in PageTypes /\ second.type \in PageTypes
      BY <1>6, <2>1, <3>1 DEF TypesFit, TypedPages, LeftOf
    <3>3. ASSUME NEW i \in PageIds PROVE page'[i].type \in PageTypes
      <4>1. page'[i] \in {first, second, page[i], synced[i], TornPage}
        BY <1>1
      <4> QED
        BY <2>1, <3>1, <3>2, <4>1 DEF TypesFit, TypedPages
    <3> QED
      BY <3>3 DEF TypedPages
  <2>6. active' = 0 /\ tree'.root = 0
    BY DEF TreeCrash
  <2> QED
    BY <1>2, <1>6, <2>3, <2>4, <2>5, <2>6 DEF TypesFit
<1> QED
  BY <1>3, <1>12, <1>13, <1>14, <1>15 DEF ShadowInv

LEMMA TreeOpenKeeps ==
    ASSUME ShadowPagingAssumption, ~ ReopensSpilled, ShadowInv, TreeOpen
    PROVE  ShadowInv'
<1>1. PICK chosen : chosen = ActiveOf(page[0], page[1])
  OBVIOUS
<1>2. /\ treeAt = "closed" /\ active' = chosen /\ sb' = page[chosen]
      /\ tree' = [root |-> sb'.root, slots |-> page[sb'.root].slots]
      /\ treeAt' = (IF sb'.head = 0 THEN "open" ELSE "read")
      /\ kept' = MapOf(tree'.slots) /\ saving' = kept'
      /\ UNCHANGED <<page, synced, epoch, recycle, treeUsed>>
  BY <1>1 DEF TreeOpen, fileVars
<1>3. treeAt \notin Working
  BY <1>2 DEF Working
<1>4. PICK last, onDisk : last \in {0, 1} /\ Durable(last, onDisk)
  BY <1>3 DEF ShadowInv
<1>5. PICK f, s, other : f = page /\ s = page[last] /\ other = page[1 - last]
  OBVIOUS
<1>6. /\ page = synced /\ epoch = {} /\ recycle = << >> /\ Older(other, s)
      /\ DurableIs(f, s, onDisk) /\ s.generation \in Nat /\ Valid(s)
  BY <1>4, <1>5, DurableValid DEF Durable
<1>7. chosen = last
  <2>1. s = (IF last = 0 THEN page[0] ELSE page[1]) /\ other = (IF last = 0 THEN page[1] ELSE page[0])
    BY <1>4, <1>5
  <2>2. ActiveOf(page[0], page[1]) = last
    BY <1>4, <1>6, <2>1, ChosenIs
  <2> QED
    BY <1>1, <2>2
<1>8. PICK root, slots, next : root = s.root /\ slots = f[s.root].slots /\ next = s.nextPage
  OBVIOUS
<1>9. /\ s = Superblock(s.generation, root, next, s.head, s.free)
      /\ next \in Nat /\ next >= 3 /\ next <= MaxPages + 1
      /\ f[root] = Leaf(slots) /\ TreeIs(f, slots, root, next, onDisk)
      /\ Listed(s.free, next) /\ Among(s.free) \intersect PagesOf(root, onDisk) = {}
  BY <1>6, <1>8 DEF DurableIs, ShadowPagingAssumption
<1>10. /\ active' = last /\ sb' = s /\ page' = f /\ synced' = f /\ epoch' = {} /\ recycle' = << >>
       /\ tree'.root = root /\ tree'.slots = slots /\ tree' = [root |-> tree'.root, slots |-> tree'.slots]
       /\ kept' = MapOf(slots) /\ saving' = kept'
  BY <1>2, <1>5, <1>6, <1>7, <1>8
<1>11. FileFits'
  <2>1. FileFits
    BY DEF ShadowInv
  <2>2. treeAt' \in {"open", "read"}
    BY <1>2
  <2> QED
    BY <1>2, <2>1, <2>2 DEF FileFits, Working
<1>14. treeUsed'.crashes # 0 /\ TypesFit'
  <2>1. TypesFit
    BY DEF ShadowInv
  <2>2. PagesOf(root, onDisk) \subseteq PageIds
    BY <1>6, <1>8, DurablePages
  <2>3. root \in PageIds
    BY <2>2 DEF PagesOf
  <2> QED
    BY <1>2, <1>3, <1>4, <1>10, <2>1, <2>3 DEF TypesFit
<1>12. CASE s.head # 0
  <2>1. treeAt' = "read" /\ treeAt' \notin Working
    BY <1>2, <1>10, <1>12 DEF Working
  <2>2. Durable(last, onDisk)'
    BY <1>4, <1>5, <1>6, <1>8, <1>10 DEF Durable
  <2> QED
    BY <1>4, <1>11, <1>14, <2>1, <2>2 DEF ShadowInv
<1>13. CASE s.head = 0
  <2>1. treeAt' = "open"
    BY <1>2, <1>10, <1>13
  <2>2. FreeOK(f, s, {})
    <3>1. s.nextPage = next /\ s.head = 0
      BY <1>8, <1>13
    <3>2. Chained(f, s, {})
      BY <1>9, <3>1, EmptyChained
    <3> QED
      BY <1>9, <3>1, <3>2 DEF FreeOK
  <2>3. PICK q : q = Pool'
    OBVIOUS
  <2>4. q.sb = s /\ q.file = f /\ q.epoch = {} /\ q.recycle = << >>
    BY <1>10, <2>3 DEF Pool
  <2>5. Apart(q, {}, root, onDisk, PagesOf(root, onDisk))
    <3>1. Listed(<< >>, next) /\ Among(<< >>) = {}
      BY <1>9, EmptyListed
    <3>2. \A id \in PagesOf(root, onDisk) : id \in 2 .. next - 1
      BY <1>9, TreePages
    <3>3. ASSUME NEW id \in PageIds, FreeIn(q, {}, id) PROVE id \notin PagesOf(root, onDisk)
      <4>1. id \in Among(s.free) \/ (id \in Nat /\ id >= next)
        BY <1>8, <2>4, <3>3 DEF FreeIn, MayBeTaken
      <4>2. id >= next => id \notin 2 .. next - 1
        BY <1>9 DEF PageIds
      <4> QED
        BY <1>9, <3>2, <4>1, <4>2
    <3> QED
      BY <1>8, <2>4, <3>1, <3>3 DEF Apart
  <2>6. RolesFit({}, onDisk, onDisk)'
    <3>1. page'[active'].root = root
      BY <1>5, <1>8, <1>10
    <3> QED
      BY <1>8, <1>9, <1>10, <1>14, <2>2, <2>3, <2>5, <3>1 DEF RolesFit
  <2>7. ActiveFits(onDisk)'
    <3>1. f[last] = s /\ f[1 - last] = other
      BY <1>5
    <3>2. s.generation = s.generation + 0 /\ s.nextPage <= s.nextPage
      BY <1>6, <1>8, <1>9
    <3> QED
      BY <1>4, <1>6, <1>8, <1>10, <2>1, <3>1, <3>2 DEF ActiveFits
  <2>8. CommitFits'
    <3>1. f[last] = s
      BY <1>5
    <3> QED
      BY <1>8, <1>9, <1>10, <2>1, <3>1 DEF CommitFits
  <2> QED
    BY <1>11, <1>14, <2>1, <2>6, <2>7, <2>8 DEF ShadowInv, Working
<1> QED
  BY <1>12, <1>13

LEMMA ShadowInit_Inv ==
    ASSUME ShadowPagingAssumption, ShadowInit
    PROVE  ShadowInv
<1>1. PICK empty : empty = [k \in TreeKeys |-> NoSlot]
  OBVIOUS
<1>2. /\ sb = Superblock(1, 2, 3, 0, << >>) /\ synced = page
      /\ page = [i \in PageIds |-> CASE i = 0 -> sb [] i = 2 -> Leaf(empty) [] OTHER -> TornPage]
      /\ tree = [root |-> 2, slots |-> empty] /\ active = 0 /\ epoch = {} /\ recycle = << >>
      /\ treeAt = "open" /\ kept = MapOf(empty)
  BY <1>1 DEF ShadowInit
<1>3. /\ 0 \in PageIds /\ 1 \in PageIds /\ 2 \in PageIds /\ MaxPages \in Nat /\ MaxPages >= 3
      /\ MaxChain \in Nat
  BY DEF PageIds, ShadowPagingAssumption
<1>4. page[0] = sb /\ page[1] = TornPage /\ page[2] = Leaf(empty)
  BY <1>2, <1>3
<1>5. /\ sb.generation = 1 /\ sb.root = 2 /\ sb.nextPage = 3 /\ sb.head = 0 /\ sb.free = << >>
      /\ tree.root = 2 /\ tree.slots = empty /\ tree = [root |-> tree.root, slots |-> tree.slots]
      /\ page[2].slots = empty
  BY <1>2, <1>4 DEF Superblock, Leaf
<1>6. PICK chains : chains = [k \in TreeKeys |-> << >>]
  OBVIOUS
<1>7. \A n \in Nat : Listed(<< >>, n) /\ Among(<< >>) = {}
  BY EmptyListed
<1>8. PagesOf(2, chains) = {2} /\ \A k \in TreeKeys : Among(chains[k]) = {}
  BY <1>6, <1>7 DEF PagesOf
<1>9. TreeIs(page, empty, 2, 3, chains)
  <2>1. ASSUME NEW k \in TreeKeys PROVE ChainIs(page, empty[k], chains[k], 3)
    <3>1. empty[k] = NoSlot /\ chains[k] = << >>
      BY <1>1, <1>6
    <3>2. NoSlot = [val |-> NoSlot.val, first |-> NoSlot.first, len |-> NoSlot.len]
          /\ NoSlot.len = 0 /\ NoSlot.first = 0
      BY DEF NoSlot
    <3> QED
      BY <1>3, <1>7, <3>1, <3>2 DEF ChainIs
  <2> QED
    BY <1>1, <1>8, <2>1 DEF TreeIs
<1>10. FreeOK(page, sb, {})
  <2>1. Chained(page, sb, {})
    BY <1>5, EmptyChained
  <2> QED
    BY <1>5, <1>7, <2>1 DEF FreeOK
<1>11. Apart(Pool, {}, 2, chains, {2})
  <2>1. PICK p : p = Pool
    OBVIOUS
  <2>2. p.sb = sb /\ p.file = page /\ p.epoch = {} /\ p.recycle = << >>
    BY <1>2, <2>1 DEF Pool
  <2>3. \A id \in PageIds : FreeIn(p, {}, id) => id # 2
    BY <1>5, <1>7, <2>2 DEF FreeIn, MayBeTaken
  <2> QED
    BY <1>5, <1>7, <1>8, <2>1, <2>2, <2>3 DEF Apart
<1>12. RolesFit({}, chains, chains)
  <2>1. PICK p, f, s, tr, at : p = Pool /\ f = page /\ s = sb /\ tr = tree /\ at = page[active]
    OBVIOUS
  <2>2. at = s /\ at.root = 2 /\ PagesOf(at.root, chains) = {2}
    BY <1>2, <1>4, <1>5, <1>8, <2>1
  <2>3. /\ s = Superblock(s.generation, tr.root, s.nextPage, s.head, s.free)
        /\ tr = [root |-> tr.root, slots |-> tr.slots] /\ tr.root = 2 /\ tr.slots = empty
        /\ s.nextPage = 3
    BY <1>2, <1>5, <2>1
  <2>4. s.nextPage <= MaxPages + 1
    BY <1>3, <2>3
  <2>5. Apart(p, {}, tr.root, chains, PagesOf(at.root, chains))
    BY <1>11, <2>1, <2>2, <2>3
  <2>6. FreeOK(f, s, {}) /\ TreeIs(f, tr.slots, tr.root, s.nextPage, chains)
    BY <1>9, <1>10, <2>1, <2>3
  <2>7. Whole(p, {}, tr.root, chains)
    <3>1. p.sb.nextPage = 3
      BY <2>1, <2>3 DEF Pool
    <3> QED
      BY <3>1 DEF Whole, FreeIn, MayBeTaken
  <2> QED
    BY <2>1, <2>3, <2>4, <2>5, <2>6, <2>7 DEF RolesFit
<1>13. ActiveFits(chains)
  <2>1. DurableIs(page, sb, chains)
    BY <1>2, <1>3, <1>4, <1>5, <1>7, <1>8, <1>9 DEF DurableIs
  <2>2. Older(TornPage, sb)
    BY DEF Older, Valid, TornPage
  <2> QED
    BY <1>2, <1>4, <1>5, <1>8, <2>1, <2>2 DEF ActiveFits
<1>14. CommitFits /\ FileFits
  BY <1>2, <1>4, <1>5 DEF CommitFits, FileFits, Working
<1>15. TypesFit
  <2>1. treeUsed = [writes |-> 0, commits |-> 0, crashes |-> 0]
    BY DEF ShadowInit
  <2>2. treeUsed \in [TreeBounds -> Nat] /\ treeUsed.writes = 0
    BY <2>1 DEF TreeBounds
  <2>3. MaxTreeWrites \in Nat
    BY DEF ShadowPagingAssumption
  <2>4. TypedPages(page)
    <3>1. sb.type \in PageTypes /\ Leaf(empty).type \in PageTypes /\ TornPage.type \in PageTypes
      BY <1>2 DEF Superblock, Leaf, TornPage, PageTypes
    <3>2. \A i \in PageIds : page[i] \in {sb, Leaf(empty), TornPage}
      BY <1>2
    <3> QED
      BY <3>1, <3>2 DEF TypedPages
  <2> QED
    BY <1>2, <2>2, <2>3, <2>4 DEF TypesFit, Working
<1> QED
  BY <1>2, <1>12, <1>13, <1>14, <1>15 DEF ShadowInv, Working

LEMMA ShadowNext_Inv ==
    ASSUME ShadowPagingAssumption, ~ ReopensSpilled, ShadowInv, [ShadowNext]_shadowVars
    PROVE  ShadowInv'
<1>0. 0 \in 0 .. MaxChain
  BY DEF ShadowPagingAssumption
<1>1. CASE \E k \in TreeKeys, len \in 0 .. MaxChain : Upsert(k, len)
  BY <1>1, PushKeeps DEF Upsert
<1>2. CASE \E k \in TreeKeys : DeleteKey(k)
  BY <1>0, <1>2, PushKeeps DEF DeleteKey
<1>3. CASE CommitPages
  BY <1>3, CommitPagesKeeps
<1>4. CASE CommitSync
  BY <1>4, CommitSyncKeeps
<1>5. CASE CommitSuperblock
  BY <1>5, CommitSuperblockKeeps
<1>6. CASE CommitDrain
  BY <1>6, CommitDrainKeeps
<1>7. CASE TreeCrash
  BY <1>7, TreeCrashKeeps
<1>8. CASE TreeOpen
  BY <1>8, TreeOpenKeeps
<1>9. CASE UNCHANGED shadowVars
  <2>1. UNCHANGED <<page, synced, tree, sb, active, epoch, recycle, treeAt, kept, saving, treeUsed>>
    BY <1>9 DEF shadowVars, fileVars, memoryVars
  <2>2. FileFits' /\ TypesFit'
    BY <2>1 DEF ShadowInv, FileFits, TypesFit
  <2>3. CASE treeAt \in Working
    <3>1. PICK X, chains, onDisk : RolesFit(X, chains, onDisk) /\ ActiveFits(onDisk)
      BY <2>3 DEF ShadowInv
    <3>2. CommitFits' /\ RolesFit(X, chains, onDisk)' /\ ActiveFits(onDisk)'
      BY <2>1, <2>3, <3>1 DEF ShadowInv, CommitFits, RolesFit, ActiveFits, Pool
    <3> QED
      BY <2>1, <2>2, <2>3, <3>2 DEF ShadowInv
  <2>4. CASE treeAt \notin Working
    <3>1. PICK chosen, onDisk : chosen \in {0, 1} /\ Durable(chosen, onDisk)
      BY <2>4 DEF ShadowInv
    <3>2. Durable(chosen, onDisk)'
      BY <2>1, <3>1 DEF Durable
    <3> QED
      BY <2>1, <2>2, <2>4, <3>1, <3>2 DEF ShadowInv
  <2> QED
    BY <2>3, <2>4
<1> QED
  BY <1>1, <1>2, <1>3, <1>4, <1>5, <1>6, <1>7, <1>8, <1>9 DEF ShadowNext

LEMMA ShadowInv_Opens ==
    ASSUME ShadowPagingAssumption, ShadowInv
    PROVE  OpensCommitted
<1>1. SUFFICES ASSUME NEW first \in LeftOf(0), NEW second \in LeftOf(1),
                      NEW chosen, chosen = ActiveOf(first, second),
                      NEW found, found = (IF chosen = 0 THEN first ELSE second)
               PROVE  /\ chosen # -1 /\ TreeReadable(page, found.root)
                      /\ ({found.root} \union
                          UNION {ToSet(ChainOf(page, page[found.root].slots[k])) : k \in TreeKeys})
                             \intersect Unsynced = {}
                      /\ MapOf(page[found.root].slots) \in {kept, saving}
  BY DEF OpensCommitted
<1>2. PICK last, onDisk : last \in {0, 1} /\ Left(first, second, last, onDisk)
  BY CrashLeaves
<1>3. PICK f, s, other :
        /\ f = page /\ s = (IF last = 0 THEN first ELSE second)
        /\ other = (IF last = 0 THEN second ELSE first)
  OBVIOUS
<1>4. /\ DurableIs(f, s, onDisk) /\ Older(other, s)
      /\ \A id \in PagesOf(s.root, onDisk) : page[id] = synced[id]
      /\ MapOf(f[s.root].slots) \in {kept, saving}
  BY <1>2, <1>3 DEF Left
<1>5. Valid(s) /\ s.generation \in Nat
  BY <1>4, DurableValid
<1>6. ActiveOf(first, second) = last
  BY <1>2, <1>3, <1>4, <1>5, ChosenIs
<1>7. chosen = last /\ found = s /\ last # -1
  BY <1>1, <1>2, <1>3, <1>6
<1>8. /\ TreeReadable(f, s.root)
      /\ PagesOf(s.root, onDisk)
            = {s.root} \union UNION {ToSet(ChainOf(f, f[s.root].slots[k])) : k \in TreeKeys}
  BY <1>4, TreeFound
<1>9. PagesOf(s.root, onDisk) \intersect Unsynced = {}
  BY <1>4 DEF Unsynced
<1> QED
  BY <1>3, <1>4, <1>7, <1>8, <1>9

-----------------------------------------------------------------------------
(* The roles of the pages *)

\* A list of different pages is not longer than the file.
LEMMA ListedShort ==
    ASSUME NEW ids, NEW next \in Nat, next >= 3, Listed(ids, next)
    PROVE  Len(ids) <= next - 3
<1>1. PICK len, S : len = Len(ids) /\ S = 3 .. next - 1
  OBVIOUS
<1>2. /\ len \in Nat /\ DOMAIN ids = 1 .. len /\ ids \in Seq(S)
      /\ \A i, j \in 1 .. len : ids[i] = ids[j] => i = j
  BY <1>1, ListedAmong
<1>3. ids \in Injection(1 .. len, S)
  <2>1. ids \in [1 .. len -> S]
    BY <1>1, <1>2
  <2> QED
    BY <1>2, <2>1 DEF Injection, IsInjective
<1>4. IsFiniteSet(S) /\ Cardinality(S) = next - 3
  <2>1. PICK last : last = next - 1
    OBVIOUS
  <2>2. last \in Int /\ 3 \in Int
    BY <2>1
  <2>3. IsFiniteSet(3 .. last) /\ Cardinality(3 .. last) = IF 3 > last THEN 0 ELSE last - 3 + 1
    BY <2>2, FS_Interval
  <2> QED
    BY <1>1, <2>1, <2>3
<1>5. Cardinality(1 .. len) = len
  <2>1. len \in Int /\ 1 \in Int
    BY <1>2
  <2>2. Cardinality(1 .. len) = IF 1 > len THEN 0 ELSE len - 1 + 1
    BY <2>1, FS_Interval
  <2> QED
    BY <1>2, <2>2
<1>6. Cardinality(1 .. len) <= Cardinality(S)
  BY <1>3, <1>4, FS_Injection
<1> QED
  BY <1>1, <1>4, <1>5, <1>6

\* SpillPages follows the chain of free pages one by one, until there is none.
Spills(g) ==
    /\ g[0] = sb.head
    /\ \A n \in 1 .. MaxPages : g[n] = NextFree(g[n - 1])
    /\ SpillPages = Counted(g, MaxPages)

LEMMA SpillSteps ==
    ASSUME ShadowPagingAssumption
    PROVE  \E g : Spills(g)
<1> DEFINE Follows(g) == g = [n \in 0 .. MaxPages |-> IF n = 0 THEN sb.head ELSE NextFree(g[n - 1])]
<1>0. MaxPages \in Nat
  BY DEF ShadowPagingAssumption
<1>1. \A g : Follows(g) <=> Makes("spill", sb.head, page, MaxPages, g)
  BY DEF Makes, Stepped, NextFree
<1> DEFINE at == CHOOSE g : Follows(g)
<1>2. SpillPages = Counted(at, MaxPages)
  BY DEF SpillPages, Counted
<1> HIDE DEF Follows
<1>4. Follows(at)
  BY <1>0, <1>1, MakesExists
<1> HIDE DEF at
<1>5. Makes("spill", sb.head, page, MaxPages, at)
  BY <1>1, <1>4
<1>6. /\ at[0] = sb.head
      /\ \A n \in 1 .. MaxPages : at[n] = Stepped("spill", at[n - 1], page, n)
  BY <1>0, <1>5, MadeSteps
<1>7. Spills(at)
  BY <1>2, <1>6 DEF Stepped, NextFree, Spills
<1> QED
  BY <1>7

LEMMA SpillFound ==
    ASSUME ShadowPagingAssumption, NEW X, NEW L, Strung(page, sb, X, L),
           sb.nextPage \in Nat, sb.nextPage >= 3, sb.nextPage <= MaxPages + 1,
           \A x \in X : page[x].type = "free"
    PROVE  SpillPages = L
<1>1. PICK len, next : len = Len(L) /\ next = sb.nextPage
  OBVIOUS
<1>2. /\ Listed(L, next) /\ Among(L) = X /\ sb.head = (IF L = << >> THEN 0 ELSE L[1])
      /\ \A n \in 1 .. len : page[L[n]].next = IF n = len THEN 0 ELSE L[n + 1]
  BY <1>1 DEF Strung
<1>3. /\ L \in Seq(3 .. next - 1) /\ len \in Nat /\ \A n \in 1 .. len : L[n] \in X
      /\ X \subseteq 3 .. next - 1
  BY <1>1, <1>2, ListedAmong
<1>4. len <= MaxPages /\ MaxPages \in Nat
  <2>1. len <= next - 3
    BY <1>1, <1>2, ListedShort
  <2> QED
    BY <1>1, <1>3, <2>1 DEF ShadowPagingAssumption
<1>5. L = [n \in 1 .. len |-> L[n]] /\ (L = << >> <=> len = 0)
  <2> DEFINE S == 3 .. next - 1
  <2>1. L \in Seq(S)
    BY <1>3
  <2> HIDE DEF S
  <2> QED
    BY <1>1, <2>1
<1>6. \A x \in X : x # 0 /\ page[x].type = "free"
  BY <1>1, <1>3
<1>13. \A n \in 1 .. len : L[n] # 0
  BY <1>3, <1>6
<1>7. PICK g : Spills(g)
  BY SpillSteps
<1>8. /\ g[0] = sb.head /\ \A n \in 1 .. MaxPages : g[n] = NextFree(g[n - 1])
      /\ SpillPages = Counted(g, MaxPages)
  BY <1>7, Zenon DEF Spills
<1> DEFINE T == {n \in 0 .. MaxPages : g[n] = IF n < len THEN L[n + 1] ELSE 0}
<1>9. 0 \in T
  BY <1>2, <1>3, <1>4, <1>5, <1>8
<1>10. ASSUME NEW n \in 0 .. MaxPages - 1, n \in T PROVE n + 1 \in T
  <2>1. /\ n + 1 \in 1 .. MaxPages /\ n + 1 \in 0 .. MaxPages /\ n + 1 - 1 = n /\ n \in Nat
        /\ len \in Nat
    BY <1>3, <1>4
  <2>2. g[n + 1] = NextFree(g[n])
    BY <1>8, <2>1
  <2>3. CASE n < len
    <3>1. PICK m : m = n + 1
      OBVIOUS
    <3>2. m \in 1 .. len /\ (m = len <=> ~ (m < len))
      BY <2>1, <2>3, <3>1
    <3>3. g[n] = L[m]
      BY <1>10, <2>3, <3>1
    <3>4. NextFree(L[m]) = IF m = len THEN 0 ELSE L[m + 1]
      BY <1>2, <1>3, <1>6, <3>2 DEF NextFree
    <3>5. g[m] = IF m < len THEN L[m + 1] ELSE 0
      BY <2>2, <3>1, <3>2, <3>3, <3>4
    <3> QED
      BY <2>1, <3>1, <3>5
  <2>4. CASE ~ (n < len)
    <3>1. g[n] = 0 /\ ~ (n + 1 < len)
      BY <1>10, <2>1, <2>4
    <3>2. g[n + 1] = 0
      BY <2>2, <3>1 DEF NextFree
    <3> QED
      BY <2>1, <3>1, <3>2
  <2> QED
    BY <2>3, <2>4
<1> HIDE DEF T
<1>11. 0 .. MaxPages \subseteq T
  BY <1>4, <1>9, <1>10, UpTo
<1>12. \A n \in 0 .. MaxPages : g[n] = (IF n < len THEN L[n + 1] ELSE 0)
  BY <1>11 DEF T
<1>14. len \in Nat /\ L = [n \in 1 .. len |-> L[n]]
  BY <1>3, <1>5
<1>15. Lists(MaxPages, g, L, len)
  BY <1>4, <1>12, <1>13, <1>14, Zenon DEF Lists
<1>16. Counted(g, MaxPages) = L
  BY <1>15, ListsCount
<1> QED
  BY <1>8, <1>16

\* The three groups of roles: in the tree, free, and waiting for the commit.
TreeRole(role, ids, chains) ==
    \/ role = <<"root", 0>> /\ ids = <<tree.root>>
    \/ \E k \in TreeKeys : role = <<"value", k>> /\ ids = chains[k]
FreeRole(role, ids, X, L) ==
    \/ role = <<"free", 0>> /\ ids = sb.free
    \/ role = <<"spill", 0>> /\ ids = L
    \/ \E x \in X : role = <<"held", x>> /\ ids = page[x].ids
WaitRole(role, ids) == role = <<"waits", 0>> /\ ids = recycle

\* No page is in both lists, or twice in one.
Once(role, ids, other, others) ==
    \A i \in DOMAIN ids, j \in DOMAIN others : ids[i] = others[j] => role = other /\ i = j

LEMMA ApartOnce ==
    ASSUME NEW role, NEW ids, NEW other, NEW others, Among(ids) \intersect Among(others) = {}
    PROVE  Once(role, ids, other, others)
BY DEF Once, Among

LEMMA ListedOnce ==
    ASSUME NEW role, NEW ids, NEW next, Listed(ids, next)
    PROVE  Once(role, ids, role, ids) /\ Among(ids) \subseteq 3 .. next - 1
BY ListedAmong DEF Once, Listed

LEMMA TreeRoles ==
    ASSUME NEW file, NEW slots, NEW next \in Nat, NEW chains,
           TreeIs(file, slots, tree.root, next, chains),
           NEW r, NEW a, TreeRole(r, a, chains), NEW q, NEW b, TreeRole(q, b, chains)
    PROVE  Once(r, a, q, b) /\ Among(a) \subseteq PagesOf(tree.root, chains)
<1>1. PICK root, rooted : root = tree.root /\ rooted = <<tree.root>>
  OBVIOUS
<1>2. Among(rooted) = {root} /\ DOMAIN rooted = {1}
  BY <1>1 DEF Among
<1>3. /\ \A k \in TreeKeys : Listed(chains[k], next) /\ root \notin Among(chains[k])
      /\ \A k, l \in TreeKeys : k # l => Among(chains[k]) \intersect Among(chains[l]) = {}
  BY <1>1 DEF TreeIs, ChainIs
<1>4. \A x : Once(x, rooted, x, rooted)
  BY <1>2 DEF Once
<1>5. Among(a) \subseteq PagesOf(root, chains)
  <2>1. CASE a = rooted
    BY <1>2, <2>1 DEF PagesOf
  <2>2. CASE \E k \in TreeKeys : a = chains[k]
    BY <2>2 DEF PagesOf
  <2> QED
    BY <1>1, <2>1, <2>2 DEF TreeRole
<1>6. CASE r = <<"root", 0>> /\ a = rooted
  <2>1. CASE q = <<"root", 0>> /\ b = rooted
    BY <1>1, <1>4, <1>5, <1>6, <2>1
  <2>2. CASE \E k \in TreeKeys : q = <<"value", k>> /\ b = chains[k]
    <3>1. Among(a) \intersect Among(b) = {}
      BY <1>2, <1>3, <1>6, <2>2
    <3> QED
      BY <1>1, <1>5, <3>1, ApartOnce
  <2> QED
    BY <1>1, <2>1, <2>2 DEF TreeRole
<1>7. ASSUME NEW k \in TreeKeys, r = <<"value", k>>, a = chains[k]
      PROVE  Once(r, a, q, b)
  <2>1. CASE q = <<"root", 0>> /\ b = rooted
    <3>1. Among(a) \intersect Among(b) = {}
      BY <1>2, <1>3, <1>7, <2>1
    <3> QED
      BY <3>1, ApartOnce
  <2>2. ASSUME NEW l \in TreeKeys, q = <<"value", l>>, b = chains[l]
        PROVE  Once(r, a, q, b)
    <3>1. CASE k = l
      <4>1. Listed(a, next) /\ q = r /\ b = a
        BY <1>3, <1>7, <2>2, <3>1
      <4> QED
        BY <4>1, ListedOnce
    <3>2. CASE k # l
      <4>1. Among(a) \intersect Among(b) = {}
        BY <1>3, <1>7, <2>2, <3>2
      <4> QED
        BY <4>1, ApartOnce
    <3> QED
      BY <3>1, <3>2
  <2> QED
    BY <1>1, <2>1, <2>2 DEF TreeRole
<1> QED
  BY <1>1, <1>5, <1>6, <1>7 DEF TreeRole

LEMMA FreeRoles ==
    ASSUME NEW X, NEW L, Strung(page, sb, X, L), FreeOK(page, sb, X),
           NEW r, NEW a, FreeRole(r, a, X, L), NEW q, NEW b, FreeRole(q, b, X, L)
    PROVE  /\ Once(r, a, q, b)
           /\ \A id \in Among(a) : id \in 3 .. sb.nextPage - 1 /\ FreeIn(Pool, X, id)
<1>1. PICK next, free : next = sb.nextPage /\ free = sb.free
  OBVIOUS
<1>2. /\ Listed(free, next) /\ Listed(L, next) /\ Among(L) = X /\ X \intersect Among(free) = {}
      /\ \A x \in X : /\ Listed(page[x].ids, next)
                      /\ Among(page[x].ids) \intersect (X \union Among(free)) = {}
      /\ \A x, y \in X : x # y => Among(page[x].ids) \intersect Among(page[y].ids) = {}
  BY <1>1 DEF FreeOK, Strung
<1>3. Listed(a, next)
  BY <1>1, <1>2 DEF FreeRole
<1>4. ASSUME NEW id \in Among(a) PROVE id \in 3 .. next - 1 /\ FreeIn(Pool, X, id)
  <2>1. id \in 3 .. next - 1
    BY <1>3, <1>4, ListedAmong
  <2>2. id \in Among(free) \/ id \in X \/ \E x \in X : id \in Among(page[x].ids)
    BY <1>1, <1>2, <1>4 DEF FreeRole
  <2> QED
    BY <1>1, <2>1, <2>2 DEF FreeIn, MayBeTaken, Pool
<1>5. CASE r = q /\ a = b
  BY <1>1, <1>3, <1>4, <1>5, ListedOnce
<1>6. CASE ~ (r = q /\ a = b)
  <2>1. Among(a) \intersect Among(b) = {}
    <3>1. CASE a = free /\ r = <<"free", 0>>
      <4>1. (q = <<"spill", 0>> /\ b = L) \/ \E x \in X : b = page[x].ids
        BY <1>1, <1>6, <3>1 DEF FreeRole
      <4> QED
        BY <1>2, <3>1, <4>1
    <3>2. CASE a = L /\ r = <<"spill", 0>>
      <4>1. b = free \/ \E x \in X : b = page[x].ids
        BY <1>1, <1>6, <3>2 DEF FreeRole
      <4> QED
        BY <1>2, <3>2, <4>1
    <3>3. ASSUME NEW x \in X, r = <<"held", x>>, a = page[x].ids
          PROVE  Among(a) \intersect Among(b) = {}
      <4>1. b = free \/ b = L \/ \E y \in X : y # x /\ b = page[y].ids
        BY <1>1, <1>6, <3>3 DEF FreeRole
      <4> QED
        BY <1>2, <3>3, <4>1
    <3> QED
      BY <1>1, <3>1, <3>2, <3>3 DEF FreeRole
  <2> QED
    BY <1>1, <1>4, <2>1, ApartOnce
<1> QED
  BY <1>5, <1>6

\* Each role of EachPageOnce is in one of the groups, with its pages, and the
\* other way round.
LEMMA RolesAre ==
    ASSUME NEW X, NEW L, Among(L) = X, \A x \in X : SpilledIds(x) = page[x].ids,
           NEW chains, \A k \in TreeKeys : ChainOf(page, tree.slots[k]) = chains[k]
    PROVE  /\ \A role \in RolesWith(L) :
                  LET ids == PagesOfRole(role, L)
                  IN TreeRole(role, ids, chains) \/ FreeRole(role, ids, X, L) \/ WaitRole(role, ids)
           /\ \A role, ids :
                  TreeRole(role, ids, chains) \/ FreeRole(role, ids, X, L) \/ WaitRole(role, ids)
                     => role \in RolesWith(L) /\ ids = PagesOfRole(role, L)
<1>1. ToSet(L) = X
  BY DEF ToSet, Among
<1>2. RolesWith(L) = ({"root", "waits", "free", "spill"} \X {0})
                        \union ({"value"} \X TreeKeys) \union ({"held"} \X X)
  BY <1>1 DEF RolesWith
<1>3. /\ <<"root", 0>> \in RolesWith(L) /\ PagesOfRole(<<"root", 0>>, L) = <<tree.root>>
      /\ <<"waits", 0>> \in RolesWith(L) /\ PagesOfRole(<<"waits", 0>>, L) = recycle
      /\ <<"free", 0>> \in RolesWith(L) /\ PagesOfRole(<<"free", 0>>, L) = sb.free
      /\ <<"spill", 0>> \in RolesWith(L) /\ PagesOfRole(<<"spill", 0>>, L) = L
  BY <1>2 DEF PagesOfRole
<1>4. ASSUME NEW k \in TreeKeys
      PROVE  <<"value", k>> \in RolesWith(L) /\ PagesOfRole(<<"value", k>>, L) = chains[k]
  BY <1>2 DEF PagesOfRole
<1>5. ASSUME NEW x \in X
      PROVE  <<"held", x>> \in RolesWith(L) /\ PagesOfRole(<<"held", x>>, L) = page[x].ids
  BY <1>2 DEF PagesOfRole
<1>6. ASSUME NEW role \in RolesWith(L)
      PROVE  \/ role \in {<<"root", 0>>, <<"waits", 0>>, <<"free", 0>>, <<"spill", 0>>}
             \/ \E k \in TreeKeys : role = <<"value", k>>
             \/ \E x \in X : role = <<"held", x>>
  BY <1>2
<1> QED
  BY <1>3, <1>4, <1>5, <1>6 DEF TreeRole, FreeRole, WaitRole

LEMMA ShadowInv_Roles ==
    ASSUME ShadowPagingAssumption, ShadowInv
    PROVE  EachPageOnce
<1>0. SUFFICES ASSUME treeAt = "open" PROVE EachPageOnce
  BY DEF EachPageOnce
<1> DEFINE L == SpillPages
           Roles == RolesWith(L)
           pages == [role \in Roles |-> PagesOfRole(role, L)]
           once == UNION {ToSet(pages[role]) : role \in DOMAIN pages}
<1>1. /\ L = SpillPages /\ Roles = RolesWith(L)
      /\ pages = [role \in Roles |-> PagesOfRole(role, L)]
      /\ once = UNION {ToSet(pages[role]) : role \in Roles}
  OBVIOUS
<1> HIDE DEF L, Roles, pages, once
<1>2. PICK X, chains, onDisk : RolesFit(X, chains, onDisk)
  BY <1>0 DEF ShadowInv, Working
<1>3. PICK next, root, reached : next = sb.nextPage /\ root = tree.root /\ reached = PagesOf(root, chains)
  OBVIOUS
<1>4. /\ FreeOK(page, sb, X) /\ TreeIs(page, tree.slots, root, next, chains)
      /\ Apart(Pool, X, root, chains, PagesOf(page[active].root, onDisk))
      /\ treeUsed.crashes = 0 => Whole(Pool, X, root, chains)
      /\ next <= MaxPages + 1 /\ next \in Nat /\ next >= 3
  BY <1>2, <1>3 DEF RolesFit, FreeOK
<1>5. \A x \in X : page[x].type = "free" /\ SpilledIds(x) = page[x].ids
  <2>1. \A x \in X : page[x] = FreePage(page[x].next, page[x].ids)
    BY <1>4 DEF FreeOK
  <2>2. ASSUME NEW x \in X PROVE page[x].type = "free"
    <3>1. PICK n, ids : page[x] = FreePage(n, ids)
      BY <2>1
    <3> QED
      BY <3>1 DEF FreePage
  <2> QED
    BY <2>2 DEF SpilledIds
<1>6. Strung(page, sb, X, L)
  <2>1. PICK M : Strung(page, sb, X, M)
    BY <1>4 DEF FreeOK, Chained
  <2>2. SpillPages = M
    BY <1>3, <1>4, <1>5, <2>1, SpillFound
  <2> QED
    BY <1>1, <2>1, <2>2
<1>7. Among(L) = X
  BY <1>6 DEF Strung
<1>8. ASSUME NEW k \in TreeKeys PROVE ChainOf(page, tree.slots[k]) = chains[k]
  <2>1. ChainIs(page, tree.slots[k], chains[k], next)
    BY <1>4 DEF TreeIs
  <2> QED
    BY <2>1, ChainFound
<1> DEFINE fits(role, ids) ==
        TreeRole(role, ids, chains) \/ FreeRole(role, ids, X, L) \/ WaitRole(role, ids)
<1>9. /\ \A role \in Roles : fits(role, pages[role])
      /\ \A role, ids : fits(role, ids) => role \in Roles /\ ids = pages[role]
  <2>1. /\ \A role \in RolesWith(L) : fits(role, PagesOfRole(role, L))
        /\ \A role, ids : fits(role, ids) => role \in RolesWith(L) /\ ids = PagesOfRole(role, L)
    BY <1>5, <1>7, <1>8, RolesAre
  <2> HIDE DEF fits
  <2> QED
    BY <1>1, <2>1
<1>10. \A r, a, q, b : TreeRole(r, a, chains) /\ TreeRole(q, b, chains)
                          => Once(r, a, q, b) /\ Among(a) \subseteq reached
  <2>1. PICK file, slots : file = page /\ slots = tree.slots
    OBVIOUS
  <2>2. TreeIs(file, slots, tree.root, next, chains) /\ next \in Nat
    BY <1>3, <1>4, <2>1
  <2> QED
    BY <1>3, <2>2, TreeRoles
<1>11. \A r, a, q, b : FreeRole(r, a, X, L) /\ FreeRole(q, b, X, L)
          => /\ Once(r, a, q, b)
             /\ \A id \in Among(a) : id \in 3 .. next - 1 /\ FreeIn(Pool, X, id)
  BY <1>3, <1>4, <1>6, FreeRoles
<1>12. /\ Listed(recycle, next) /\ Among(recycle) \intersect reached = {}
       /\ \A id \in PageIds : FreeIn(Pool, X, id) => id \notin Among(recycle) /\ id \notin reached
       /\ 3 .. next - 1 \subseteq PageIds /\ 3 .. next - 1 \subseteq 2 .. next - 1
       /\ reached \subseteq 2 .. next - 1
  <2>1. PICK p : p = Pool
    OBVIOUS
  <2>2. p.recycle = recycle /\ p.sb.nextPage = next
    BY <1>3, <2>1 DEF Pool
  <2>3. Apart(p, X, root, chains, PagesOf(page[active].root, onDisk))
    BY <1>4, <2>1
  <2>4. 3 .. next - 1 \subseteq PageIds /\ 3 .. next - 1 \subseteq 2 .. next - 1
    BY <1>4 DEF PageIds, ShadowPagingAssumption
  <2>5. reached \subseteq 2 .. next - 1
    <3>1. PICK file, slots : file = page /\ slots = tree.slots
      OBVIOUS
    <3>2. TreeIs(file, slots, root, next, chains)
      BY <1>4, <3>1
    <3> QED
      BY <1>3, <1>4, <3>2, TreePages
  <2> QED
    BY <1>3, <2>1, <2>2, <2>3, <2>4, <2>5 DEF Apart
<1>13. \A r, a, q, b : WaitRole(r, a) /\ WaitRole(q, b)
                          => Once(r, a, q, b) /\ Among(a) = Among(recycle)
  BY <1>12, ListedOnce DEF WaitRole
<1>14. Among(recycle) \subseteq 3 .. next - 1
  BY <1>12, ListedAmong
<1>15. ASSUME NEW r, NEW a, NEW q, NEW b, fits(r, a), fits(q, b) PROVE Once(r, a, q, b)
  <2>1. CASE TreeRole(r, a, chains) /\ TreeRole(q, b, chains)
    BY <1>10, <2>1
  <2>2. CASE FreeRole(r, a, X, L) /\ FreeRole(q, b, X, L)
    BY <1>11, <2>2
  <2>3. CASE WaitRole(r, a) /\ WaitRole(q, b)
    BY <1>13, <2>3
  <2>4. CASE TreeRole(r, a, chains) /\ ~ TreeRole(q, b, chains)
    <3>1. Among(a) \intersect Among(b) = {}
      BY <1>10, <1>11, <1>12, <1>13, <1>15, <2>4
    <3> QED
      BY <3>1, ApartOnce
  <2>5. CASE FreeRole(r, a, X, L) /\ ~ FreeRole(q, b, X, L)
    <3>1. \A id \in Among(a) : id \notin reached /\ id \notin Among(recycle)
      BY <1>11, <1>12, <2>5
    <3>2. Among(b) \subseteq reached \/ Among(b) = Among(recycle)
      BY <1>10, <1>13, <1>15, <2>5
    <3>3. Among(a) \intersect Among(b) = {}
      BY <3>1, <3>2
    <3> QED
      BY <3>3, ApartOnce
  <2>6. CASE WaitRole(r, a) /\ ~ WaitRole(q, b)
    <3>1. Among(a) \intersect Among(b) = {}
      BY <1>10, <1>11, <1>12, <1>13, <1>15, <2>6
    <3> QED
      BY <3>1, ApartOnce
  <2> QED
    BY <1>15, <2>1, <2>2, <2>3, <2>4, <2>5, <2>6
<1>16. ASSUME NEW r, NEW a, fits(r, a) PROVE Among(a) \subseteq 2 .. next - 1
  BY <1>10, <1>11, <1>12, <1>13, <1>14, <1>16
<1>17. once = UNION {Among(pages[role]) : role \in Roles}
  BY <1>1 DEF ToSet, Among
<1>18. ASSUME NEW role, NEW ids, fits(role, ids) PROVE Among(ids) \subseteq once
  BY <1>9, <1>17, <1>18
<1>19. ASSUME treeUsed.crashes = 0, NEW id \in 3 .. next - 1 PROVE id \in once
  <2>1. FreeIn(Pool, X, id) \/ id \in reached \/ id \in Among(recycle)
    <3>1. id \in Nat /\ id >= 3
      BY <1>4
    <3>2. Pool.recycle = recycle
      BY DEF Pool
    <3> QED
      BY <1>3, <1>4, <1>19, <3>1, <3>2 DEF Whole
  <2>2. CASE id \in reached
    <3>1. id \in Among(<<root>>) \/ \E k \in TreeKeys : id \in Among(chains[k])
      BY <1>3, <2>2 DEF PagesOf, Among
    <3>2. fits(<<"root", 0>>, <<root>>) /\ \A k \in TreeKeys : fits(<<"value", k>>, chains[k])
      BY <1>3 DEF TreeRole
    <3> QED
      BY <1>18, <3>1, <3>2
  <2>3. CASE id \in Among(recycle)
    <3>1. fits(<<"waits", 0>>, recycle)
      BY DEF WaitRole
    <3> QED
      BY <1>18, <2>3, <3>1
  <2>4. CASE FreeIn(Pool, X, id)
    <3>1. id \in Among(sb.free) \/ id \in X \/ \E x \in X : id \in Among(page[x].ids)
      BY <1>3, <1>4, <1>19, <2>4 DEF FreeIn, MayBeTaken, Pool
    <3>2. /\ fits(<<"free", 0>>, sb.free) /\ fits(<<"spill", 0>>, L)
          /\ \A x \in X : fits(<<"held", x>>, page[x].ids)
      BY DEF FreeRole
    <3> QED
      BY <1>7, <1>18, <3>1, <3>2
  <2> QED
    BY <2>1, <2>2, <2>3, <2>4
<1>20. \A id \in ToSet(L) : page[id].type = "free"
  BY <1>5, <1>7 DEF ToSet, Among
<1>21. once \subseteq 2 .. next - 1
  BY <1>9, <1>16, <1>17
<1>22. \A r, q \in Roles : Once(r, pages[r], q, pages[q])
  BY <1>9, <1>15
<1>23. DOMAIN pages = Roles
  BY <1>1
<1>24. \A r, q \in DOMAIN pages : \A i \in DOMAIN pages[r], j \in DOMAIN pages[q] :
          pages[r][i] = pages[q][j] => r = q /\ i = j
  BY <1>22, <1>23 DEF Once
<1>25. /\ once \subseteq 2 .. sb.nextPage - 1
       /\ treeUsed.crashes = 0 => 3 .. sb.nextPage - 1 \subseteq once
  BY <1>3, <1>19, <1>21
<1> QED
  BY <1>20, <1>24, <1>25, Zenon DEF EachPageOnce, L, Roles, pages, once

LEMMA ShadowInv_Types ==
    ASSUME ShadowPagingAssumption, ShadowInv
    PROVE  ShadowTypeOK
<1>1. TypesFit /\ FileFits
  BY DEF ShadowInv
<1>2. CASE treeAt \in Working
  <2>1. PICK X, chains, onDisk : RolesFit(X, chains, onDisk) /\ ActiveFits(onDisk)
    BY <1>2 DEF ShadowInv
  <2>2. tree.root \in PageIds /\ active \in {0, 1}
    BY <2>1, RolesPages DEF ActiveFits
  <2>3. epoch \subseteq 3 .. MaxPages
    <3>1. epoch \subseteq 3 .. sb.nextPage - 1
      BY <2>1 DEF RolesFit, Apart, Pool
    <3>2. sb.nextPage \in Nat /\ sb.nextPage <= MaxPages + 1
      BY <2>1, RolesPages
    <3> QED
      BY <3>1, <3>2 DEF ShadowPagingAssumption
  <2> QED
    BY <1>1, <2>2, <2>3 DEF ShadowTypeOK, TypesFit, TypedPages, PageTypes, FileFits, Working
<1>3. CASE treeAt \notin Working
  <2>1. epoch = {}
    BY <1>3 DEF ShadowInv, Durable
  <2> QED
    BY <1>1, <1>3, <2>1 DEF ShadowTypeOK, TypesFit, TypedPages, PageTypes, FileFits, Working
<1> QED
  BY <1>2, <1>3

\* Every variable of the tree has its type, and every page of an open tree has
\* one role: in the tree, in a chain, in the free list or one of its pages, or
\* waiting for the commit; until a crash none is lost (allocate_id, recycle_id,
\* add_to_free_list, commit), for any number of keys, pages and ids in a
\* superblock and for the same files as CommittedIsFound.
THEOREM PagesHaveOneRole ==
    ASSUME ~ ReopensSpilled
    PROVE  ShadowSpec => [](ShadowTypeOK /\ EachPageOnce)
<1>1. ShadowInit => ShadowInv
  BY ShadowPagingAssumption, ShadowInit_Inv
<1>2. ShadowInv /\ [ShadowNext]_shadowVars => ShadowInv'
  BY ShadowPagingAssumption, ShadowNext_Inv
<1>3. ShadowInv => ShadowTypeOK /\ EachPageOnce
  BY ShadowPagingAssumption, ShadowInv_Types, ShadowInv_Roles
<1> QED
  BY <1>1, <1>2, <1>3, PTL DEF ShadowSpec

\* Whatever moment a crash comes at and whichever of the pages written since
\* the last sync it keeps, loses or tears, open finds a superblock, the whole
\* tree it reaches, and the map of the last commit answered or of the one under
\* way; for files whose free list has no pages of its own when they are opened
\* again and written to (commit, recycle_id, allocate_id, open).
THEOREM CommittedIsFound ==
    ASSUME ~ ReopensSpilled
    PROVE  ShadowSpec => []OpensCommitted
<1>1. ShadowInit => ShadowInv
  BY ShadowPagingAssumption, ShadowInit_Inv
<1>2. ShadowInv /\ [ShadowNext]_shadowVars => ShadowInv'
  BY ShadowPagingAssumption, ShadowNext_Inv
<1>3. ShadowInv => OpensCommitted
  BY ShadowPagingAssumption, ShadowInv_Opens
<1> QED
  BY <1>1, <1>2, <1>3, PTL DEF ShadowSpec
-----------------------------------------------------------------------------
(* The parts side by side *)

\* Whichever part moves, each one's behaviour is one of its own specification,
\* so what is proved of a part holds beside the other.
THEOREM PartsKeepTheirSpecs == UpkeepSpec => HoldsSpec /\ ShadowSpec
<1>1. UpkeepInit => HoldsInit /\ ShadowInit
  BY DEF UpkeepInit
<1>2. [UpkeepNext]_upkeepVars => [HoldsNext]_holdsVars /\ [ShadowNext]_shadowVars
  <2>1. ASSUME UpkeepNext PROVE [HoldsNext]_holdsVars /\ [ShadowNext]_shadowVars
    <3>1. CASE HoldsNext /\ UNCHANGED shadowVars
      BY <3>1
    <3>2. CASE ShadowNext /\ UNCHANGED holdsVars
      BY <3>2
    <3> QED
      BY <2>1, <3>1, <3>2 DEF UpkeepNext
  <2>2. ASSUME UNCHANGED upkeepVars PROVE UNCHANGED holdsVars /\ UNCHANGED shadowVars
    BY <2>2 DEF upkeepVars
  <2> QED
    BY <2>1, <2>2
<1> QED
  BY <1>1, <1>2, PTL DEF UpkeepSpec, HoldsSpec, ShadowSpec

\* Every variable of the two parts has its type, whichever moves, and every
\* page of an open tree has one role; for any number of officers, holds,
\* segments, keys and pages.
THEOREM UpkeepTypes ==
    ASSUME ~ ReopensSpilled
    PROVE  UpkeepSpec => []UpkeepTypeOK
<1>1. HoldsTypeOK /\ (ShadowTypeOK /\ EachPageOnce) => UpkeepTypeOK
  BY DEF UpkeepTypeOK
<1> QED
  BY <1>1, PartsKeepTheirSpecs, TypeCorrect, PagesHaveOneRole, PTL
=============================================================================
