------------------------------ MODULE LegalHolds ------------------------------
(***************************************************************************)
(* Legal holds.  A hold is an episode of the log; what keeps the garbage    *)
(* collector away from a segment is a flag in the catalogue (HRKM), derived *)
(* from the holds.  Three parties move the flags: an officer placing or     *)
(* releasing a hold (regulatory.rs, called by legal_hold_op without a       *)
(* lock), and the collection task of the server, which derives the flags    *)
(* again before each collection (heraclitus-server/src/lib.rs).  Whoever    *)
(* derives the flags reads the holds first and writes the flags later, and  *)
(* only the second half runs under the mutex of the engine.                 *)
(*                                                                         *)
(* Segments stand for LSN ranges, and the scope of a hold for the segments  *)
(* its range meets, sealed or not.                                          *)
(***************************************************************************)
EXTENDS FiniteSets, Naturals

CONSTANTS
    Officers,        \* concurrent callers of legal_hold_op
    Holds,           \* hold identifiers
    Segments,
    Scope,           \* the segments a hold covers
    MaxHoldFaults,   \* bound: failing commits, appends and reads
    MaxHoldKills     \* bound: kills of the server

ASSUME LegalHoldsAssumption ==
    /\ Scope \in [Holds -> SUBSET Segments]
    /\ {MaxHoldFaults, MaxHoldKills} \subseteq Nat

VARIABLES
    placed,     \* holds the log records, the first episode of each counts
    released,   \* holds whose release the log records
    answered,   \* holds some officer was told are in place
    sealed,     \* catalogued segments
    spare,      \* sealed segments with a superseded generation whose grace is over
    collected,  \* segments whose superseded generation was collected
    flag,       \* legal_hold of each segment, in the memory of the engine
    hrkm,       \* the same in the manifest on disk
    officer,    \* what each officer's call does next, on which hold, with what it read
    gc,         \* what the collection task does next, with the holds it read, the
                \* segments sealed when it wrote the flags and (history) those
                \* whose flags an officer then wrote without knowing a hold on them
    up,         \* the server is running
    holdsUsed   \* the bounded events so far

catalogue == <<sealed, spare, collected, flag, hrkm>>
holds == <<placed, released, answered>>
holdsVars == <<holds, catalogue, officer, gc, up, holdsUsed>>

Active == placed \ released

\* The segments held by a set of holds
Covered(hs) == UNION {Scope[h] : h \in hs}

IdleOfficer == [at |-> "idle", hold |-> {}, ranges |-> {}]
WaitingGc == [at |-> "wait", ranges |-> {}, seen |-> {}, missed |-> {}]

HoldsInit ==
    /\ placed = {} /\ released = {} /\ answered = {}
    /\ sealed = {} /\ spare = {} /\ collected = {}
    /\ flag = [s \in Segments |-> FALSE] /\ hrkm = flag
    /\ officer = [o \in Officers |-> IdleOfficer]
    /\ gc = WaitingGc
    /\ up = TRUE
    /\ holdsUsed = [faults |-> 0, kills |-> 0]

Fail ==
    /\ holdsUsed.faults < MaxHoldFaults
    /\ holdsUsed' = [holdsUsed EXCEPT !.faults = @ + 1]

\* A manifest commit that succeeds, and one that fails: the memory is put
\* back, the disk may already point at the new manifest
Commit(new) == flag' = new /\ hrkm' = new
FlagCommitFails(new) == Fail /\ hrkm' \in {hrkm, new} /\ UNCHANGED flag

\* Mutant of ReconcileFlags: it sets flags and never takes one away
ReconcileOnlyAdds(new) ==
    LET more == [s \in Segments |-> flag[s] \/ new[s]]
    IN \/ more # flag /\ Commit(more)
       \/ more = flag /\ UNCHANGED <<flag, hrkm>>

\* reconcile_legal_hold_ranges commits only when some flag changes
ReconcileFlags(new) ==
    \/ new # flag /\ Commit(new)
    \/ new = flag /\ UNCHANGED <<flag, hrkm>>

\* The flags set_legal_hold_range(scope, true) leaves, and the ones a set of
\* active holds asks for: only what is sealed has a flag
Marked(h) == [s \in Segments |-> flag[s] \/ s \in sealed \cap Scope[h]]
Derived(hs) == [s \in Segments |-> s \in sealed \cap Covered(hs)]

------------------------------------------------------------------------------
(* An officer *)

OfficerGoes(o, at, hold, ranges) ==
    officer' = [officer EXCEPT ![o] = [at |-> at, hold |-> hold, ranges |-> ranges]]

OfficerEnds(o) == officer' = [officer EXCEPT ![o] = IdleOfficer]

At(o, at) == up /\ officer[o].at = at

\* place_legal_hold, up to the first write.  A hold already in place is
\* answered at once; a released one is refused, which changes nothing.
Place(o, h) ==
    /\ At(o, "idle") /\ h \notin released
    /\ \/ h \in placed /\ answered' = answered \cup {h} /\ UNCHANGED officer
       \/ h \notin placed /\ OfficerGoes(o, "mark", {h}, {}) /\ UNCHANGED answered
    /\ UNCHANGED <<placed, released, catalogue, gc, up, holdsUsed>>

Mark(o) ==
    /\ At(o, "mark")
    /\ \E h \in officer[o].hold :
          LET met == sealed \cap Scope[h] # {}
          IN \/ /\ IF met THEN Commit(Marked(h)) ELSE UNCHANGED <<flag, hrkm>>
                /\ OfficerGoes(o, "record", {h}, {})
                /\ UNCHANGED holdsUsed
             \/ met /\ FlagCommitFails(Marked(h)) /\ OfficerEnds(o)
    /\ UNCHANGED <<holds, sealed, spare, collected, gc, up>>

\* append_compliance of the hold.  When it fails the flags stay, and the record
\* may be in the log all the same (a failed fsync)
RecordHold(o) ==
    /\ At(o, "record")
    /\ \/ /\ placed' = placed \cup officer[o].hold
          /\ OfficerGoes(o, "read", officer[o].hold, {})
          /\ UNCHANGED holdsUsed
       \/ Fail /\ OfficerEnds(o) /\ placed' \in {placed, placed \cup officer[o].hold}
    /\ UNCHANGED <<released, answered, catalogue, gc, up>>

\* release_legal_hold, up to the append: the release is recorded first
Release(o, h) ==
    /\ At(o, "idle") /\ h \in Active
    /\ OfficerGoes(o, "free", {h}, {})
    /\ UNCHANGED <<holds, catalogue, gc, up, holdsUsed>>

Free(o) ==
    /\ At(o, "free")
    /\ \/ /\ released' = released \cup officer[o].hold
          /\ OfficerGoes(o, "read", {}, {})
          /\ UNCHANGED holdsUsed
       \/ Fail /\ OfficerEnds(o) /\ released' \in {released, released \cup officer[o].hold}
    /\ UNCHANGED <<placed, answered, catalogue, gc, up>>

\* reconcile_legal_holds: the holds are read outside the mutex ...
OfficerReads(o) ==
    /\ At(o, "read")
    /\ \/ OfficerGoes(o, "apply", officer[o].hold, Active) /\ UNCHANGED holdsUsed
       \/ Fail /\ OfficerEnds(o)
    /\ UNCHANGED <<holds, catalogue, gc, up>>

\* A hold that was recorded after the officer read them gets no flag from it
PassMisses(hs) ==
    gc' = IF gc.at = "collect" THEN [gc EXCEPT !.missed = @ \cup Covered(Active \ hs)] ELSE gc

\* ... and the flags written under it; then the caller is answered
OfficerApplies(o) ==
    /\ At(o, "apply") /\ OfficerEnds(o)
    /\ LET new == Derived(officer[o].ranges)
       IN \/ /\ ReconcileFlags(new) /\ PassMisses(officer[o].ranges)
             /\ answered' = answered \cup officer[o].hold /\ UNCHANGED holdsUsed
          \/ new # flag /\ FlagCommitFails(new) /\ UNCHANGED <<answered, gc>>
    /\ UNCHANGED <<placed, released, sealed, spare, collected, up>>

OfficerStep(o) == Mark(o) \/ RecordHold(o) \/ Free(o) \/ OfficerReads(o) \/ OfficerApplies(o)

------------------------------------------------------------------------------
(* The collection task, and the segments *)

GcReads ==
    /\ up /\ gc.at = "wait"
    /\ gc' = [WaitingGc EXCEPT !.at = "apply", !.ranges = Active]
    /\ UNCHANGED <<holds, catalogue, officer, up, holdsUsed>>

\* Mutant of GcApplies: the error of the reconciliation is logged and the pass goes on
GcAppliesIgnoresError ==
    /\ up /\ gc.at = "apply"
    /\ gc' = [gc EXCEPT !.at = "collect", !.seen = sealed]
    /\ LET new == Derived(gc.ranges)
       IN \/ ReconcileFlags(new) /\ UNCHANGED holdsUsed
          \/ new # flag /\ FlagCommitFails(new)
    /\ UNCHANGED <<holds, sealed, spare, collected, officer, up>>

\* A pass that cannot derive the flags collects nothing
GcApplies ==
    /\ up /\ gc.at = "apply"
    /\ LET new == Derived(gc.ranges)
       IN \/ ReconcileFlags(new) /\ gc' = [gc EXCEPT !.at = "collect", !.seen = sealed] /\ UNCHANGED holdsUsed
          \/ new # flag /\ FlagCommitFails(new) /\ gc' = WaitingGc
    /\ UNCHANGED <<holds, sealed, spare, collected, officer, up>>

\* collect_garbage: what the flags of a manifest leave unprotected goes
Collect(flags) ==
    LET gone == {s \in spare : ~flags[s]}
    IN collected' = collected \cup gone /\ spare' = spare \ gone

\* The pass of a start only derives the flags; a collection whose commit fails
\* removes nothing
GcCollects ==
    /\ up /\ gc.at = "collect" /\ gc' = WaitingGc
    /\ \/ Collect(flag) /\ hrkm' = IF spare' = spare THEN hrkm ELSE flag
       \/ UNCHANGED <<spare, collected>> /\ hrkm' \in {hrkm, flag}
    /\ UNCHANGED <<holds, sealed, flag, officer, up, holdsUsed>>

\* The command line collects on a stopped base, with the flags as they are
OfflineGc ==
    /\ ~up /\ Collect(hrkm)
    /\ UNCHANGED <<holds, sealed, flag, hrkm, officer, gc, up, holdsUsed>>

\* A new segment has no flag until somebody derives them
Seal(s) ==
    /\ up /\ s \notin sealed
    /\ sealed' = sealed \cup {s} /\ hrkm' = flag
    /\ UNCHANGED <<holds, spare, collected, flag, officer, gc, up, holdsUsed>>

\* A segment was packed and the grace of its raw generation is over.  The
\* grace (a day, unless configured) is longer than a pass: a segment sealed
\* after a pass wrote the flags does not become collectable within it.
GraceEnds(s) ==
    /\ s \in sealed \ (spare \cup collected)
    /\ gc.at = "collect" => s \in gc.seen
    /\ spare' = spare \cup {s}
    /\ UNCHANGED <<holds, sealed, collected, flag, hrkm, officer, gc, up, holdsUsed>>

HoldsKill ==
    /\ up /\ holdsUsed.kills < MaxHoldKills
    /\ holdsUsed' = [holdsUsed EXCEPT !.kills = @ + 1]
    /\ up' = FALSE
    /\ officer' = [o \in Officers |-> IdleOfficer] /\ gc' = WaitingGc
    /\ UNCHANGED <<holds, catalogue>>

HoldsBoot ==
    /\ ~up /\ up' = TRUE /\ flag' = hrkm
    /\ UNCHANGED <<holds, sealed, spare, collected, hrkm, officer, gc, holdsUsed>>

GcStep == GcReads \/ GcApplies \/ GcCollects

HoldsNext ==
    \/ \E o \in Officers : OfficerStep(o)
    \/ \E o \in Officers, h \in Holds : Place(o, h) \/ Release(o, h)
    \/ GcStep \/ OfflineGc
    \/ \E s \in Segments : Seal(s) \/ GraceEnds(s)
    \/ HoldsKill \/ HoldsBoot

\* The task runs on its interval as long as the server does
HoldsFairness == WF_holdsVars(GcStep)

HoldsSpec == HoldsInit /\ [][HoldsNext]_holdsVars
HoldsFairSpec == HoldsSpec /\ HoldsFairness

------------------------------------------------------------------------------
(* Properties *)

HoldsTypeOK ==
    /\ {placed, released, answered} \subseteq SUBSET Holds
    /\ {sealed, spare, collected} \subseteq SUBSET Segments
    /\ flag \in [Segments -> BOOLEAN] /\ hrkm \in [Segments -> BOOLEAN]
    /\ officer \in [Officers -> [at : {"idle", "mark", "record", "free", "read", "apply"},
                                 hold : SUBSET Holds, ranges : SUBSET Holds]]
    /\ gc \in [at : {"wait", "apply", "collect"},
              ranges : SUBSET Holds, seen : SUBSET Segments, missed : SUBSET Segments]
    /\ up \in BOOLEAN
    /\ holdsUsed \in [faults : 0 .. MaxHoldFaults, kills : 0 .. MaxHoldKills]
    /\ released \subseteq placed /\ answered \subseteq placed
    /\ spare \subseteq sealed /\ collected \subseteq sealed

\* A pass of the collection task respects every hold that the log recorded
\* when the pass began and that nobody released meanwhile: neither an officer
\* at work on other holds, nor a failed commit, nor a restart takes the flag
\* away in between (lib.rs: "reconciliar ANTES de coletar").
EarlierHoldsHold ==
    [][\A s \in collected' \ collected :
          s \in Covered(gc.ranges \cap Active) => s \in gc.missed]_holdsVars

\* Nothing under a hold is collected by a running server from the moment the
\* officer is told the hold is in place until its release is recorded (lib.rs:
\* "nenhuma coleta pode acontecer sem uma reconciliação fresca imediatamente
\* antes — que é a propriedade que interessa").
HeldIsKept ==
    [][up => \A s \in collected' \ collected : s \notin Covered(answered \ released)]_holdsVars

\* Once nobody places, releases or seals any more, the flags of a running
\* server say what the log says: no segment stays protected for a hold that
\* failed or was released, none unprotected under an active one (the bounds
\* make the calls finitely many).
FlagsConverge == <>[](up => flag = Derived(Active))
==============================================================================
