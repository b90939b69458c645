---------------------------- MODULE DerivedState ----------------------------
(***************************************************************************)
(* What a node derives from its log (heraclitus-server, engine.rs;          *)
(* heraclitus-views; heraclitus-index-attr): views and the attribute       *)
(* index, live in memory and as snapshots on the disk, and their erasure   *)
(* when the key of a subject is destroyed (crypto-shred).                  *)
(*                                                                         *)
(* An appender holds the shared side of `index_gate` from its LSN until    *)
(* the views and the index have the episode; checkpoints, rebuilds and     *)
(* shreds take the exclusive side.  One subject is followed; of every      *)
(* episode a view knows whether it applied it, and what it then saw.       *)
(***************************************************************************)
EXTENDS Integers, Sequences, FiniteSets

CONSTANTS
    Views,           \* the registered views
    Appenders,       \* threads that append
    Kinds,           \* the episodes they append: of the subject, a hold on it, others
    BootModes,       \* the modes of a boot: see Modes
    Replicated,      \* the appender is the applier of the consensus
    MaxEpisodes,     \* bound: episodes of the log
    MaxShreds,       \* bound: shreds asked for
    MaxStops         \* bound: ends of the process

\* "skip": HERACLITUS_SKIP_VIEW_REPLAY; "log_only": HERACLITUS_LOG_ONLY
Modes == {"normal", "skip", "log_only"}

ASSUME DerivedAssumption ==
    /\ BootModes \subseteq Modes /\ "normal" \in BootModes
    /\ Kinds \subseteq {"subject", "hold", "other"}
    /\ Replicated \in BOOLEAN
    /\ {MaxEpisodes, MaxShreds, MaxStops} \subseteq Nat

Lsns == 0 .. MaxEpisodes - 1

VARIABLES
    episodes,    \* the log: the kind of each episode, and the key that sealed it
    key,         \* KeyStore: the subject's last key, and whether it still exists
    shredded,    \* KeyStore: the mark that a key of the subject was destroyed
    marker,      \* the file privacy-rebuild-required
    views,       \* ViewRegistry: what each view has, its watermark, ~dirty
    snapshots,   \* the snapshot of each view
    unmaterialized,     \* ViewRegistry::nao_materializado
    attr,        \* AttrIndex: what it has, its watermark (-1: none), dirty
    attrFile,    \* its checkpoint
    overtaken,   \* history: that checkpoint replaced the one of a shred which began after it
    attrIncomplete,     \* Engine::attr_nao_materializado
    saving,      \* the checkpoint of the index being saved
    appender,    \* what each appender does next, and its LSN
    shred,       \* what the shred under way does next, and what it found out
    process,      \* "down", booting, or "up"
    mode,        \* of the last boot
    budget       \* how much of each bound is spent

disk   == <<episodes, key, shredded, marker, snapshots, attrFile, overtaken>>
ram    == <<views, unmaterialized, attr, attrIncomplete>>
derivedVars == <<disk, ram, saving, appender, shred, process, mode, budget>>

-----------------------------------------------------------------------------
(* Episodes and what is derived from them *)

LogHead == Len(episodes)
Episode(lsn) == episodes[lsn + 1]
Logged == 0 .. LogHead - 1

\* decrypt_storage_episode_in_place: without its key an episode of the subject
\* is a tombstone.
Sealed(lsn) == Episode(lsn).kind = "subject"
Opens(lsn) == key.alive /\ Episode(lsn).key = key.gen
Read(lsn) == IF Sealed(lsn) /\ Opens(lsn) THEN "clear" ELSE "blank"

\* A record that another key sealed is an error, unless the subject was shredded.
Aborts(lsn) == Sealed(lsn) /\ key.alive /\ ~Opens(lsn) /\ ~shredded

NothingSeen == [l \in Lsns |-> "none"]
Values == {"none", "clear", "blank", "twice"}

\* View::apply.  The activation store counts: it is not idempotent.
ViewApplied(v, lsn, seen) ==
    [v EXCEPT !.has[lsn] = IF @ = "none" THEN seen ELSE "twice",
              !.wm = IF lsn > @ THEN lsn ELSE @,
              !.clean = FALSE]

\* AttrIndex::apply inserts an LSN once.
Indexed(a, lsn, seen) ==
    [a EXCEPT !.has[lsn] = IF @ = "none" THEN seen ELSE @,
              !.wm = IF lsn > @ THEN lsn ELSE @,
              !.dirty = TRUE]

\* What a scan of the log from LSN `from` makes of `has`.
Scanned(has, from) == [l \in Lsns |-> IF l >= from /\ l < LogHead THEN Read(l) ELSE has[l]]

LastLsn == IF LogHead = 0 THEN 0 ELSE LogHead - 1

EmptyView == [has |-> NothingSeen, wm |-> 0, clean |-> FALSE]
EmptyAttr == [has |-> NothingSeen, wm |-> -1, dirty |-> FALSE]
NoFile    == [has |-> NothingSeen, wm |-> -1]
NoShred   == [at |-> "idle", newMark |-> FALSE, erased |-> FALSE, pending |-> FALSE, left |-> {}]

Rebuilt == [has |-> Scanned(NothingSeen, 0), wm |-> LastLsn, clean |-> FALSE]
RebuiltAttr == [has |-> Scanned(NothingSeen, 0), wm |-> LogHead - 1, dirty |-> LogHead > 0]

DerivedInit ==
    /\ episodes = << >> /\ key = [alive |-> FALSE, gen |-> 0] /\ shredded = FALSE
    /\ marker = FALSE
    /\ views = [v \in Views |-> EmptyView] /\ unmaterialized = FALSE
    /\ snapshots = [v \in Views |-> NoFile]
    /\ attr = EmptyAttr /\ attrFile = NoFile /\ attrIncomplete = FALSE /\ overtaken = FALSE
    /\ saving = NoFile
    /\ appender = [a \in Appenders |-> [at |-> "idle", lsn |-> 0]]
    /\ shred = NoShred
    /\ process = "up" /\ mode = "normal"
    /\ budget = [shreds |-> 0, stops |-> 0]

Uses(what, bound) == budget[what] < bound /\ budget' = [budget EXCEPT ![what] = @ + 1]

-----------------------------------------------------------------------------
(* append_internal *)

\* The side of index_gate that is held.  The applier of the consensus holds none.
Shared == ~Replicated /\ \E a \in Appenders : appender[a].at # "idle"
Exclusive == shred.at \notin {"idle", "receipt", "unflag"}
GateFree == ~Shared /\ ~Exclusive

\* The record is sealed with the key of the subject, created if there is none.
Logs(kind) ==
    /\ LogHead < MaxEpisodes
    /\ key' = IF kind = "subject" /\ ~key.alive
              THEN [alive |-> TRUE, gen |-> key.gen + 1] ELSE key
    /\ episodes' = Append(episodes, [kind |-> kind, key |-> key'.gen])

\* Mutant: the gate is not taken.
AppendWithoutGate(a, kind) ==
    /\ process = "up" /\ appender[a].at = "idle"
    /\ Logs(kind)
    /\ IF mode = "log_only" THEN UNCHANGED appender
       ELSE appender' = [appender EXCEPT ![a] = [at |-> "views", lsn |-> LogHead]]
    /\ UNCHANGED <<shredded, marker, snapshots, attrFile, overtaken, ram, saving, shred, process, mode, budget>>

\* LOG_ONLY writes the log and nothing else, without the gate.
AppendLogs(a, kind) ==
    /\ process = "up" /\ appender[a].at = "idle"
    /\ mode = "log_only" \/ Replicated \/ ~Exclusive
    /\ Logs(kind)
    /\ IF mode = "log_only" THEN UNCHANGED appender
       ELSE appender' = [appender EXCEPT ![a] = [at |-> "views", lsn |-> LogHead]]
    /\ UNCHANGED <<shredded, marker, snapshots, attrFile, overtaken, ram, saving, shred, process, mode, budget>>

\* The appender applies the episode it holds in clear.
InHand(lsn) == IF Sealed(lsn) THEN "clear" ELSE "blank"

AppendAppliesViews(a) ==
    /\ appender[a].at = "views"
    /\ views' = [v \in Views |-> ViewApplied(views[v], appender[a].lsn, InHand(appender[a].lsn))]
    /\ appender' = [appender EXCEPT ![a].at = "attr"]
    /\ UNCHANGED <<disk, unmaterialized, attr, attrIncomplete, saving, shred, process, mode, budget>>

\* The index is locked while it is being saved.
AppendAppliesAttr(a) ==
    /\ appender[a].at = "attr" /\ saving = NoFile
    /\ attr' = Indexed(attr, appender[a].lsn, InHand(appender[a].lsn))
    /\ appender' = [appender EXCEPT ![a] = [at |-> "idle", lsn |-> 0]]
    /\ UNCHANGED <<disk, views, unmaterialized, attrIncomplete, saving, shred, process, mode, budget>>

-----------------------------------------------------------------------------
(* Checkpoints and rebuilds *)

AsFile(x) == [has |-> x.has, wm |-> x.wm]

\* Mutant: the checkpoint does not wait for the appends in flight.
CheckpointViewAtOnce(v) ==
    /\ process = "up" /\ ~Exclusive
    /\ ~unmaterialized /\ ~views[v].clean
    /\ snapshots' = [snapshots EXCEPT ![v] = AsFile(views[v])]
    /\ views' = [views EXCEPT ![v].clean = TRUE]
    /\ UNCHANGED <<episodes, key, shredded, marker, attrFile, overtaken, unmaterialized, attr, attrIncomplete,
                   saving, appender, shred, process, mode, budget>>

\* checkpoint_view under the lock of the registry, taken inside the gate.
CheckpointView(v) ==
    /\ process = "up" /\ GateFree
    /\ ~unmaterialized /\ ~views[v].clean
    /\ snapshots' = [snapshots EXCEPT ![v] = AsFile(views[v])]
    /\ views' = [views EXCEPT ![v].clean = TRUE]
    /\ UNCHANGED <<episodes, key, shredded, marker, attrFile, overtaken, unmaterialized, attr, attrIncomplete,
                   saving, appender, shred, process, mode, budget>>

\* The gate is dropped once the index is locked, before it is saved.
CheckpointAttr ==
    /\ process = "up" /\ GateFree /\ saving = NoFile
    /\ ~attrIncomplete /\ attr.dirty
    /\ saving' = AsFile(attr)
    /\ UNCHANGED <<disk, ram, appender, shred, process, mode, budget>>

AttrSaved ==
    /\ saving # NoFile
    /\ attrFile' = saving /\ saving' = NoFile
    /\ overtaken' = (overtaken \/ shred.at = "install")
    /\ attr' = [attr EXCEPT !.dirty = FALSE]
    /\ UNCHANGED <<episodes, key, shredded, marker, snapshots, views, unmaterialized, attrIncomplete,
                   appender, shred, process, mode, budget>>

\* Engine::rebuild of one view or of all of them; only the latter makes the
\* views describe the log again.
Rebuild(which) ==
    /\ process = "up" /\ GateFree
    /\ views' = [v \in Views |-> IF v \in which THEN Rebuilt ELSE [views[v] EXCEPT !.clean = FALSE]]
    /\ unmaterialized' = (unmaterialized /\ which # Views)
    /\ UNCHANGED <<disk, attr, attrIncomplete, saving, appender, shred, process, mode, budget>>

-----------------------------------------------------------------------------
(* shred_effect, one call at a time (trusted_admin.rs) *)

Then(at) == shred' = [shred EXCEPT !.at = at]

\* The gate is taken, the mark is written first.
ShredMarks ==
    /\ process = "up" /\ shred.at = "idle" /\ GateFree
    /\ Uses("shreds", MaxShreds)
    /\ shredded' = TRUE
    /\ shred' = [NoShred EXCEPT !.at = "check", !.newMark = ~shredded]
    /\ UNCHANGED <<episodes, key, marker, snapshots, attrFile, overtaken, ram, saving, appender, process, mode>>

\* ensure_crypto_shred_allowed: a hold on records of the subject vetoes, and the
\* mark goes.
HoldsNow == {l \in Logged : Episode(l).kind = "hold"}
Vetoed == HoldsNow # {} /\ \E l \in Logged : Sealed(l)
Erased == \E l \in Logged : Sealed(l) /\ ~Opens(l)

ShredChecks ==
    /\ shred.at = "check"
    /\ IF Vetoed
       THEN shredded' = (shredded /\ ~shred.newMark) /\ shred' = NoShred
       ELSE shred' = [shred EXCEPT !.at = "flag", !.erased = Erased] /\ UNCHANGED shredded
    /\ UNCHANGED <<episodes, key, marker, snapshots, attrFile, overtaken, ram, saving, appender, process, mode,
                   budget>>

ShredFlags ==
    /\ shred.at = "flag"
    /\ marker' = TRUE
    /\ shred' = [shred EXCEPT !.at = "destroy", !.pending = marker]
    /\ UNCHANGED <<episodes, key, shredded, snapshots, attrFile, overtaken, ram, saving, appender, process, mode,
                   budget>>

\* Mutant: the mark goes again even if a key was destroyed.
ShredDestroysUnmarked ==
    /\ shred.at = "destroy"
    /\ key' = [key EXCEPT !.alive = FALSE]
    /\ shredded' = (shredded /\ ~shred.newMark)
    /\ IF key.alive \/ shred.pending
       THEN Then("views") /\ UNCHANGED marker
       ELSE shred' = NoShred /\ marker' = FALSE
    /\ UNCHANGED <<episodes, snapshots, attrFile, overtaken, ram, saving, appender, process, mode, budget>>

\* KeyStore::shred.  Without a key, nothing erased and no shred to finish, all
\* is undone.
ShredDestroys ==
    /\ shred.at = "destroy"
    /\ key' = [key EXCEPT !.alive = FALSE]
    /\ shredded' = (shredded /\ (key.alive \/ shred.erased \/ ~shred.newMark))
    /\ IF key.alive \/ shred.pending
       THEN Then("views") /\ UNCHANGED marker
       ELSE shred' = NoShred /\ marker' = FALSE
    /\ UNCHANGED <<episodes, snapshots, attrFile, overtaken, ram, saving, appender, process, mode, budget>>

ShredRebuildsViews ==
    /\ shred.at = "views"
    /\ views' = [v \in Views |-> Rebuilt] /\ unmaterialized' = FALSE
    /\ shred' = [shred EXCEPT !.at = "snapshots", !.left = Views]
    /\ UNCHANGED <<disk, attr, attrIncomplete, saving, appender, process, mode, budget>>

ShredCheckpoints(v) ==
    /\ shred.at = "snapshots" /\ v \in shred.left
    /\ snapshots' = [snapshots EXCEPT ![v] = AsFile(views[v])]
    /\ views' = [views EXCEPT ![v].clean = TRUE]
    /\ shred' = [shred EXCEPT !.left = @ \ {v}, !.at = IF shred.left = {v} THEN "save" ELSE @]
    /\ UNCHANGED <<episodes, key, shredded, marker, attrFile, overtaken, unmaterialized, attr, attrIncomplete,
                   saving, appender, process, mode, budget>>

\* The new index is saved before it is installed, without a lock.
ShredSavesAttr ==
    /\ shred.at = "save"
    /\ attrFile' = AsFile(RebuiltAttr) /\ overtaken' = FALSE
    /\ Then("install")
    /\ UNCHANGED <<episodes, key, shredded, marker, snapshots, ram, saving, appender, process, mode,
                   budget>>

\* ... and the gate is dropped.
ShredInstallsAttr ==
    /\ shred.at = "install" /\ saving = NoFile
    /\ attr' = [RebuiltAttr EXCEPT !.dirty = FALSE] /\ attrIncomplete' = FALSE
    /\ Then("receipt")
    /\ UNCHANGED <<disk, views, unmaterialized, saving, appender, process, mode, budget>>

\* The receipt is an append like any other; its steps are taken together.
ShredReceipt ==
    /\ shred.at = "receipt" /\ saving = NoFile
    /\ Logs("other")
    /\ IF mode = "log_only" THEN UNCHANGED <<views, attr>>
       ELSE /\ views' = [v \in Views |-> ViewApplied(views[v], LogHead, "blank")]
            /\ attr' = Indexed(attr, LogHead, "blank")
    /\ Then("unflag")
    /\ UNCHANGED <<shredded, marker, snapshots, attrFile, overtaken, unmaterialized, attrIncomplete, saving,
                   appender, process, mode, budget>>

ShredUnflags ==
    /\ shred.at = "unflag"
    /\ marker' = FALSE /\ shred' = NoShred
    /\ UNCHANGED <<episodes, key, shredded, snapshots, attrFile, overtaken, ram, saving, appender, process, mode,
                   budget>>

-----------------------------------------------------------------------------
(* The end of the process, and the boot *)

Stop ==
    /\ process # "down"
    /\ Uses("stops", MaxStops)
    /\ process' = "down"
    /\ views' = [v \in Views |-> EmptyView] /\ unmaterialized' = FALSE
    /\ attr' = EmptyAttr /\ attrIncomplete' = FALSE
    /\ saving' = NoFile /\ shred' = NoShred
    /\ appender' = [a \in Appenders |-> [at |-> "idle", lsn |-> 0]]
    /\ UNCHANGED <<disk, mode>>

\* catch_up: the watermark of the snapshot decides where the replay starts,
\* and 0 means an empty view.
CaughtUp(f) ==
    LET from == IF f.wm > 0 THEN f.wm + 1 ELSE 0
    IN [has |-> Scanned(IF f.wm > 0 THEN f.has ELSE NothingSeen, from),
        wm  |-> IF f.wm > LastLsn THEN f.wm ELSE LastLsn,
        clean |-> TRUE]

AttrCaughtUp ==
    [has |-> Scanned(attrFile.has, attrFile.wm + 1),
     wm  |-> IF attrFile.wm > LogHead - 1 THEN attrFile.wm ELSE LogHead - 1,
     dirty |-> attrFile.wm < LogHead - 1]

\* The views come first: rebuilt if a shred was interrupted, else left empty
\* if the replay is skipped, else caught up; in the first and the last case
\* their snapshots are saved.
BootViews(m) ==
    /\ process = "down"
    /\ mode' = m /\ attrIncomplete' = (m # "normal")
    /\ process' = "attr"
    /\ \/ /\ marker
          /\ views' = [v \in Views |-> [Rebuilt EXCEPT !.clean = TRUE]]
          /\ snapshots' = [v \in Views |-> AsFile(Rebuilt)]
          /\ attr' = IF m = "normal" THEN RebuiltAttr ELSE EmptyAttr
          /\ UNCHANGED unmaterialized
       \/ /\ ~marker /\ m # "normal"
          /\ unmaterialized' = TRUE
          /\ attr' = [has |-> attrFile.has, wm |-> attrFile.wm, dirty |-> FALSE]
          /\ UNCHANGED <<views, snapshots>>
       \/ /\ ~marker /\ m = "normal"
          /\ views' = [v \in Views |-> CaughtUp(snapshots[v])]
          /\ snapshots' = [v \in Views |-> AsFile(CaughtUp(snapshots[v]))]
          /\ attr' = AttrCaughtUp
          /\ UNCHANGED unmaterialized
    /\ UNCHANGED <<episodes, key, shredded, marker, attrFile, overtaken, saving, appender, shred, budget>>

\* Mutant: the index is saved only if something was applied to it.
BootAttrIfDirty ==
    /\ process = "attr"
    /\ IF attr.dirty THEN attrFile' = AsFile(attr) ELSE UNCHANGED attrFile
    /\ overtaken' = (overtaken /\ ~marker)
    /\ attr' = [attr EXCEPT !.dirty = FALSE]
    /\ process' = IF marker THEN "unflag" ELSE "up"
    /\ UNCHANGED <<episodes, key, shredded, marker, snapshots, views, unmaterialized, attrIncomplete,
                   saving, appender, shred, mode, budget>>

BootAttr ==
    /\ process = "attr"
    /\ IF marker \/ attr.dirty THEN attrFile' = AsFile(attr) ELSE UNCHANGED attrFile
    /\ overtaken' = (overtaken /\ ~marker)
    /\ attr' = [attr EXCEPT !.dirty = FALSE]
    /\ process' = IF marker THEN "unflag" ELSE "up"
    /\ UNCHANGED <<episodes, key, shredded, marker, snapshots, views, unmaterialized, attrIncomplete,
                   saving, appender, shred, mode, budget>>

BootUnflags ==
    /\ process = "unflag"
    /\ marker' = FALSE /\ process' = "up"
    /\ UNCHANGED <<episodes, key, shredded, snapshots, attrFile, overtaken, ram, saving, appender, shred, mode,
                   budget>>

-----------------------------------------------------------------------------
ShredStep ==
    \/ ShredMarks \/ ShredChecks \/ ShredFlags \/ ShredDestroys \/ ShredRebuildsViews
    \/ \E v \in Views : ShredCheckpoints(v)
    \/ ShredSavesAttr \/ ShredInstallsAttr \/ ShredReceipt \/ ShredUnflags

DerivedNext ==
    \/ \E a \in Appenders, kind \in Kinds : AppendLogs(a, kind)
    \/ \E a \in Appenders : AppendAppliesViews(a) \/ AppendAppliesAttr(a)
    \/ \E v \in Views : CheckpointView(v) \/ Rebuild({v})
    \/ Rebuild(Views)
    \/ CheckpointAttr \/ AttrSaved
    \/ ShredStep
    \/ Stop \/ \E m \in BootModes : BootViews(m)
    \/ BootAttr \/ BootUnflags

DerivedSpec == DerivedInit /\ [][DerivedNext]_derivedVars

-----------------------------------------------------------------------------
(* Properties *)

Content == [Lsns -> Values]

DerivedTypeOK ==
    /\ episodes \in Seq([kind : Kinds \cup {"other"}, key : 0 .. MaxEpisodes])
    /\ key \in [alive : BOOLEAN, gen : 0 .. MaxEpisodes]
    /\ {shredded, marker, unmaterialized, attrIncomplete, overtaken} \subseteq BOOLEAN
    /\ \A v \in Views : views[v].has \in Content /\ views[v].wm \in Lsns \cup {0}
    /\ \A v \in Views : snapshots[v].has \in Content /\ snapshots[v].wm \in Lsns \cup {-1, 0}
    /\ attr.has \in Content /\ attr.wm \in Lsns \cup {-1} /\ attr.dirty \in BOOLEAN
    /\ {attrFile.has, saving.has} \subseteq Content
    /\ appender \in [Appenders -> [at : {"idle", "views", "attr"}, lsn : Lsns \cup {0}]]
    /\ process \in {"down", "attr", "unflag", "up"} /\ mode \in Modes
    /\ budget \in [shreds : 0 .. MaxShreds, stops : 0 .. MaxStops]

\* A snapshot has every episode up to its watermark, once, and none after: the
\* next boot replays only what is after (checkpoint_views, checkpoint_attr and
\* the marks that forbid them).
Faithful(f) ==
    \A l \in Lsns : f.has[l] \in (IF l <= f.wm THEN {"clear", "blank"} ELSE {"none"})
SnapshotsFaithful ==
    /\ \A v \in Views : snapshots[v].wm > 0 => Faithful(snapshots[v])
    /\ attrFile.wm >= 0 => Faithful(attrFile)

\* No scan of the log fails on a record that a later key of the subject cannot
\* open (a destroyed key always leaves its mark).  Between writes, views that do
\* not say they are incomplete have the whole log, each episode once; so has the
\* attribute index.
Quiet == process = "up" /\ shred.at = "idle" /\ \A a \in Appenders : appender[a].at = "idle"
AllHave(has) == \A l \in Lsns : has[l] \in (IF l < LogHead THEN {"clear", "blank"} ELSE {"none"})
ServedWhole ==
    /\ \A l \in Logged : ~Aborts(l)
    /\ Quiet /\ mode # "log_only" =>
        /\ ~unmaterialized => \A v \in Views : AllHave(views[v].has)
        /\ ~attrIncomplete => AllHave(attr.has)

\* Clear text of a record whose key was destroyed is left, in memory or in a
\* snapshot, only as long as the file that makes the next boot rebuild exists.
LeftIn(has) == \E l \in Logged : has[l] = "clear" /\ Sealed(l) /\ ~Opens(l)
ErasedOrFlagged ==
    \/ marker
    \/ /\ \A v \in Views : ~LeftIn(views[v].has) /\ ~LeftIn(snapshots[v].has)
       /\ ~LeftIn(attr.has) /\ ~LeftIn(attrFile.has)

\* Whatever overlaps, views and their snapshots keep no such text; the index
\* keeps some only after a checkpoint of it, captured before a shred began,
\* was written after the shred had written its own.
ErasedUnlessOvertaken ==
    \/ marker
    \/ /\ \A v \in Views : ~LeftIn(views[v].has) /\ ~LeftIn(snapshots[v].has)
       /\ overtaken \/ (~LeftIn(attr.has) /\ ~LeftIn(attrFile.has))

\* A key is never destroyed once a hold that covers it is in the log, except
\* in LOG_ONLY, where an append does not take the gate.
HoldsRespected ==
    [][key.alive /\ ~key'.alive /\ mode # "log_only" => ~Vetoed]_derivedVars
=============================================================================
