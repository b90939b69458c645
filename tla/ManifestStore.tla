----------------------------- MODULE ManifestStore -----------------------------
(***************************************************************************)
(* The directory of manifests (v6/manifest.rs).  A commit writes a new      *)
(* manifest file under the next generation number and then renames CURRENT, *)
(* which names that file and its digest, into place; the collection of old  *)
(* manifests reads CURRENT, lists the directory and unlinks, without the    *)
(* mutex that serialises the commits (engine.rs, collect_garbage).          *)
(*                                                                         *)
(* A rename or an unlink is visible at once and durable once the directory  *)
(* is synced; a power failure keeps any part of what is not.  A manifest is *)
(* stood for by the number of the attempt that wrote it, which is also its  *)
(* digest.  Temporary files are left out: nothing reads them.               *)
(***************************************************************************)
EXTENDS FiniteSets, FiniteSetsExt, Naturals

CONSTANTS
    Keep,            \* keep_manifests
    MaxAttempts,     \* bound: commits, which also bounds the generations
    MaxPrunes,       \* bound: collections of old manifests
    MaxManifestFaults,       \* bound: failing renames and syncs
    MaxManifestKills,        \* bound: kills of the process
    MaxPowerLosses   \* bound: power failures

ASSUME ManifestStoreAssumption ==
    {Keep, MaxAttempts, MaxPrunes, MaxManifestFaults, MaxManifestKills, MaxPowerLosses} \subseteq Nat

VARIABLES
    file,       \* file[g]: what the manifest file of generation g holds, 0 if none
    current,    \* what CURRENT says
    manifestSure,       \* file and current as a power failure cannot take back
    proxima,    \* the next number, if the last commit of this process gave one
    commit,     \* the commit under way
    prune,      \* the collection under way
    manifestAnswered,   \* the last manifest whose commit was answered Ok
    tried,      \* those tried since
    manifestUsed        \* the bounded events so far

manifestVars ==
    <<file, current, manifestSure, proxima, commit, prune, manifestAnswered, tried, manifestUsed>>

Gens == 1 .. MaxAttempts
Manifests == 0 .. MaxAttempts
NoCurrent == [gen |-> 0, digest |-> 0]
NoCommit == [at |-> "idle", gen |-> 0]
NoPrune == [at |-> "idle", kept |-> {}, doomed |-> {}]

Listed == {g \in Gens : file[g] # 0}
Highest(gs) == Max(gs \cup {0})

ManifestInit ==
    /\ file = [g \in Gens |-> 0] /\ current = NoCurrent
    /\ manifestSure = [file |-> file, current |-> current]
    /\ proxima = 0
    /\ commit = NoCommit /\ prune = NoPrune
    /\ manifestAnswered = 0 /\ tried = {}
    /\ manifestUsed = [attempts |-> 0, prunes |-> 0, faults |-> 0, kills |-> 0, powerLosses |-> 0]

ManifestSpends(what, bound) ==
    /\ manifestUsed[what] < bound
    /\ manifestUsed' = [manifestUsed EXCEPT ![what] = @ + 1]

------------------------------------------------------------------------------
(* Reading *)

\* load_from_current: the file CURRENT names, if it holds what was committed
Resolves == current.gen # 0 /\ file[current.gen] = current.digest

\* load: else the highest generation but the one the digest refused
LoadManifest ==
    IF Resolves THEN current.digest
    ELSE LET others == Listed \ {current.gen}
         IN IF others = {} THEN 0 ELSE file[Highest(others)]

------------------------------------------------------------------------------
(* commit *)

Goes(at) == commit' = [commit EXCEPT !.at = at]

\* The attempt under way
Attempt == manifestUsed.attempts

\* The number held in memory unless somebody else's file has it, else one above
\* the highest on disk
NextGeneration ==
    IF proxima # 0 /\ file[proxima] = 0 THEN proxima ELSE Highest(Listed) + 1

BeginCommit ==
    /\ commit.at = "idle"
    /\ ManifestSpends("attempts", MaxAttempts)
    /\ commit' = [at |-> "rename", gen |-> NextGeneration]
    /\ tried' = tried \cup {Attempt + 1}
    /\ UNCHANGED <<file, current, manifestSure, proxima, prune, manifestAnswered>>

RenameManifest ==
    /\ commit.at = "rename" /\ Goes("sync")
    /\ file' = [file EXCEPT ![commit.gen] = Attempt]
    /\ UNCHANGED <<current, manifestSure, proxima, prune, manifestAnswered, tried, manifestUsed>>

\* sync_dir makes durable whatever the directory shows, unlinks included
SyncManifest ==
    /\ commit.at = "sync" /\ Goes("current")
    /\ manifestSure' = [file |-> file, current |-> current]
    /\ UNCHANGED <<file, current, proxima, prune, manifestAnswered, tried, manifestUsed>>

RenameCurrent ==
    /\ commit.at = "current" /\ Goes("answer")
    /\ current' = [gen |-> commit.gen, digest |-> Attempt]
    /\ UNCHANGED <<file, manifestSure, proxima, prune, manifestAnswered, tried, manifestUsed>>

\* Mutant of SyncCurrent: Ok is answered before the directory is synced
SyncCurrentSkipped ==
    /\ commit.at = "answer" /\ commit' = NoCommit
    /\ proxima' = commit.gen + 1
    /\ manifestAnswered' = Attempt /\ tried' = {}
    /\ \/ UNCHANGED <<prune, manifestUsed>>
       \/ prune.at = "idle" /\ prune' = [prune EXCEPT !.at = "due"] /\ ManifestSpends("prunes", MaxPrunes)
    /\ UNCHANGED <<file, current, manifestSure>>

\* The commit may be a garbage collection's, which then goes on, without the
\* mutex, to the old manifests
SyncCurrent ==
    /\ commit.at = "answer" /\ commit' = NoCommit
    /\ manifestSure' = [file |-> file, current |-> current]
    /\ proxima' = commit.gen + 1
    /\ manifestAnswered' = Attempt /\ tried' = {}
    /\ \/ UNCHANGED <<prune, manifestUsed>>
       \/ prune.at = "idle" /\ prune' = [prune EXCEPT !.at = "due"] /\ ManifestSpends("prunes", MaxPrunes)
    /\ UNCHANGED <<file, current>>

\* Any of these calls may fail instead; the commit is answered Err and the next
\* one lists the directory
CommitFails ==
    /\ commit.at # "idle" /\ ManifestSpends("faults", MaxManifestFaults)
    /\ commit' = NoCommit /\ proxima' = 0
    /\ UNCHANGED <<file, current, manifestSure, prune, manifestAnswered, tried>>

CommitStep == RenameManifest \/ SyncManifest \/ RenameCurrent \/ SyncCurrent \/ CommitFails

------------------------------------------------------------------------------
(* prune_old_manifests *)

PruneReads ==
    /\ prune.at = "due"
    /\ prune' = [prune EXCEPT !.at = "list", !.kept = IF Resolves THEN {current.gen} ELSE {}]
    /\ UNCHANGED <<file, current, manifestSure, proxima, commit, manifestAnswered, tried, manifestUsed>>

\* The last Keep of the directory stay, and what CURRENT named
PruneLists ==
    /\ prune.at = "list"
    /\ LET last == {g \in Listed : Cardinality({h \in Listed : h > g}) < Highest({Keep, 1})}
       IN prune' = [prune EXCEPT !.at = "unlink", !.doomed = Listed \ (last \cup prune.kept)]
    /\ UNCHANGED <<file, current, manifestSure, proxima, commit, manifestAnswered, tried, manifestUsed>>

\* In ascending order; the first unlink that fails ends it
PruneUnlinks ==
    /\ prune.at = "unlink"
    /\ \/ /\ prune.doomed # {}
          /\ LET g == Min(prune.doomed)
             IN /\ file' = [file EXCEPT ![g] = 0]
                /\ prune' = [prune EXCEPT !.doomed = @ \ {g}]
          /\ UNCHANGED manifestUsed
       \/ prune.doomed = {} /\ prune' = NoPrune /\ UNCHANGED <<file, manifestUsed>>
       \/ ManifestSpends("faults", MaxManifestFaults) /\ prune' = NoPrune /\ UNCHANGED file
    /\ UNCHANGED <<current, manifestSure, proxima, commit, manifestAnswered, tried>>

------------------------------------------------------------------------------
(* Failures.  A boot only loads. *)

Restarts == commit' = NoCommit /\ prune' = NoPrune /\ proxima' = 0

ManifestKill ==
    /\ ManifestSpends("kills", MaxManifestKills) /\ Restarts
    /\ UNCHANGED <<file, current, manifestSure, manifestAnswered, tried>>

ManifestPowerLoss ==
    /\ ManifestSpends("powerLosses", MaxPowerLosses) /\ Restarts
    /\ \E back \in SUBSET Gens :
          file' = [g \in Gens |-> IF g \in back THEN manifestSure.file[g] ELSE file[g]]
    /\ current' \in {current, manifestSure.current}
    /\ manifestSure' = [file |-> file', current |-> current']
    /\ UNCHANGED <<manifestAnswered, tried>>

ManifestNext ==
    \/ BeginCommit \/ CommitStep
    \/ PruneReads \/ PruneLists \/ PruneUnlinks
    \/ ManifestKill \/ ManifestPowerLoss

ManifestSpec == ManifestInit /\ [][ManifestNext]_manifestVars

------------------------------------------------------------------------------
(* Properties *)

ManifestTypeOK ==
    /\ file \in [Gens -> Manifests]
    /\ current \in [gen : 0 .. MaxAttempts, digest : Manifests]
    /\ manifestSure \in [file : [Gens -> Manifests],
                         current : [gen : 0 .. MaxAttempts, digest : Manifests]]
    /\ proxima \in 0 .. MaxAttempts + 1
    /\ commit \in [at : {"idle", "rename", "sync", "current", "answer"}, gen : 0 .. MaxAttempts]
    /\ prune \in [at : {"idle", "due", "list", "unlink"}, kept : SUBSET Gens, doomed : SUBSET Gens]
    /\ manifestAnswered \in Manifests /\ tried \subseteq Manifests
    /\ manifestUsed \in [attempts : 0 .. MaxAttempts, prunes : 0 .. MaxPrunes,
                         faults : 0 .. MaxManifestFaults,
                         kills : 0 .. MaxManifestKills, powerLosses : 0 .. MaxPowerLosses]

\* Whenever the process dies, the next boot finds the last manifest whose
\* commit was answered Ok, or one tried since: never an older one, never one
\* that was given up before.  (This is what the commits of HrklWriter,
\* HrklGenerations and LegalHolds take for granted.)
\* CURRENT always names a manifest that is there and holds what was committed
\* (prune_old_manifests: "o ponteiro tem de continuar a resolver").
LoadsCommitted ==
    /\ LoadManifest \in {manifestAnswered} \cup tried
    /\ current # NoCurrent => Resolves
==============================================================================
