------------------------------ MODULE MCWorkers ------------------------------
(***************************************************************************)
(* Three threads that run in the background of a node and must get their   *)
(* work done: the worker that syncs the tail of the log under GroupCommit  *)
(* (HrklWriter), the thread that packs sealed segments (HrklGenerations)   *)
(* and the workers of the sentinel (Sentinel).  They share no state any    *)
(* property here looks at, and a behaviour is one of a part: the states    *)
(* are the sum of the parts' and not their product.                        *)
(***************************************************************************)
EXTENDS HrklWriter, Sentinel

CONSTANTS
    Segments, Readers, Profiles, NoProfile, MaxGen, Copies, Grace, CacheLimit,
    MaxClock, MaxPacks, MaxReads, MaxRetentions, MaxRots

VARIABLES
    part,  \* the part that moves
    \* HrklGenerations, whose first four names HrklWriter also has
    gManifest, gHrkm, gDegraded, gMode, gUsed,
    file, receipts, lock, queue, job, doomed, reader, cache, clock

Gen == INSTANCE HrklGenerations
           WITH manifest <- gManifest, hrkm <- gHrkm, degraded <- gDegraded, mode <- gMode,
                used <- gUsed, MaxFaults <- 0, MaxCrashes <- 0

genVars == <<gManifest, gHrkm, gDegraded, gMode, gUsed, file, receipts, lock, queue, job,
             doomed, reader, cache, clock>>

workersVars == <<part, vars, sentinelVars, genVars>>

WorkersInit ==
    /\ part \in {"fsync", "pack", "sentinel"}
    /\ Init /\ SentinelInit /\ Gen!Init

\* A step of one part
Fsync(A)  == part = "fsync" /\ A /\ UNCHANGED <<part, sentinelVars, genVars>>
Packs(A)  == part = "pack" /\ A /\ UNCHANGED <<part, vars, sentinelVars>>
Watch(A)  == part = "sentinel" /\ A /\ UNCHANGED <<part, vars, genVars>>

WorkersNext == Fsync(Next) \/ Packs(Gen!Next) \/ Watch(SentinelNext)

\* The fairness of each part, restricted to the behaviours of the part
WorkersFairness ==
    /\ WF_workersVars(Fsync(Operation /\ UNCHANGED always))
    /\ WF_workersVars(Fsync(Boot /\ UNCHANGED always))
    /\ WF_workersVars(Fsync(Worker /\ UNCHANGED always))
    /\ WF_workersVars(Packs(Gen!PackStep))
    /\ WF_workersVars(Watch(WorkersStep))

WorkersSpec == WorkersInit /\ [][WorkersNext]_workersVars /\ WorkersFairness

\* A damaged segment does not keep the others from being packed: see HrklGenerations.
OthersArePacked == Gen!OthersArePacked
=============================================================================
