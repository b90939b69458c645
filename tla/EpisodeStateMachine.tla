------------------------- MODULE EpisodeStateMachine -------------------------
(***************************************************************************)
(* The replicated state machine of HeraclitusDB (heraclitus-raft,          *)
(* consensus.rs): on every node it applies the committed entries of raft   *)
(* to the local episode log, records how far it got in `sm_meta.bin`,      *)
(* builds and installs snapshots, and recovers from a kill.                *)
(*                                                                         *)
(* Raft itself is openraft, outside the repository: it decides one         *)
(* sequence of committed entries, hands each node the next ones, and hands *)
(* a node that lags the snapshot of another.  The episode log is durable   *)
(* when append_replicated returns (FsyncPolicy::Always, which the          *)
(* configuration enforces under replication): HrklWriter is about that.    *)
(***************************************************************************)
EXTENDS Integers, Sequences

CONSTANTS
    Nodes,
    MaxEntries,      \* bound: committed entries
    MaxClock,        \* bound: clock of the leader that proposes an entry
    MaxBatch,        \* bound: entries handed to one `apply`
    MaxCrashes,      \* bound: process kills
    MaxFaults,       \* bound: failed calls of the file system
    BuildsAnytime,   \* a snapshot is built between a restart or an installation and its end
    OlderSnapshots   \* a node is handed a snapshot shorter than its log

ASSUME ConstantsAssumption ==
    /\ {MaxEntries, MaxClock, MaxCrashes, MaxFaults} \subseteq Nat
    /\ MaxBatch \in Nat \ {0}
    /\ {BuildsAnytime, OlderSnapshots} \subseteq BOOLEAN

VARIABLES
    committed,  \* the entries raft committed, with what they add up to
    agreed,     \* history: the episodes of the committed entries, stamped
    received,   \* how many of the committed entries the raft log of each node has had
    log,        \* the episode log of each node
    meta,       \* sm_meta.bin of each node
    state,      \* SmState of each node
    current,    \* SmState.current_snapshot
    task,       \* what the worker of openraft runs on each node
    mode,       \* "up", "down", "failed" (the worker stopped) or "refused"
    answered,   \* history: pairs of an entry and the LSN `apply` answered for it
    used        \* how much of each bound is spent

raft  == <<committed, agreed, received>>
disk  == <<log, meta>>
vars  == <<raft, disk, state, current, task, mode, answered, used>>

-----------------------------------------------------------------------------
Kinds == {"normal", "blank", "membership"}
Stamps == 0 .. MaxClock + MaxEntries
Indices == 0 .. MaxEntries

\* An episode is named after the entry that carries it.
Episode == [id : 1 .. MaxEntries, ts : Stamps]
Entry == [kind : Kinds, clock : 0 .. MaxClock, normals : Indices, member : Indices]
Episodes == UNION {[1 .. k -> Episode] : k \in Indices}

Unread == -1
SmState(applied, member, normals, skip, lastTs) ==
    [applied |-> applied, member |-> member, normals |-> normals, skip |-> skip,
     lastTs |-> lastTs]
Sidecar(applied, member, normals) ==
    [known |-> TRUE, applied |-> applied, member |-> member, normals |-> normals]
NoMeta == [known |-> FALSE, applied |-> 0, member |-> 0, normals |-> 0]
Unstarted == SmState(0, 0, 0, 0, Unread)
NoSnapshot == [last |-> 0, member |-> 0, episodes |-> << >>]
Idle == [kind |-> "idle"]

\* What the entries up to index i add up to.
NormalsUpTo(i) == IF i = 0 THEN 0 ELSE committed[i].normals
MemberUpTo(i) == IF i = 0 THEN 0 ELSE committed[i].member

LastTs(l) == IF l = << >> THEN 0 ELSE l[Len(l)].ts

\* carimbo_deterministico
Stamp(previous, clock) == IF clock > previous THEN clock ELSE previous + 1

Init ==
    /\ committed = << >> /\ agreed = << >> /\ received = [n \in Nodes |-> 0]
    /\ log = [n \in Nodes |-> << >>]
    /\ meta = [n \in Nodes |-> NoMeta]
    /\ state = [n \in Nodes |-> Unstarted]
    /\ current = [n \in Nodes |-> NoSnapshot]
    /\ task = [n \in Nodes |-> Idle]
    /\ mode = [n \in Nodes |-> "down"]
    /\ answered = {}
    /\ used = [crashes |-> 0, faults |-> 0]

Spend(what, bound) == used[what] < bound /\ used' = [used EXCEPT ![what] = @ + 1]

\* Raft commits one more entry; a write carries the clock of its leader.
Commit(kind, clock) ==
    /\ Len(committed) < MaxEntries
    /\ kind # "normal" => clock = 0
    /\ agreed' = IF kind = "normal"
                 THEN Append(agreed, [id |-> Len(committed) + 1, ts |-> Stamp(LastTs(agreed), clock)])
                 ELSE agreed
    /\ committed' = Append(committed,
           [kind |-> kind, clock |-> clock, normals |-> Len(agreed'),
            member |-> IF kind = "membership" THEN Len(committed) + 1
                       ELSE MemberUpTo(Len(committed))])
    /\ UNCHANGED <<received, disk, state, current, task, mode, answered, used>>

-----------------------------------------------------------------------------
(* open_durable *)

\* A log without a sidecar, or shorter than the sidecar says, is refused.
OpenAccepts(n) ==
    /\ ~meta[n].known => log[n] = << >>
    /\ meta[n].normals <= Len(log[n])

\* Mutant of Open: nothing is skipped after a restart.
OpenSkipsNothing(n) ==
    /\ mode[n] = "down"
    /\ mode' = [mode EXCEPT ![n] = "up"]
    /\ state' = [state EXCEPT ![n] =
           SmState(meta[n].applied, meta[n].member, meta[n].normals, 0, Unread)]
    /\ UNCHANGED <<raft, disk, current, task, answered, used>>

Open(n) ==
    /\ mode[n] = "down"
    /\ IF OpenAccepts(n)
       THEN /\ mode' = [mode EXCEPT ![n] = "up"]
            /\ state' = [state EXCEPT ![n] =
                   SmState(meta[n].applied, meta[n].member, meta[n].normals,
                           Len(log[n]) - meta[n].normals, Unread)]
       ELSE mode' = [mode EXCEPT ![n] = "refused"] /\ UNCHANGED state
    /\ UNCHANGED <<raft, disk, current, task, answered, used>>

-----------------------------------------------------------------------------
(* apply: the mutex of `state` is held from the first entry to persist_sm_meta *)

Ready(n) == mode[n] = "up" /\ task[n].kind = "idle"
Applying(n) == task[n].kind = "apply"
Batch(upto, out) == [kind |-> "apply", upto |-> upto, out |-> out]

ApplyBegin(n, upto) ==
    /\ Ready(n)
    /\ upto \in state[n].applied + 1 .. Len(committed)
    /\ upto - state[n].applied <= MaxBatch
    /\ received' = [received EXCEPT ![n] = IF upto > @ THEN upto ELSE @]
    /\ task' = [task EXCEPT ![n] = Batch(upto, {})]
    /\ UNCHANGED <<committed, agreed, disk, state, current, mode, answered, used>>

\* The entry the worker of n is at, and what is to do with it.
At(n) == state[n].applied + 1
Reached(n) == Applying(n) /\ mode[n] = "up" /\ At(n) <= task[n].upto
IsNormal(n) == committed[At(n)].kind = "normal"
Answer(n, lsn) ==
    task' = [task EXCEPT ![n] = Batch(task[n].upto, task[n].out \cup {<<At(n), lsn>>})]

\* The entry at hand is applied, and one more episode counted.
Counts(n, skip, lastTs) ==
    state' = [state EXCEPT ![n] =
        SmState(At(n), state[n].member, state[n].normals + 1, skip, lastTs)]

\* Blank and Membership entries leave no episode.
ApplyOther(n) ==
    /\ Reached(n) /\ ~IsNormal(n)
    /\ state' = [state EXCEPT ![n] =
           SmState(At(n), IF committed[At(n)].kind = "membership" THEN At(n) ELSE state[n].member,
                   state[n].normals, state[n].skip, state[n].lastTs)]
    /\ UNCHANGED <<raft, disk, current, task, mode, answered, used>>

\* Mutant of ApplySkip: the LSN answered is the one after the episode.
ApplySkipAnswersNext(n) ==
    /\ Reached(n) /\ IsNormal(n) /\ state[n].skip > 0
    /\ Counts(n, state[n].skip - 1, Unread)
    /\ Answer(n, state[n].normals + 1)
    /\ UNCHANGED <<raft, disk, current, mode, answered, used>>

\* Mutant of ApplySkip: every later episode is skipped too.
ApplySkipForever(n) ==
    /\ Reached(n) /\ IsNormal(n) /\ state[n].skip > 0
    /\ Counts(n, state[n].skip, Unread)
    /\ Answer(n, state[n].normals)
    /\ UNCHANGED <<raft, disk, current, mode, answered, used>>

\* The episode reached the log before the kill; only its entry is counted.
ApplySkip(n) ==
    /\ Reached(n) /\ IsNormal(n) /\ state[n].skip > 0
    /\ Counts(n, state[n].skip - 1, Unread)
    /\ Answer(n, state[n].normals)
    /\ UNCHANGED <<raft, disk, current, mode, answered, used>>

\* The episode of entry At(n) as this node stamps it.
Stamped(n) ==
    [id |-> At(n),
     ts |-> Stamp(IF state[n].lastTs = Unread THEN LastTs(log[n]) ELSE state[n].lastTs,
                  committed[At(n)].clock)]

ApplyEpisode(n) ==
    /\ Reached(n) /\ IsNormal(n) /\ state[n].skip = 0
    /\ log' = [log EXCEPT ![n] = Append(@, Stamped(n))]
    /\ Counts(n, 0, Stamped(n).ts)
    /\ Answer(n, Len(log[n]))
    /\ UNCHANGED <<raft, meta, current, mode, answered, used>>

\* Openraft stops the worker of a node whose storage returned an error.
Stops(n) == Spend("faults", MaxFaults) /\ mode' = [mode EXCEPT ![n] = "failed"]

\* append_replicated fails; the record may be in the log all the same.
ApplyFails(n) ==
    /\ Reached(n) /\ IsNormal(n) /\ state[n].skip = 0
    /\ Stops(n)
    /\ log' \in {log, [log EXCEPT ![n] = Append(@, Stamped(n))]}
    /\ state' = [state EXCEPT ![n] =
           SmState(state[n].applied, state[n].member, state[n].normals + 1, 0, state[n].lastTs)]
    /\ UNCHANGED <<raft, meta, current, task, answered>>

Recorded(n) == Sidecar(state[n].applied, state[n].member, state[n].normals)

\* persist_sm_meta, then the answers.
ApplyEnd(n) ==
    /\ Applying(n) /\ mode[n] = "up" /\ At(n) > task[n].upto
    /\ \/ /\ meta' = [meta EXCEPT ![n] = Recorded(n)]
          /\ answered' = answered \cup task[n].out
          /\ task' = [task EXCEPT ![n] = Idle]
          /\ UNCHANGED <<mode, used>>
       \/ /\ Stops(n)
          /\ meta' \in {meta, [meta EXCEPT ![n] = Recorded(n)]}
          /\ UNCHANGED <<answered, task>>
    /\ UNCHANGED <<raft, log, state, current>>

-----------------------------------------------------------------------------
(* build_snapshot, install_snapshot *)

\* Mutant of Build: the snapshot is labelled with the last committed entry.
BuildAhead(n) ==
    /\ mode[n] = "up" /\ ~Applying(n)
    /\ BuildsAnytime \/ (task[n].kind = "idle" /\ state[n].skip = 0)
    /\ current' = [current EXCEPT ![n] =
           [last |-> Len(committed), member |-> state[n].member, episodes |-> log[n]]]
    /\ UNCHANGED <<raft, disk, state, task, mode, answered, used>>

\* The builder takes the mutex of `state`, which `apply` holds and
\* install_snapshot does not.
Build(n) ==
    /\ mode[n] = "up" /\ ~Applying(n)
    /\ BuildsAnytime \/ (task[n].kind = "idle" /\ state[n].skip = 0)
    /\ current' = [current EXCEPT ![n] =
           [last |-> state[n].applied, member |-> state[n].member, episodes |-> log[n]]]
    /\ UNCHANGED <<raft, disk, state, task, mode, answered, used>>

\* Raft hands n the snapshot of m, which leads and so installs none itself,
\* only if it covers entries that the raft log of n never had.
InstallBegin(n, m) ==
    /\ Ready(n) /\ mode[m] = "up" /\ task[m].kind # "install"
    /\ current[m].last > received[n]
    /\ OlderSnapshots \/ Len(current[m].episodes) >= Len(log[n])
    /\ task' = [task EXCEPT ![n] = [kind |-> "install", snapshot |-> current[m]]]
    /\ UNCHANGED <<raft, disk, state, current, mode, answered, used>>

Installing(n) == mode[n] = "up" /\ task[n].kind = "install"
Missing(n) == Len(log[n]) < Len(task[n].snapshot.episodes)

\* Only what the log lacks is appended, stamped as it comes.
InstallEpisode(n) ==
    /\ Installing(n) /\ Missing(n)
    /\ log' = [log EXCEPT ![n] = Append(@, task[n].snapshot.episodes[Len(@) + 1])]
    /\ UNCHANGED <<raft, meta, state, current, task, mode, answered, used>>

Installed(n, lastTs) ==
    SmState(task[n].snapshot.last, task[n].snapshot.member, Len(log[n]), 0, lastTs)
InstalledMeta(n) == Sidecar(task[n].snapshot.last, task[n].snapshot.member, Len(log[n]))

\* Mutant of InstallEnd: the stamp of the last applied episode is kept.
InstallEndKeepsTs(n) ==
    /\ Installing(n) /\ ~Missing(n)
    /\ state' = [state EXCEPT ![n] = Installed(n, state[n].lastTs)]
    /\ current' = [current EXCEPT ![n] = task[n].snapshot]
    /\ meta' = [meta EXCEPT ![n] = InstalledMeta(n)]
    /\ task' = [task EXCEPT ![n] = Idle]
    /\ received' = [received EXCEPT ![n] = task[n].snapshot.last]
    /\ UNCHANGED <<committed, agreed, log, mode, answered, used>>

InstallEnd(n) ==
    /\ Installing(n) /\ ~Missing(n)
    /\ state' = [state EXCEPT ![n] = Installed(n, Unread)]
    /\ current' = [current EXCEPT ![n] = task[n].snapshot]
    /\ received' = [received EXCEPT ![n] = task[n].snapshot.last]
    /\ \/ /\ meta' = [meta EXCEPT ![n] = InstalledMeta(n)]
          /\ task' = [task EXCEPT ![n] = Idle]
          /\ UNCHANGED <<mode, used>>
       \/ /\ Stops(n)
          /\ meta' \in {meta, [meta EXCEPT ![n] = InstalledMeta(n)]}
          /\ UNCHANGED task
    /\ UNCHANGED <<committed, agreed, log, answered>>

\* Reading the snapshot or appending one of its episodes fails.
InstallFails(n) ==
    /\ Installing(n) /\ Stops(n)
    /\ log' \in {log} \cup IF Missing(n)
           THEN {[log EXCEPT ![n] = Append(@, task[n].snapshot.episodes[Len(@) + 1])]} ELSE {}
    /\ UNCHANGED <<raft, meta, state, current, task, answered>>

\* The current snapshot is only in memory: open_durable removes its file.
Kill(n) ==
    /\ mode[n] \in {"up", "failed"}
    /\ Spend("crashes", MaxCrashes)
    /\ mode' = [mode EXCEPT ![n] = "down"]
    /\ state' = [state EXCEPT ![n] = Unstarted]
    /\ current' = [current EXCEPT ![n] = NoSnapshot]
    /\ task' = [task EXCEPT ![n] = Idle]
    /\ UNCHANGED <<raft, disk, answered>>

-----------------------------------------------------------------------------
Apply(n) ==
    \/ \E upto \in Indices : ApplyBegin(n, upto)
    \/ ApplyOther(n) \/ ApplySkip(n) \/ ApplyEpisode(n) \/ ApplyEnd(n)
Install(n) == InstallEpisode(n) \/ InstallEnd(n)

Next ==
    \/ \E kind \in Kinds, clock \in 0 .. MaxClock : Commit(kind, clock)
    \/ \E n \in Nodes :
          \/ Open(n) \/ Apply(n) \/ ApplyFails(n) \/ Build(n)
          \/ \E m \in Nodes : InstallBegin(n, m)
          \/ Install(n) \/ InstallFails(n) \/ Kill(n)

\* Openraft hands a running node what is committed, and its worker goes on.
Fairness == \A n \in Nodes : WF_vars(Apply(n)) /\ WF_vars(Install(n))

Spec == Init /\ [][Next]_vars
FairSpec == Spec /\ Fairness

-----------------------------------------------------------------------------
(* Properties *)

TypeOK ==
    /\ committed \in Seq(Entry) /\ Len(committed) <= MaxEntries
    /\ agreed \in Episodes
    /\ received \in [Nodes -> Indices]
    /\ log \in [Nodes -> Episodes]
    /\ meta \in [Nodes -> [known : BOOLEAN, applied : Indices, member : Indices,
                           normals : Indices]]
    /\ state \in [Nodes -> [applied : Indices, member : Indices, normals : Indices,
                            skip : Indices, lastTs : Stamps \cup {Unread}]]
    /\ current \in [Nodes -> [last : Indices, member : Indices, episodes : Episodes]]
    /\ \A n \in Nodes : task[n].kind \in {"idle", "apply", "install"}
    /\ mode \in [Nodes -> {"up", "down", "failed", "refused"}]

(* Every node holds a prefix of one agreed sequence, stamps included, and   *)
(* no kill, failed call or snapshot makes it hold anything else.            *)
Agreed == INSTANCE AgreedLog WITH Nodes <- Nodes, Episodes <- Episode,
                                  agreed <- agreed, copies <- log
ImplementsAgreedLog == Agreed!Spec
LogsAgree == Agreed!Agreement

(* Whoever is told an LSN finds its own episode there.                      *)
AnswersNameTheirEpisode ==
    \A a \in answered : a[2] + 1 <= Len(agreed) /\ agreed[a[2] + 1].id = a[1]

(* A snapshot holds exactly the episodes of the entries it says it covers   *)
(* (the comment in build_snapshot).                                         *)
SnapshotsWhole ==
    \A n \in Nodes :
        /\ Len(current[n].episodes) = NormalsUpTo(current[n].last)
        /\ Agreed!IsCopy(current[n].episodes)
        /\ current[n].member = MemberUpTo(current[n].last)

(* A node that was part of the cluster can always be started again.         *)
OpenNeverRefuses == \A n \in Nodes : mode[n] # "refused"

(* Whatever is committed reaches the log of every node that stays up.       *)
CatchesUp ==
    \A n \in Nodes : <>[](mode[n] # "up") \/ <>[](Len(log[n]) = Len(agreed))
=============================================================================
