-------------------------- MODULE IdempotentAppend --------------------------
(***************************************************************************)
(* Appends that carry an idempotency key (heraclitus-server, engine.rs     *)
(* append_idempotent): look the key up in the attribute index under the    *)
(* lock of the key, append if it is absent.  The append goes to the log of *)
(* the node, or, in a cluster, through the submission queue to the         *)
(* consensus (cluster.rs), with a deadline.                                *)
(*                                                                         *)
(* The consensus is the environment: it keeps a backlog of proposals,      *)
(* commits them in order, and a new leader may lose the end of it.  A      *)
(* client's retry is one more call with the same key and payload.          *)
(***************************************************************************)
EXTENDS Naturals, Sequences, FiniteSets

CONSTANTS
    SubmitNodes,     \* the nodes
    SubmitCalls,     \* the calls of append_idempotent there will be
    SubmitKeys,      \* idempotency keys
    Payloads,        \* what the canonical hash of an episode tells apart
    SubmitRoutes,    \* "alone": the log of one node; "cluster": the consensus
    SubmitTimeouts,  \* a commit may take longer than SUBMIT_TIMEOUT_SECS
    SUBMIT_QUEUE,    \* submissions waiting for a permit
    SUBMIT_INFLIGHT, \* submissions that hold one
    MaxElections,    \* bound: changes of leader
    MaxSubmitStops   \* bound: ends of the process of a node alone

ASSUME SubmitAssumption ==
    /\ SubmitRoutes \subseteq {"alone", "cluster"} /\ SubmitTimeouts \in BOOLEAN
    /\ {SUBMIT_QUEUE, SUBMIT_INFLIGHT, MaxElections, MaxSubmitStops} \subseteq Nat
    /\ IsFiniteSet(SubmitCalls)

VARIABLES
    route,       \* how append_internal reaches the log
    leader,      \* the leader; the only node there is, if alone
    agreed,      \* the log: key and payload of each episode, and its call
    backlog,     \* proposals in the log of the leader, not committed
    indexed,     \* by node: the LSNs its attribute index has
    partial,     \* attr_incompleto: the boot skipped episodes
    refuses,     \* the log of the node alone: it refuses writes, or is down
    channel,     \* by node: ReplicationHandle::submit
    inflight,    \* by node: the submissions that hold a permit
    calls,       \* where each call is, what it asks for, what it was told
    occurred     \* how much of each bound is spent

submitVars == <<route, leader, agreed, backlog, indexed, partial, refuses, channel,
                inflight, calls, occurred>>

Entry(c) == [key |-> calls[c].key, payload |-> calls[c].payload, call |-> c]
Answers == {"ok", "duplicate", "conflict", "error"}
HoldsLock(c) == calls[c].at \in {"locked", "absent", "indexing", "waiting"}

SubmitInit ==
    /\ route \in SubmitRoutes /\ leader \in SubmitNodes
    /\ agreed = << >> /\ backlog = << >>
    /\ indexed = [n \in SubmitNodes |-> {}]
    /\ partial = FALSE /\ refuses = "no"
    /\ channel = [n \in SubmitNodes |-> << >>]
    /\ inflight = [n \in SubmitNodes |-> {}]
    /\ calls = [c \in SubmitCalls |-> [at |-> "idle"]]
    /\ occurred = [elections |-> 0, stops |-> 0]

Counts(what, bound) == occurred[what] < bound /\ occurred' = [occurred EXCEPT ![what] = @ + 1]
Called(n, k, p, at, lsn) == [at |-> at, node |-> n, key |-> k, payload |-> p, lsn |-> lsn]
CallAt(c, at, lsn) == Called(calls[c].node, calls[c].key, calls[c].payload, at, lsn)
Told(c, answer, lsn) == calls' = [calls EXCEPT ![c] = CallAt(c, answer, lsn)]
Moves(c, at) == Told(c, at, calls[c].lsn)
AllMove(S, at) ==
    calls' = [c \in SubmitCalls |-> IF c \in S THEN CallAt(c, at, calls[c].lsn) ELSE calls[c]]

-----------------------------------------------------------------------------
(* append_idempotent_validated *)

\* Mutant: no lock.
LockNothing(n, k) == TRUE

\* idempotency_shard(key).lock(); keys of one shard only wait more.
LockFree(n, k) ==
    \A c \in SubmitCalls : ~(HoldsLock(c) /\ calls[c].node = n /\ calls[c].key = k)

\* A node whose index is not whole refuses; any other takes the lock of the key.
Arrive(c, n, k, p) ==
    /\ calls[c].at = "idle"
    /\ route = "alone" => n = leader /\ refuses # "down"
    /\ partial \/ LockFree(n, k)
    /\ calls' = [calls EXCEPT ![c] = Called(n, k, p, IF partial THEN "error" ELSE "locked", 0)]
    /\ UNCHANGED <<route, leader, agreed, backlog, indexed, partial, refuses, channel,
                   inflight, occurred>>

\* Mutant: the key alone makes a duplicate.
SameKey(lsn, c) == TRUE

\* The hash of the payload, kept in the episode, is the one of the request.
SamePayload(lsn, c) == agreed[lsn].payload = calls[c].payload

Lookup(c) ==
    /\ calls[c].at = "locked"
    /\ LET found == {lsn \in indexed[calls[c].node] : agreed[lsn].key = calls[c].key} IN
       IF found = {} THEN Moves(c, "absent")
       ELSE \E last \in found :
               /\ \A other \in found : other <= last
               /\ Told(c, IF SamePayload(last, c) THEN "duplicate" ELSE "conflict", last)
    /\ UNCHANGED <<route, leader, agreed, backlog, indexed, partial, refuses, channel,
                   inflight, occurred>>

-----------------------------------------------------------------------------
(* append_internal, on a node alone *)

AppendAlone(c) ==
    /\ calls[c].at = "absent" /\ route = "alone"
    /\ IF refuses = "no"
       THEN /\ agreed' = Append(agreed, Entry(c))
            /\ Told(c, "indexing", Len(agreed) + 1)
       ELSE Moves(c, "error") /\ UNCHANGED agreed
    /\ UNCHANGED <<route, leader, backlog, indexed, partial, refuses, channel, inflight,
                   occurred>>

\* The append fails; its episode may be in the log all the same.  The log
\* refuses every other append until it is opened again.
AppendFails(c) ==
    /\ calls[c].at = "absent" /\ route = "alone" /\ refuses = "no"
    /\ \/ agreed' = Append(agreed, Entry(c))
       \/ UNCHANGED agreed
    /\ refuses' = "poisoned"
    /\ Moves(c, "error")
    /\ UNCHANGED <<route, leader, backlog, indexed, partial, channel, inflight, occurred>>

\* index_applied_shared, then the answer, and the lock is free.
IndexAlone(c) ==
    /\ calls[c].at = "indexing"
    /\ indexed' = [indexed EXCEPT ![leader] = @ \cup {calls[c].lsn}]
    /\ Moves(c, "ok")
    /\ UNCHANGED <<route, leader, agreed, backlog, partial, refuses, channel, inflight,
                   occurred>>

StopAlone ==
    /\ route = "alone" /\ refuses # "down" /\ Counts("stops", MaxSubmitStops)
    /\ refuses' = "down"
    /\ AllMove({c \in SubmitCalls : HoldsLock(c)}, "error")
    /\ UNCHANGED <<route, leader, agreed, backlog, indexed, partial, channel, inflight>>

\* The index is a checkpoint, brought up to the head unless
\* HERACLITUS_SKIP_VIEW_REPLAY says not to.
BootAlone(w) ==
    /\ refuses = "down"
    /\ refuses' = "no"
    /\ indexed' = [indexed EXCEPT ![leader] = 1 .. w]
    /\ partial' = (w < Len(agreed))
    /\ UNCHANGED <<route, leader, agreed, backlog, channel, inflight, calls, occurred>>

-----------------------------------------------------------------------------
(* ReplicationHandle::append and the submission loop *)

\* try_send: a full queue is an error at once.
SubmitCluster(c) ==
    /\ calls[c].at = "absent" /\ route = "cluster"
    /\ LET n == calls[c].node IN
       IF Len(channel[n]) < SUBMIT_QUEUE
       THEN channel' = [channel EXCEPT ![n] = Append(@, c)] /\ Moves(c, "waiting")
       ELSE Moves(c, "error") /\ UNCHANGED channel
    /\ UNCHANGED <<route, leader, agreed, backlog, indexed, partial, refuses, inflight,
                   occurred>>

\* Mutant: a task per submission, however many there are.
PermitAlways(n) == TRUE

PermitFree(n) == Cardinality(inflight[n]) < SUBMIT_INFLIGHT

\* The loop takes a submission from the queue and starts its task.
TakePermit(n) ==
    /\ channel[n] # << >> /\ PermitFree(n)
    /\ inflight' = [inflight EXCEPT ![n] = @ \cup {Head(channel[n])}]
    /\ channel' = [channel EXCEPT ![n] = Tail(@)]
    /\ UNCHANGED <<route, leader, agreed, backlog, indexed, partial, refuses, calls,
                   occurred>>

Proposed(c) ==
    \/ \E i \in DOMAIN backlog : backlog[i].call = c
    \/ \E i \in DOMAIN agreed : agreed[i].call = c

\* submit_episode: the leader takes the proposal, any other answers NotLeader,
\* to nobody if the call is over.
Propose(n, c) ==
    /\ c \in inflight[n] /\ ~Proposed(c)
    /\ IF n = leader
       THEN backlog' = Append(backlog, Entry(c)) /\ UNCHANGED <<inflight, calls>>
       ELSE /\ inflight' = [inflight EXCEPT ![n] = @ \ {c}]
            /\ IF calls[c].at = "waiting" THEN Moves(c, "error") ELSE UNCHANGED calls
            /\ UNCHANGED backlog
    /\ UNCHANGED <<route, leader, agreed, indexed, partial, refuses, channel, occurred>>

CommitEntry ==
    /\ backlog # << >>
    /\ agreed' = Append(agreed, Head(backlog)) /\ backlog' = Tail(backlog)
    /\ UNCHANGED <<route, leader, indexed, partial, refuses, channel, inflight, calls,
                   occurred>>

\* The state machine of n applies the next entry, its hook indexes it, and the
\* call that proposed it at n is answered, if it still waits.
ApplyEntry(n, lsn) ==
    /\ route = "cluster" /\ lsn = Cardinality(indexed[n]) + 1 /\ lsn <= Len(agreed)
    /\ indexed' = [indexed EXCEPT ![n] = @ \cup {lsn}]
    /\ LET c == agreed[lsn].call IN
       /\ inflight' = [inflight EXCEPT ![n] = @ \ {c}]
       /\ IF c \in inflight[n] /\ calls[c].at = "waiting"
          THEN Told(c, "ok", lsn) ELSE UNCHANGED calls
    /\ UNCHANGED <<route, leader, agreed, backlog, partial, refuses, channel, occurred>>

\* recv_timeout: the call ends and frees its lock, the submission stays.
SubmitTimesOut(c) ==
    /\ SubmitTimeouts /\ calls[c].at = "waiting"
    /\ Moves(c, "error")
    /\ UNCHANGED <<route, leader, agreed, backlog, indexed, partial, refuses, channel,
                   inflight, occurred>>

\* Another leader: it has a prefix of the backlog, and whoever waits for a
\* proposal of the old one is told to go to it.
Elect(n, kept) ==
    /\ route = "cluster" /\ n # leader /\ Counts("elections", MaxElections)
    /\ leader' = n
    /\ backlog' = SubSeq(backlog, 1, kept)
    /\ LET dropped == {c \in inflight[leader] : Proposed(c)} IN
       /\ inflight' = [inflight EXCEPT ![leader] = @ \ dropped]
       /\ AllMove({c \in dropped : calls[c].at = "waiting"}, "error")
    /\ UNCHANGED <<route, agreed, indexed, partial, refuses, channel>>

-----------------------------------------------------------------------------

\* Every call was answered: nothing is left to do.
SubmitDone ==
    /\ \A c \in SubmitCalls : calls[c].at \in Answers
    /\ UNCHANGED submitVars

SubmitNext ==
    \/ \E c \in SubmitCalls, n \in SubmitNodes, k \in SubmitKeys, p \in Payloads : Arrive(c, n, k, p)
    \/ \E c \in SubmitCalls :
          \/ Lookup(c) \/ AppendAlone(c) \/ AppendFails(c) \/ IndexAlone(c)
          \/ SubmitCluster(c) \/ SubmitTimesOut(c)
    \/ StopAlone
    \/ \E w \in 0 .. Len(agreed) : BootAlone(w)
    \/ \E n \in SubmitNodes : TakePermit(n)
    \/ \E n \in SubmitNodes : \E c \in inflight[n] : Propose(n, c)
    \/ CommitEntry
    \/ \E n \in SubmitNodes : \E lsn \in 1 .. Len(agreed) : ApplyEntry(n, lsn)
    \/ \E n \in SubmitNodes : \E kept \in 0 .. Len(backlog) : Elect(n, kept)
    \/ SubmitDone

SubmitSpec == SubmitInit /\ [][SubmitNext]_submitVars

-----------------------------------------------------------------------------
(* Properties *)

CallStates == [at : {"idle"}]
        \cup [at : {"locked", "absent", "indexing", "waiting"} \cup Answers,
              node : SubmitNodes, key : SubmitKeys, payload : Payloads,
              lsn : 0 .. Cardinality(SubmitCalls)]

\* Every variable has its type, indexes name episodes of the log, and the queue
\* and the permits keep their limits (the bounded channel and the semaphore of
\* cluster.rs).
SubmitTypeOK ==
    /\ route \in SubmitRoutes /\ leader \in SubmitNodes
    /\ refuses \in {"no", "poisoned", "down"} /\ partial \in BOOLEAN
    /\ calls \in [SubmitCalls -> CallStates]
    /\ \A n \in SubmitNodes :
          /\ indexed[n] \subseteq DOMAIN agreed
          /\ Len(channel[n]) <= SUBMIT_QUEUE
          /\ inflight[n] \subseteq SubmitCalls /\ Cardinality(inflight[n]) <= SUBMIT_INFLIGHT

\* "Exactly-once lógico para produtores externos" (append_idempotent): the log,
\* which is immutable, never has two episodes of one key.
KeyedOnce ==
    \A i, j \in DOMAIN agreed : agreed[i].key = agreed[j].key => i = j

\* What the code does keep of it: a node alone never writes a key twice, however
\* appends fail and the node restarts; a cluster only after a change of leader,
\* or when a call of the key gave up before the fate of its submission was known.
KeyedOnceUnlessInDoubt ==
    \A i, j \in DOMAIN agreed :
       i # j /\ agreed[i].key = agreed[j].key =>
          /\ route = "cluster"
          /\ \/ occurred.elections > 0
             \/ \E l \in {i, j} : calls[agreed[l].call].at = "error"

\* What a call is told stands in the log: an LSN it is given holds an episode of
\* its key and its payload, and a conflict is with another payload of its key.
AnswersStand ==
    \A c \in SubmitCalls :
       calls[c].at \in {"ok", "duplicate", "conflict"} =>
          /\ calls[c].lsn \in DOMAIN agreed
          /\ agreed[calls[c].lsn].key = calls[c].key
          /\ (agreed[calls[c].lsn].payload = calls[c].payload) <=> (calls[c].at # "conflict")
=============================================================================
