---------------------------- MODULE ApprovalGate ----------------------------
(***************************************************************************)
(* Tool calls that need a person's approval (heraclitus-agent, action.rs   *)
(* ApprovalStore; heraclitus-agent-gateway, gateway.rs and api.rs).  An    *)
(* attempt consumes a granted approval of exactly its subject, or opens a  *)
(* request for one; a person decides it; the agent tries again.            *)
(*                                                                         *)
(* Approvals live in memory.  The log has the evidence, and a restart      *)
(* takes from it only which subjects were already executed.                *)
(*                                                                         *)
(* Only the rule RequireApproval of the policy is modelled.  A subject is  *)
(* the request, which carries the agent, and all else its hash covers:     *)
(* arguments, resource, person, policy and its version.                    *)
(***************************************************************************)
EXTENDS Integers, Sequences, FiniteSets, Functions

CONSTANTS
    GateModes,            \* among "enforce" and "shadow"
    Agents,
    Requests,             \* request ids of an agent
    Contents,             \* what else the hash of the subject covers
    ApprovalTtl,          \* ttl_seconds of the rule, in clock ticks
    MaxPendingGlobal,     \* max_pending_global
    MaxPendingPerAgent,   \* max_pending_per_agent
    EvidenceSynced,       \* an append is durable when it returns (FsyncPolicy::Always)
    Handlers,             \* tool calls under way at once
    MaxApprovals,         \* bound: approval ids drawn
    MaxGateClock,         \* bound: clock ticks
    MaxGateFaults,        \* bound: evidence that fails to be appended
    MaxGateStops          \* bound: ends of the process

ASSUME GateAssumption ==
    /\ GateModes \subseteq {"enforce", "shadow"} /\ EvidenceSynced \in BOOLEAN
    /\ {} \notin {Agents, Requests, Contents}
    /\ ApprovalTtl \in Nat \ {0}
    /\ {MaxPendingGlobal, MaxPendingPerAgent} \subseteq Nat
    /\ {MaxApprovals, MaxGateClock, MaxGateFaults, MaxGateStops} \subseteq Nat

Subjects == [agent : Agents, request : Requests, content : Contents]
Ids == 1 .. MaxApprovals

VARIABLES
    gateMode,   \* runtime.mode()
    now,        \* now_unix_seconds()
    records,    \* ApprovalStore.inner; the ids are ULIDs, later ones greater
    consumed,   \* ApprovalStore.consumed_subjects
    attempts,   \* what each handler does: where it is, the subject, the time, the approval
    evidence,   \* the log: the approvals of its ToolAuthorized facts, in order
    kept,       \* how much of it is durable
    drawn,      \* ids given out
    asked,      \* history: what was asked of a person under each id, in which process
    granted,    \* history: the ids a person granted
    executed,   \* history: what went upstream in enforce, in order
    forgotten,  \* history: the approvals whose ToolAuthorized a power failure took
    happened    \* how much of each bound is spent

store     == <<records, consumed>>
historyVars == <<asked, granted, executed, forgotten>>
onRecord  == <<evidence, kept>>
gateVars  == <<gateMode, now, store, attempts, onRecord, drawn, historyVars, happened>>

Enforces == gateMode = "enforce"
NoSubject == CHOOSE s \in Subjects : TRUE
NoRecord == [state |-> "none", subject |-> NoSubject, expires |-> 0]
Idle == [at |-> "idle", subject |-> NoSubject, now |-> 0, id |-> 0]
Known(r) == r.state # "none"

GateInit ==
    /\ gateMode \in GateModes /\ now = 0
    /\ records = [i \in Ids |-> NoRecord] /\ consumed = {}
    /\ attempts = [a \in Handlers |-> Idle]
    /\ evidence = << >> /\ kept = 0 /\ drawn = 0
    /\ asked = [i \in Ids |-> [subject |-> NoSubject, expires |-> 0, boot |-> 0]]
    /\ granted = {} /\ executed = << >> /\ forgotten = {}
    /\ happened = [faults |-> 0, stops |-> 0]

GoesTo(a, at, id) ==
    attempts' = [attempts EXCEPT ![a] =
                   [at |-> at, subject |-> attempts[a].subject, now |-> attempts[a].now, id |-> id]]

Ends(a) == attempts' = [attempts EXCEPT ![a] = Idle]

\* Answered with the approval to wait for, or refused; shadow lets it through.
Blocks(a) == IF Enforces THEN Ends(a) ELSE GoesTo(a, "cleared", attempts[a].id)

GateFault == happened.faults < MaxGateFaults /\ happened' = [happened EXCEPT !.faults = @ + 1]

-----------------------------------------------------------------------------
(* ApprovalStore; each operation holds the mutex throughout *)

\* expire_locked: the first thing every operation does, with its caller's time.
Expire(t) ==
    [i \in Ids |-> IF records[i].state \in {"pending", "granted"} /\ records[i].expires <= t
                   THEN [records[i] EXCEPT !.state = "expired"] ELSE records[i]]

\* The same request; as a mutant of Matches, a retry finds its approval whatever
\* the arguments.
SameRequest(r, s) ==
    Known(r) /\ r.subject.agent = s.agent /\ r.subject.request = s.request

Matches(r, s) == Known(r) /\ r.subject = s

\* consume finds a record of the subject, the first in the order of the ids.
FirstOf(a, i) ==
    /\ Matches(records[i], attempts[a].subject)
    /\ \A j \in Ids : Matches(records[j], attempts[a].subject) => i <= j

ConsumeGranted(a, i) ==
    /\ attempts[a].at = "recorded" /\ FirstOf(a, i)
    /\ LET recs == Expire(attempts[a].now) IN
       /\ recs[i].state = "granted"
       /\ records' = [recs EXCEPT ![i].state = "consumed"]
    /\ consumed' = consumed \cup {attempts[a].subject}
    /\ GoesTo(a, "authorized", i)
    /\ UNCHANGED <<gateMode, now, onRecord, drawn, historyVars, happened>>

\* A record in any other state: pending is answered with its approval, the rest
\* is refused; shadow goes on.
ConsumeOther(a, i) ==
    /\ attempts[a].at = "recorded" /\ FirstOf(a, i)
    /\ records' = Expire(attempts[a].now)
    /\ records'[i].state # "granted"
    /\ Blocks(a)
    /\ UNCHANGED <<gateMode, now, consumed, onRecord, drawn, historyVars, happened>>

Replayed(s) == s \in consumed
Mismatched(s) == \E i \in Ids : SameRequest(records[i], s)

\* No record: executed before the last restart, or another subject under the
\* same request, or never seen; then the attempt goes on with an id of its own.
ConsumeNothing(a) ==
    LET s == attempts[a].subject IN
    /\ attempts[a].at = "recorded" /\ \A i \in Ids : ~Matches(records[i], s)
    /\ records' = Expire(attempts[a].now)
    /\ IF Replayed(s) \/ Mismatched(s)
       THEN Blocks(a) /\ UNCHANGED drawn
       ELSE /\ drawn < MaxApprovals /\ drawn' = drawn + 1
            /\ GoesTo(a, "absent", drawn + 1)
    /\ UNCHANGED <<gateMode, now, consumed, onRecord, historyVars, happened>>

Pending(recs) == {i \in Ids : recs[i].state = "pending"}

HasRoom(recs, s) ==
    /\ Cardinality(Pending(recs)) < MaxPendingGlobal
    /\ Cardinality({i \in Pending(recs) : recs[i].subject.agent = s.agent}) < MaxPendingPerAgent

\* request_bounded: a pending request of the subject is as good as a new one.
Admit(a) ==
    LET recs == Expire(attempts[a].now)
        s == attempts[a].subject
        id == attempts[a].id
        same == \E i \in Pending(recs) : recs[i].subject = s
        admitted == ~same /\ HasRoom(recs, s)
        expires == attempts[a].now + ApprovalTtl
    IN
    /\ attempts[a].at = "absent"
    /\ records' = IF admitted
                  THEN [recs EXCEPT ![id] = [state |-> "pending", subject |-> s, expires |-> expires]]
                  ELSE recs
    /\ asked' = IF admitted
                THEN [asked EXCEPT ![id] = [subject |-> s, expires |-> expires, boot |-> happened.stops]]
                ELSE asked
    /\ Blocks(a)
    /\ UNCHANGED <<gateMode, now, consumed, onRecord, drawn, granted, executed,
                   forgotten, happened>>

\* api.rs decide; the evidence HumanApprovalGranted is read by no one here.
Decide(i, approved) ==
    /\ Expire(now)[i].state = "pending"
    /\ records' = [Expire(now) EXCEPT ![i].state = IF approved THEN "granted" ELSE "denied"]
    /\ granted' = IF approved THEN granted \cup {i} ELSE granted
    /\ UNCHANGED <<gateMode, now, consumed, attempts, onRecord, drawn, asked, executed,
                   forgotten, happened>>

\* pending: the inbox of the person; what expired is marked here too.
ListPending ==
    /\ records' = Expire(now)
    /\ UNCHANGED <<gateMode, now, consumed, attempts, onRecord, drawn, historyVars, happened>>

-----------------------------------------------------------------------------
(* gateway.rs *)

InLog(i) == evidence' = Append(evidence, i)

\* The call arrives, its evidence ToolRequested is appended, the time is read.
RecordRequest(a, s) ==
    /\ attempts[a].at = "idle"
    /\ \/ attempts' = [attempts EXCEPT ![a] = [at |-> "recorded", subject |-> s, now |-> now, id |-> 0]]
          /\ UNCHANGED happened
       \/ Enforces /\ GateFault /\ UNCHANGED attempts
    /\ UNCHANGED <<gateMode, now, store, onRecord, drawn, historyVars>>

\* Mutant: as in shadow.
GoesOnUnrecorded(a) == GoesTo(a, "cleared", attempts[a].id)

WithoutEvidence(a) == Blocks(a)

\* ToolAuthorized is appended before the call goes upstream.  If that fails the
\* fact may be in the log all the same; enforce refuses, and the approval is spent.
Authorize(a) ==
    /\ attempts[a].at = "authorized"
    /\ \/ /\ InLog(attempts[a].id)
          /\ kept' = IF EvidenceSynced THEN Len(evidence') ELSE kept
          /\ GoesTo(a, "cleared", attempts[a].id) /\ UNCHANGED happened
       \/ /\ GateFault /\ WithoutEvidence(a) /\ UNCHANGED kept
          /\ InLog(attempts[a].id) \/ UNCHANGED evidence
    /\ UNCHANGED <<gateMode, now, store, drawn, historyVars>>

\* forward: the call goes upstream.
Send(a) ==
    /\ attempts[a].at = "cleared"
    /\ executed' = IF Enforces THEN Append(executed, [attempts[a] EXCEPT !.at = "sent"]) ELSE executed
    /\ Ends(a)
    /\ UNCHANGED <<gateMode, now, store, onRecord, drawn, asked, granted, forgotten, happened>>

\* flush, at the end of attempts and decisions; the fsync worker
FlushEvidence ==
    /\ kept < Len(evidence) /\ kept' = Len(evidence)
    /\ UNCHANGED <<gateMode, now, store, attempts, evidence, drawn, historyVars, happened>>

GateTick ==
    /\ now < MaxGateClock /\ now' = now + 1
    /\ UNCHANGED <<gateMode, store, attempts, onRecord, drawn, historyVars, happened>>

-----------------------------------------------------------------------------
(* The process ends and starts again *)

\* Mutant: nothing is taken from the log.
WarmNothing(log) == {}

\* warm_consumed: the subjects of the ToolAuthorized facts
Warm(log) == {asked[log[n]].subject : n \in DOMAIN log}

\* What a kill leaves is the whole log, a power failure only what is durable.
GateStop(left) ==
    /\ happened.stops < MaxGateStops /\ happened' = [happened EXCEPT !.stops = @ + 1]
    /\ evidence' = SubSeq(evidence, 1, left) /\ kept' = left
    /\ forgotten' = forgotten \cup (Range(evidence) \ Range(evidence'))
    /\ records' = [i \in Ids |-> NoRecord] /\ consumed' = Warm(evidence')
    /\ attempts' = [a \in Handlers |-> Idle]
    /\ UNCHANGED <<gateMode, now, drawn, asked, granted, executed>>

GateNext ==
    \/ \E a \in Handlers, s \in Subjects : RecordRequest(a, s)
    \/ \E a \in Handlers, i \in Ids : ConsumeGranted(a, i) \/ ConsumeOther(a, i)
    \/ \E a \in Handlers : ConsumeNothing(a) \/ Admit(a) \/ Authorize(a) \/ Send(a)
    \/ \E i \in Ids, approved \in BOOLEAN : Decide(i, approved)
    \/ ListPending \/ FlushEvidence \/ GateTick
    \/ \E left \in kept .. Len(evidence) : GateStop(left)

GateSpec == GateInit /\ [][GateNext]_gateVars

-----------------------------------------------------------------------------
(* Properties *)

\* Every variable has its type, and a swarm of attempts does not race past the
\* limits of pending requests (request_bounded, "cannot race past either
\* ceiling").
GateTypeOK ==
    /\ gateMode \in GateModes /\ now \in 0 .. MaxGateClock
    /\ records \in [Ids -> [state : {"none", "pending", "granted", "denied", "expired", "consumed"},
                            subject : Subjects, expires : Nat]]
    /\ consumed \subseteq Subjects
    /\ attempts \in [Handlers ->
          [at : {"idle", "recorded", "absent", "authorized", "cleared"},
           subject : Subjects, now : 0 .. MaxGateClock, id : Ids \cup {0}]]
    /\ kept \in 0 .. Len(evidence) /\ drawn \in {0} \cup Ids
    /\ Cardinality(Pending(records)) <= MaxPendingGlobal
    /\ \A g \in Agents :
          Cardinality({i \in Pending(records) : records[i].subject.agent = g}) <= MaxPendingPerAgent

\* In enforce nothing goes upstream without an approval of its own: a person
\* granted it, it was asked for exactly this subject and not expired when the
\* attempt began, and no other attempt used it (action.rs, SPEC-0075 2.3 and 15.3).
OwnGrant ==
    /\ \A n \in DOMAIN executed :
          LET e == executed[n] IN
          /\ e.id \in granted
          /\ asked[e.id].subject = e.subject
          /\ e.now < asked[e.id].expires
    /\ IsInjective([n \in DOMAIN executed |-> executed[n].id])

\* "O mesmo request_id com os mesmos argumentos não cria nova aprovação nem
\* executa duas vezes" (action.rs:113), also across restarts; except that a power
\* failure may take the evidence of the first time, or an attempt that looked
\* before the first approval was spent may open another one after.
ExecutedOnce ==
    \A m, n \in DOMAIN executed :
       executed[m].subject = executed[n].subject =>
          \/ forgotten \cap {executed[m].id, executed[n].id} # {}
          \/ asked[executed[m].id].boot = asked[executed[n].id].boot

\* What went upstream in enforce is in the log, with the approval it spent,
\* unless a power failure took it.
EffectOnRecord ==
    \A n \in DOMAIN executed :
       executed[n].id \in forgotten \cup Range(evidence)
=============================================================================
