---------------------------- MODULE TrustedAdmin ----------------------------
(***************************************************************************)
(* The journal of destructive administration (heraclitus-server,           *)
(* trusted_admin.rs): intent, fsync, effect, result, fsync, one operation  *)
(* at a time; and `reconcile`, itself the effect of an operation, which    *)
(* gives an outcome to another one that was interrupted.                   *)
(*                                                                         *)
(* An operation is its idempotency key, already scoped to the tenant and   *)
(* the principal; a request that reuses a key with other parameters is     *)
(* refused where a retry would be answered, and is not modelled.           *)
(***************************************************************************)
EXTENDS Naturals, Sequences

CONSTANTS
    AdminKeys,        \* idempotency keys
    NoKey,            \* the target of an operation that reconciles nothing
    MaxAdminFaults,   \* bound: failed appends and fsyncs, and panics
    MaxAdminCrashes   \* bound: kills and power failures

ASSUME AdminAssumption ==
    /\ NoKey \notin AdminKeys
    /\ MaxAdminFaults \in Nat /\ MaxAdminCrashes \in Nat

VARIABLES
    diary,       \* the AdminIntent and AdminResult episodes of the log
    flushed,     \* how many of them a power failure cannot take
    journal,     \* TrustedAdminProtocol::journal, an AdminState per key
    execution,   \* the mutex: what the call that holds it does next
    request,     \* its key, the key it reconciles and the outcome so far
    appended,    \* its record is in the log and not yet flushed
    poisoned,    \* an effect panicked while the mutex was held
    server,      \* "up", "down", or "refused" by recover
    crashes,     \* the kinds of crash this behaviour has
    effects,     \* history: how often the effect of each key ran
    told,        \* history: the last outcome each client was told
    spent        \* how much of each bound is spent

adminVars == <<diary, flushed, journal, execution, request, appended, poisoned,
               server, crashes, effects, told, spent>>
memory    == <<journal, execution, request, appended, poisoned>>

Outcomes == {"ok", "error", "reconciled"}
States   == {"absent", "unknown"} \cup Outcomes

Intent(k)    == [kind |-> "intent", key |-> k, state |-> "unknown"]
Result(k, s) == [kind |-> "result", key |-> k, state |-> s]
Records      == {Intent(k) : k \in AdminKeys} \cup {Result(k, s) : k \in AdminKeys, s \in Outcomes}

-----------------------------------------------------------------------------
\* What percorrer_diario finds in the first n records.
HasIntent(n, k) == \E i \in 1 .. n : diary[i].kind = "intent" /\ diary[i].key = k
HasResult(n, k) == \E i \in 1 .. n : diary[i].kind = "result" /\ diary[i].key = k
StateIn(n, k) ==
    IF HasResult(n, k)
    THEN CHOOSE s \in Outcomes : \E i \in 1 .. n : diary[i] = Result(k, s)
    ELSE IF HasIntent(n, k) THEN "unknown" ELSE "absent"

\* aplicar_registo takes record i after the ones before it.
Applies(i) ==
    IF diary[i].kind = "intent"
    THEN ~HasIntent(i - 1, diary[i].key) /\ ~HasResult(i - 1, diary[i].key)
    ELSE HasIntent(i - 1, diary[i].key) /\ ~HasResult(i - 1, diary[i].key)
Recoverable(n) == \A i \in 1 .. n : Applies(i)

NoRequest == [key |-> NoKey, target |-> NoKey, outcome |-> "unknown"]

AdminInit ==
    /\ diary = << >> /\ flushed = 0
    /\ journal = [k \in AdminKeys |-> "absent"]
    /\ execution = "free" /\ request = NoRequest /\ appended = FALSE /\ poisoned = FALSE
    /\ server = "up"
    /\ crashes \in SUBSET {"kill", "power"}
    /\ effects = [k \in AdminKeys |-> 0]
    /\ told = [k \in AdminKeys |-> "none"]
    /\ spent = [faults |-> 0, crashes |-> 0]

Fault == spent.faults < MaxAdminFaults /\ spent' = [spent EXCEPT !.faults = @ + 1]

-----------------------------------------------------------------------------
(* execute *)

\* A key nobody used is reserved before anything is written.
Execute(k, target) ==
    /\ server = "up" /\ execution = "free" /\ ~poisoned
    /\ journal[k] = "absent"
    /\ journal' = [journal EXCEPT ![k] = "unknown"]
    /\ execution' = "intent"
    /\ request' = [key |-> k, target |-> target, outcome |-> "unknown"]
    /\ UNCHANGED <<diary, flushed, appended, poisoned, server, crashes, effects, told, spent>>

\* A retry is answered with the outcome the journal has; UNKNOWN is an error.
Retry(k) ==
    /\ server = "up" /\ execution = "free" /\ ~poisoned
    /\ journal[k] \in Outcomes
    /\ told' = [told EXCEPT ![k] = journal[k]]
    /\ UNCHANGED <<diary, flushed, memory, server, crashes, effects, spent>>

\* The record the call persists next: append_internal, then flush.
Record ==
    CASE execution = "intent" -> Intent(request.key)
      [] execution = "settle" -> Result(request.target, "reconciled")
      [] OTHER                -> Result(request.key, request.outcome)

Persists == execution \in {"intent", "settle", "result"}

AppendRecord ==
    /\ Persists /\ ~appended
    /\ diary' = Append(diary, Record) /\ appended' = TRUE
    /\ UNCHANGED <<flushed, journal, execution, request, poisoned, server, crashes,
                   effects, told, spent>>

\* Mutants: no fsync between the intent and the effect, or after the result.
FlushedButIntents == IF execution = "intent" THEN flushed ELSE Len(diary)
FlushedButResults == IF execution = "result" THEN flushed ELSE Len(diary)

\* How far `flush` makes the log durable.
Flushed == Len(diary)

\* The reconciled key, or the finished one, has its outcome from here on.
FlushRecord ==
    /\ appended
    /\ flushed' = Flushed /\ appended' = FALSE
    /\ CASE execution = "intent" ->
              /\ execution' = "effect"
              /\ UNCHANGED <<journal, request, told>>
         [] execution = "settle" ->
              /\ execution' = "result"
              /\ journal' = [journal EXCEPT ![request.target] = "reconciled"]
              /\ request' = [request EXCEPT !.outcome = "ok"]
              /\ UNCHANGED told
         [] OTHER ->
              /\ execution' = "free" /\ request' = NoRequest
              /\ journal' = [journal EXCEPT ![request.key] = request.outcome]
              /\ told' = [told EXCEPT ![request.key] = request.outcome]
    /\ UNCHANGED <<diary, poisoned, server, crashes, effects, spent>>

\* The append or the fsync fails, before or after the record is in the log.
\* A failed settle is the error of the effect; any other ends the call, and
\* the key stays reserved.
PersistFails ==
    /\ Persists /\ Fault
    /\ appended' = FALSE
    /\ IF execution = "settle"
       THEN execution' = "result" /\ request' = [request EXCEPT !.outcome = "error"]
       ELSE execution' = "free" /\ request' = NoRequest
    /\ UNCHANGED <<diary, flushed, journal, poisoned, server, crashes, effects, told>>

\* The effect of an operation that is not a reconciliation.
RunEffect(outcome) ==
    /\ execution = "effect" /\ request.target = NoKey
    /\ effects' = [effects EXCEPT ![request.key] = @ + 1]
    /\ execution' = "result" /\ request' = [request EXCEPT !.outcome = outcome]
    /\ UNCHANGED <<diary, flushed, journal, appended, poisoned, server, crashes, told, spent>>

EffectPanics ==
    /\ execution = "effect" /\ request.target = NoKey
    /\ Fault
    /\ effects' = [effects EXCEPT ![request.key] = @ + 1]
    /\ execution' = "free" /\ request' = NoRequest /\ poisoned' = TRUE
    /\ UNCHANGED <<diary, flushed, journal, appended, server, crashes, told>>

\* Mutant: reconcile trusts the memory.
ReconcilableInMemory(k) == k # request.key /\ journal[k] = "unknown"

\* reconcile: the log decides, not the memory.
Reconcilable(k) ==
    /\ k # request.key
    /\ ~HasResult(Len(diary), k) /\ HasIntent(Len(diary), k)
    /\ journal[k] = "unknown"

Reconcile ==
    /\ execution = "effect" /\ request.target # NoKey
    /\ IF Reconcilable(request.target)
       THEN execution' = "settle" /\ UNCHANGED <<journal, request>>
       ELSE /\ execution' = "result" /\ request' = [request EXCEPT !.outcome = "error"]
            /\ journal' =
                 IF request.target # request.key /\ HasResult(Len(diary), request.target)
                 THEN [journal EXCEPT ![request.target] = StateIn(Len(diary), request.target)]
                 ELSE journal
    /\ UNCHANGED <<diary, flushed, appended, poisoned, server, crashes, effects, told, spent>>

-----------------------------------------------------------------------------
(* Outside a call *)

\* Another client of the log flushes it.
OthersFlush ==
    /\ server = "up" /\ flushed < Len(diary)
    /\ flushed' = Len(diary)
    /\ UNCHANGED <<diary, memory, server, crashes, effects, told, spent>>

Crash(kind) ==
    /\ kind \in crashes /\ server = "up"
    /\ spent.crashes < MaxAdminCrashes
    /\ spent' = [spent EXCEPT !.crashes = @ + 1]
    /\ server' = "down"
    /\ journal' = [k \in AdminKeys |-> "absent"]
    /\ execution' = "free" /\ request' = NoRequest /\ appended' = FALSE /\ poisoned' = FALSE
    /\ UNCHANGED <<crashes, effects, told>>

\* The page cache survives a kill ...
AdminKill == Crash("kill") /\ UNCHANGED <<diary, flushed>>

\* ... and any part of what was not flushed is lost with the power.
AdminPowerLoss(n) ==
    /\ Crash("power")
    /\ n \in flushed .. Len(diary)
    /\ diary' = SubSeq(diary, 1, n) /\ flushed' = n

Recover ==
    /\ server = "down"
    /\ IF Recoverable(Len(diary))
       THEN server' = "up" /\ journal' = [k \in AdminKeys |-> StateIn(Len(diary), k)]
       ELSE server' = "refused" /\ UNCHANGED journal
    /\ UNCHANGED <<diary, flushed, execution, request, appended, poisoned, crashes, effects,
                   told, spent>>

AdminNext ==
    \/ \E k \in AdminKeys, target \in AdminKeys \cup {NoKey} : Execute(k, target)
    \/ \E k \in AdminKeys : Retry(k)
    \/ AppendRecord \/ FlushRecord \/ PersistFails
    \/ \E outcome \in {"ok", "error"} : RunEffect(outcome)
    \/ EffectPanics \/ Reconcile
    \/ OthersFlush \/ AdminKill
    \/ \E n \in 0 .. Len(diary) : AdminPowerLoss(n)
    \/ Recover

AdminSpec == AdminInit /\ [][AdminNext]_adminVars

-----------------------------------------------------------------------------
AdminTypeOK ==
    /\ diary \in Seq(Records) /\ flushed \in 0 .. Len(diary)
    /\ journal \in [AdminKeys -> States]
    /\ execution \in {"free", "intent", "effect", "settle", "result"}
    /\ request \in [key : AdminKeys \cup {NoKey}, target : AdminKeys \cup {NoKey},
                    outcome : {"unknown", "ok", "error"}]
    /\ execution # "free" <=> request.key # NoKey
    /\ appended \in BOOLEAN /\ poisoned \in BOOLEAN
    /\ server \in {"up", "down", "refused"}
    /\ crashes \subseteq {"kill", "power"}
    /\ effects \in [AdminKeys -> Nat]
    /\ told \in [AdminKeys -> {"none"} \cup Outcomes]
    /\ spent \in [faults : 0 .. MaxAdminFaults, crashes : 0 .. MaxAdminCrashes]

\* The effect of a key never runs a second time, whatever failed, was killed
\* or was retried: execute reserves, flushes the intent, and only then acts.
EffectAtMostOnce == \A k \in AdminKeys : effects[k] <= 1

\* Whatever prefix of the diary a crash leaves, recover accepts it: no call,
\* reconcile included, writes an orphan or a second result.
JournalNeverRefused == \A n \in flushed .. Len(diary) : Recoverable(n)

\* An outcome a client was told is the one every later retry is told, across
\* crashes of one kind.  (After a kill the log is read from the page cache,
\* and nothing flushes it before a retry is answered from it.)
OutcomeStands ==
    [][crashes # {"kill", "power"} =>
         \A k \in AdminKeys : told[k] # "none" => told'[k] = told[k]]_adminVars

=============================================================================
