---------------------------- MODULE Node_proofs ----------------------------
(***************************************************************************)
(* The administrative journal, the directory of manifests and what is      *)
(* derived from the log, three of the parts a node is made of (MCNode).    *)
(*                                                                         *)
(* TrustedAdmin, for any set of keys and any number of failures and        *)
(* crashes: an effect never runs twice because a key that ran has its      *)
(* intent below `flushed`, so that every journal a boot reads has it, and  *)
(* a key the journal does not have has no record.                          *)
(*                                                                         *)
(* ManifestStore, for any number of commits, collections, kills and power  *)
(* failures: what CURRENT says is below no more files than commits failed  *)
(* since the collection under way began, and the one in flight, so that a  *)
(* collection that keeps more than those keeps it.                         *)
(*                                                                         *)
(* DerivedState, for any views, appenders, episodes, shreds and stops, on  *)
(* a node that is not a replica: the gate leaves who saves, rebuilds or    *)
(* erases alone with what is derived, so that it is the whole log, less    *)
(* the episodes in flight; and each of those opens, so that no applied     *)
(* record is one that a destroyed key sealed.                              *)
(***************************************************************************)
EXTENDS TrustedAdmin, ManifestStore, DerivedState, TLAPS, WellFoundedInduction, FiniteSetTheorems

Commands == [key : AdminKeys \cup {NoKey}, target : AdminKeys \cup {NoKey},
             outcome : {"unknown", "ok", "error"}]

\* What each step of the call under way knows of the records of its key.
PhaseInv ==
    /\ execution # "free" => server = "up" /\ journal[request.key] = "unknown"
    /\ appended => Persists
    /\ execution = "intent" =>
         /\ effects[request.key] = 0
         /\ appended <=> HasIntent(Len(diary), request.key)
         /\ ~HasResult(Len(diary), request.key)
    /\ execution \in {"effect", "settle", "result"} =>
         /\ HasIntent(flushed, request.key)
         /\ (execution = "result" => ~appended) => ~HasResult(Len(diary), request.key)
    /\ execution = "effect" => effects[request.key] = 0
    /\ execution = "settle" =>
         /\ request.target \in AdminKeys /\ request.target # request.key
         /\ HasIntent(Len(diary), request.target)
         /\ ~appended => ~HasResult(Len(diary), request.target)
    /\ execution = "result" => request.outcome \in {"ok", "error"}
    /\ execution \in {"intent", "effect"} => request.outcome = "unknown"

\* An effect that ran has a flushed intent.
EffectsLogged == \A k \in AdminKeys : effects[k] > 0 => HasIntent(flushed, k)

\* The journal in memory has every key the log has.
JournalCovers ==
    server = "up" => \A k \in AdminKeys :
                        journal[k] = "absent" => /\ ~HasIntent(Len(diary), k)
                                                 /\ ~HasResult(Len(diary), k)

AdminInv ==
    /\ AdminTypeOK
    /\ PhaseInv
    /\ EffectsLogged
    /\ JournalCovers
    /\ Recoverable(Len(diary))
    /\ EffectAtMostOnce

-----------------------------------------------------------------------------
(* The diary as it grows and as it is cut *)

LEMMA RecordTypes ==
    ASSUME AdminTypeOK, PhaseInv, Persists
    PROVE  /\ Record \in Records
           /\ execution = "intent" => Record = Intent(request.key)
           /\ execution = "settle" => Record = Result(request.target, "reconciled")
           /\ execution = "result" => Record = Result(request.key, request.outcome)
           /\ request.key \in AdminKeys
  BY DEF AdminTypeOK, PhaseInv, Persists, Record, Records, Intent, Result, Outcomes

LEMMA EarlierIsIncluded ==
    ASSUME AdminTypeOK, NEW m \in Nat, NEW n \in Nat, m <= n, NEW k
    PROVE  /\ HasIntent(m, k) => HasIntent(n, k)
           /\ HasResult(m, k) => HasResult(n, k)
           /\ Recoverable(n) => Recoverable(m)
  BY DEF HasIntent, HasResult, Recoverable

LEMMA DiaryKnows ==
    ASSUME AdminTypeOK
    PROVE  \A k : HasIntent(flushed, k) => HasIntent(Len(diary), k)
  BY EarlierIsIncluded DEF AdminTypeOK

LEMMA DiaryGrows ==
    ASSUME AdminTypeOK, NEW r \in Records, diary' = Append(diary, r)
    PROVE  /\ diary' \in Seq(Records) /\ Len(diary') = Len(diary) + 1
           /\ \A k : /\ HasIntent(Len(diary), k)' <=>
                           HasIntent(Len(diary), k) \/ (r.kind = "intent" /\ r.key = k)
                     /\ HasResult(Len(diary), k)' <=>
                           HasResult(Len(diary), k) \/ (r.kind = "result" /\ r.key = k)
                     /\ flushed' = flushed => (HasIntent(flushed, k)' <=> HasIntent(flushed, k))
           /\ Recoverable(Len(diary))' <=>
                 /\ Recoverable(Len(diary))
                 /\ IF r.kind = "intent"
                    THEN ~HasIntent(Len(diary), r.key) /\ ~HasResult(Len(diary), r.key)
                    ELSE HasIntent(Len(diary), r.key) /\ ~HasResult(Len(diary), r.key)
<1>1. /\ diary' \in Seq(Records) /\ Len(diary') = Len(diary) + 1 /\ Len(diary) \in Nat
      /\ \A i \in 1 .. Len(diary) : diary'[i] = diary[i]
      /\ diary'[Len(diary) + 1] = r
  BY DEF AdminTypeOK
<1>3. \A k : /\ HasIntent(Len(diary), k)' <=>
                   HasIntent(Len(diary), k) \/ (r.kind = "intent" /\ r.key = k)
             /\ HasResult(Len(diary), k)' <=>
                   HasResult(Len(diary), k) \/ (r.kind = "result" /\ r.key = k)
  BY <1>1 DEF HasIntent, HasResult
<1>4. \A k : flushed' = flushed => (HasIntent(flushed, k)' <=> HasIntent(flushed, k))
  BY <1>1 DEF AdminTypeOK, HasIntent
<1>5. \A i \in 1 .. Len(diary) : Applies(i)' <=> Applies(i)
  <2>1. TAKE i \in 1 .. Len(diary)
  <2>2. i - 1 \in 0 .. Len(diary) /\ diary'[i] = diary[i]
    BY <1>1
  <2>3. \A k : /\ HasIntent(i - 1, k)' <=> HasIntent(i - 1, k)
               /\ HasResult(i - 1, k)' <=> HasResult(i - 1, k)
    BY <1>1, <2>2 DEF HasIntent, HasResult
  <2> QED
    BY <2>2, <2>3 DEF Applies
<1>6. Applies(Len(diary))' <=>
        IF r.kind = "intent"
        THEN ~HasIntent(Len(diary), r.key) /\ ~HasResult(Len(diary), r.key)
        ELSE HasIntent(Len(diary), r.key) /\ ~HasResult(Len(diary), r.key)
  <2>1. Len(diary') - 1 = Len(diary) /\ diary'[Len(diary')] = r /\ Len(diary) \in 0 .. Len(diary)
    BY <1>1
  <2>2. \A k : /\ (\E i \in 1 .. Len(diary) : diary'[i].kind = "intent" /\ diary'[i].key = k)
                    <=> HasIntent(Len(diary), k)
               /\ (\E i \in 1 .. Len(diary) : diary'[i].kind = "result" /\ diary'[i].key = k)
                    <=> HasResult(Len(diary), k)
    BY <1>1 DEF HasIntent, HasResult
  <2> QED
    BY <2>1, <2>2 DEF Applies, HasIntent, HasResult
<1>7. Recoverable(Len(diary))' <=> Recoverable(Len(diary)) /\ Applies(Len(diary))'
  BY <1>1, <1>5 DEF Recoverable
<1> QED
  BY <1>1, <1>3, <1>4, <1>6, <1>7

LEMMA DiaryCut ==
    ASSUME AdminTypeOK, NEW n \in flushed .. Len(diary),
           diary' = SubSeq(diary, 1, n), flushed' = n
    PROVE  /\ diary' \in Seq(Records) /\ Len(diary') = n
           /\ \A k : HasIntent(flushed, k)' <=> HasIntent(n, k)
           /\ Recoverable(Len(diary))' <=> Recoverable(n)
<1>1. n \in Nat /\ n <= Len(diary) /\ diary' \in Seq(Records) /\ Len(diary') = n
      /\ \A i \in 1 .. n : diary'[i] = diary[i]
  BY DEF AdminTypeOK
<1>3. \A i \in 1 .. n : Applies(i)' <=> Applies(i)
  <2>1. TAKE i \in 1 .. n
  <2>2. diary'[i] = diary[i] /\ \A j \in 1 .. i - 1 : diary'[j] = diary[j]
    BY <1>1
  <2>3. \A k : /\ HasIntent(i - 1, k)' <=> HasIntent(i - 1, k)
               /\ HasResult(i - 1, k)' <=> HasResult(i - 1, k)
    BY <2>2, Zenon DEF HasIntent, HasResult
  <2> QED
    BY <2>2, <2>3 DEF Applies
<1>4. Recoverable(Len(diary))' <=> Recoverable(n)
  BY <1>1, <1>3 DEF Recoverable
<1>5. \A k : HasIntent(flushed, k)' <=> HasIntent(n, k)
  BY <1>1 DEF HasIntent
<1> QED
  BY <1>1, <1>4, <1>5

\* What recover reads is a state, and `absent` only if there is no record.
LEMMA StateRead ==
    ASSUME AdminTypeOK, NEW k \in AdminKeys
    PROVE  /\ StateIn(Len(diary), k) \in States
           /\ StateIn(Len(diary), k) = "absent" =>
                ~HasIntent(Len(diary), k) /\ ~HasResult(Len(diary), k)
           /\ HasResult(Len(diary), k) => StateIn(Len(diary), k) \in Outcomes
<1>1. CASE HasResult(Len(diary), k)
  <2>1. PICK i \in 1 .. Len(diary) : diary[i].kind = "result" /\ diary[i].key = k
    BY <1>1 DEF HasResult
  <2>2. diary[i] \in Records
    BY DEF AdminTypeOK
  <2>3. PICK s \in Outcomes : diary[i] = Result(k, s)
    BY <2>1, <2>2 DEF Records, Intent, Result
  <2>4. (CHOOSE t \in Outcomes : \E j \in 1 .. Len(diary) : diary[j] = Result(k, t)) \in Outcomes
    BY <2>3
  <2> QED
    BY <1>1, <2>4 DEF StateIn, States, Outcomes
<1>2. CASE ~HasResult(Len(diary), k)
  BY <1>2 DEF StateIn, States, Outcomes
<1> QED
  BY <1>1, <1>2

LEMMA DiaryStays ==
    ASSUME AdminTypeOK, diary' = diary
    PROVE  /\ \A k : /\ HasIntent(Len(diary), k)' <=> HasIntent(Len(diary), k)
                     /\ HasResult(Len(diary), k)' <=> HasResult(Len(diary), k)
                     /\ flushed' = flushed => (HasIntent(flushed, k)' <=> HasIntent(flushed, k))
                     /\ flushed' = Len(diary) => (HasIntent(flushed, k)' <=> HasIntent(Len(diary), k))
                     /\ HasIntent(flushed, k) => HasIntent(Len(diary), k)
           /\ Recoverable(Len(diary))' <=> Recoverable(Len(diary))
<1>1. \A k : /\ HasIntent(Len(diary), k)' <=> HasIntent(Len(diary), k)
             /\ HasResult(Len(diary), k)' <=> HasResult(Len(diary), k)
             /\ flushed' = flushed => (HasIntent(flushed, k)' <=> HasIntent(flushed, k))
             /\ flushed' = Len(diary) => (HasIntent(flushed, k)' <=> HasIntent(Len(diary), k))
  BY DEF HasIntent, HasResult
<1>2. \A k : HasIntent(flushed, k) => HasIntent(Len(diary), k)
  BY EarlierIsIncluded DEF AdminTypeOK
<1>3. Recoverable(Len(diary))' <=> Recoverable(Len(diary))
  BY DEF Recoverable, Applies, HasIntent, HasResult
<1> QED
  BY <1>1, <1>2, <1>3

-----------------------------------------------------------------------------
(* The invariant is inductive *)

LEMMA RequestTypes ==
    ASSUME AdminTypeOK, AdminAssumption
    PROVE  /\ NoRequest \in Commands /\ NoRequest.key = NoKey /\ request \in Commands
           /\ \A o \in {"unknown", "ok", "error"} :
                /\ [request EXCEPT !.outcome = o] \in Commands
                /\ [request EXCEPT !.outcome = o].key = request.key
                /\ [request EXCEPT !.outcome = o].target = request.target
                /\ [request EXCEPT !.outcome = o].outcome = o
  BY DEF AdminTypeOK, Commands, NoRequest

LEMMA SpentTypes ==
    ASSUME AdminTypeOK, AdminAssumption
    PROVE  /\ Fault => spent' \in [faults : 0 .. MaxAdminFaults, crashes : 0 .. MaxAdminCrashes]
           /\ \A kind : Crash(kind) =>
                spent' \in [faults : 0 .. MaxAdminFaults, crashes : 0 .. MaxAdminCrashes]
<1>1. ASSUME Fault PROVE spent' = [faults |-> spent.faults + 1, crashes |-> spent.crashes]
  BY <1>1 DEF Fault, AdminTypeOK
<1>2. ASSUME NEW kind, Crash(kind)
      PROVE  spent' = [faults |-> spent.faults, crashes |-> spent.crashes + 1]
  BY <1>2 DEF Crash, AdminTypeOK
<1>3. /\ Fault => spent.faults + 1 \in 0 .. MaxAdminFaults
      /\ \A kind : Crash(kind) => spent.crashes + 1 \in 0 .. MaxAdminCrashes
      /\ spent.faults \in 0 .. MaxAdminFaults /\ spent.crashes \in 0 .. MaxAdminCrashes
  BY DEF AdminTypeOK, AdminAssumption, Fault, Crash
<1> QED
  BY <1>1, <1>2, <1>3

LEMMA AdminInitInv == AdminInit => AdminInv
<1> SUFFICES ASSUME AdminInit PROVE AdminInv
  OBVIOUS
<1> USE AdminAssumption
<1>1. AdminTypeOK
  <2>1. diary \in Seq(Records) /\ flushed \in 0 .. Len(diary)
    BY DEF AdminInit
  <2>2. spent \in [faults : 0 .. MaxAdminFaults, crashes : 0 .. MaxAdminCrashes]
    BY DEF AdminInit, AdminAssumption
  <2> QED
    BY <2>1, <2>2 DEF AdminInit, AdminTypeOK, NoRequest, States, Outcomes
<1>2. PhaseInv /\ EffectsLogged /\ JournalCovers /\ EffectAtMostOnce
  BY DEF AdminInit, PhaseInv, EffectsLogged, JournalCovers, EffectAtMostOnce,
         HasIntent, HasResult
<1>3. Recoverable(Len(diary))
  BY DEF AdminInit, Recoverable
<1> QED
  BY <1>1, <1>2, <1>3 DEF AdminInv

\* Every action keeps it.
LEMMA AdminStep == AdminInv /\ [AdminNext]_adminVars => AdminInv'
<1> SUFFICES ASSUME AdminInv, [AdminNext]_adminVars PROVE AdminInv'
  OBVIOUS
<1> USE AdminAssumption
<1>0. /\ AdminTypeOK /\ PhaseInv /\ EffectsLogged /\ JournalCovers
      /\ Recoverable(Len(diary)) /\ EffectAtMostOnce /\ Len(diary) \in Nat
  BY DEF AdminInv, AdminTypeOK
<1>1. ASSUME NEW k \in AdminKeys, NEW target \in AdminKeys \cup {NoKey}, Execute(k, target) PROVE AdminInv'
  <2>1. diary' = diary
    BY <1>1 DEF Execute
  <2>2. AdminTypeOK'
    <3>1. request' \in Commands /\ (execution' # "free" <=> request'.key # NoKey)
      BY <1>0, <1>1, RequestTypes DEF Execute, AdminTypeOK, Commands
    <3>2. spent' \in [faults : 0 .. MaxAdminFaults, crashes : 0 .. MaxAdminCrashes]
      BY <1>0, <1>1, SpentTypes DEF Execute, AdminTypeOK
    <3>3. journal' \in [AdminKeys -> States] /\ effects' \in [AdminKeys -> Nat]
      BY <1>0, <1>1 DEF Execute, AdminTypeOK, States, Outcomes, PhaseInv
    <3> QED
      BY <1>0, <1>1, <2>1, <3>1, <3>2, <3>3
         DEF Execute, AdminTypeOK, Commands, Outcomes, PhaseInv
  <2>3. PhaseInv'
    BY <1>0, <1>1, <2>1, DiaryStays DEF Execute, PhaseInv, JournalCovers, EffectsLogged, AdminTypeOK, Persists, NoRequest, Outcomes, Reconcilable
  <2>4. EffectsLogged' /\ EffectAtMostOnce'
    BY <1>0, <1>1, <2>1, DiaryStays DEF Execute, EffectsLogged, EffectAtMostOnce, AdminTypeOK, PhaseInv
  <2>5. JournalCovers'
    BY <1>0, <1>1, <2>1, DiaryStays DEF Execute, JournalCovers, AdminTypeOK, Outcomes, PhaseInv
  <2> QED
    BY <1>0, <2>1, <2>2, <2>3, <2>4, <2>5, DiaryStays DEF AdminInv
<1>2. ASSUME NEW k \in AdminKeys, Retry(k) PROVE AdminInv'
  <2>1. diary' = diary
    BY <1>2 DEF Retry, memory
  <2>2. AdminTypeOK'
    <3>1. request' \in Commands /\ (execution' # "free" <=> request'.key # NoKey)
      BY <1>0, <1>2, RequestTypes DEF Retry, memory, AdminTypeOK, Commands
    <3>2. spent' \in [faults : 0 .. MaxAdminFaults, crashes : 0 .. MaxAdminCrashes]
      BY <1>0, <1>2, SpentTypes DEF Retry, memory, AdminTypeOK
    <3>3. journal' \in [AdminKeys -> States] /\ effects' \in [AdminKeys -> Nat]
      BY <1>0, <1>2 DEF Retry, memory, AdminTypeOK, States, Outcomes, PhaseInv
    <3> QED
      BY <1>0, <1>2, <2>1, <3>1, <3>2, <3>3
         DEF Retry, memory, AdminTypeOK, Commands, Outcomes, PhaseInv
  <2>3. PhaseInv'
    BY <1>0, <1>2, <2>1, DiaryStays DEF Retry, memory, PhaseInv, JournalCovers, EffectsLogged, AdminTypeOK, Persists, NoRequest, Outcomes, Reconcilable
  <2>4. EffectsLogged' /\ EffectAtMostOnce'
    BY <1>0, <1>2, <2>1, DiaryStays DEF Retry, memory, EffectsLogged, EffectAtMostOnce, AdminTypeOK, PhaseInv
  <2>5. JournalCovers'
    BY <1>0, <1>2, <2>1, DiaryStays DEF Retry, memory, JournalCovers, AdminTypeOK, Outcomes, PhaseInv
  <2> QED
    BY <1>0, <2>1, <2>2, <2>3, <2>4, <2>5, DiaryStays DEF AdminInv
<1>3. ASSUME AppendRecord PROVE AdminInv'
  <2>1. Record \in Records /\ diary' = Append(diary, Record)
    BY <1>0, <1>3, RecordTypes DEF AppendRecord
  <2>2. /\ diary' \in Seq(Records) /\ Len(diary') = Len(diary) + 1
        /\ UNCHANGED <<flushed, journal, execution, request, server, effects>>
    BY <1>0, <1>3, <2>1, DiaryGrows DEF AppendRecord
  <2>3. AdminTypeOK'
    BY <1>0, <1>3, <2>2 DEF AppendRecord, AdminTypeOK
  <2>4. PhaseInv' /\ EffectsLogged' /\ JournalCovers' /\ Recoverable(Len(diary))'
    <3>1. CASE execution = "intent"
      <4>1. Record = Intent(request.key) /\ request.key \in AdminKeys
        BY <1>0, <1>3, <3>1, RecordTypes DEF AppendRecord
      <4>2. PhaseInv'
        BY <1>0, <1>3, <2>1, <2>2, <3>1, <4>1, DiaryGrows
           DEF AppendRecord, PhaseInv, EffectsLogged, JournalCovers, Intent, Persists, AdminTypeOK
      <4>3. EffectsLogged' /\ JournalCovers'
        BY <1>0, <1>3, <2>1, <2>2, <3>1, <4>1, DiaryGrows
           DEF AppendRecord, PhaseInv, EffectsLogged, JournalCovers, Intent, Persists, AdminTypeOK
      <4>4. Recoverable(Len(diary))'
        BY <1>0, <1>3, <2>1, <2>2, <3>1, <4>1, DiaryGrows
           DEF AppendRecord, PhaseInv, EffectsLogged, JournalCovers, Intent, Persists, AdminTypeOK
      <4> QED
        BY <4>2, <4>3, <4>4
    <3>2. CASE execution = "settle"
      <4>1. Record = Result(request.target, "reconciled") /\ request.key \in AdminKeys
        BY <1>0, <1>3, <3>2, RecordTypes DEF AppendRecord
      <4> QED
        BY <1>0, <1>3, <2>1, <2>2, <3>2, <4>1, DiaryGrows, DiaryStays
           DEF AppendRecord, PhaseInv, EffectsLogged, JournalCovers, Result, Persists, AdminTypeOK
    <3>3. CASE execution = "result"
      <4>1. Record = Result(request.key, request.outcome) /\ request.key \in AdminKeys
        BY <1>0, <1>3, <3>3, RecordTypes DEF AppendRecord
      <4>2. PhaseInv'
        BY <1>0, <1>3, <2>1, <2>2, <3>3, <4>1, DiaryGrows, DiaryKnows
           DEF AppendRecord, PhaseInv, EffectsLogged, JournalCovers, Result, Persists, AdminTypeOK
      <4>3. EffectsLogged' /\ JournalCovers'
        BY <1>0, <1>3, <2>1, <2>2, <3>3, <4>1, DiaryGrows, DiaryKnows
           DEF AppendRecord, PhaseInv, EffectsLogged, JournalCovers, Result, Persists, AdminTypeOK
      <4>4. Recoverable(Len(diary))'
        BY <1>0, <1>3, <2>1, <2>2, <3>3, <4>1, DiaryGrows, DiaryKnows
           DEF AppendRecord, PhaseInv, EffectsLogged, JournalCovers, Result, Persists, AdminTypeOK
      <4> QED
        BY <4>2, <4>3, <4>4
    <3> QED
      BY <1>3, <3>1, <3>2, <3>3 DEF AppendRecord, Persists
  <2> QED
    BY <1>0, <2>2, <2>3, <2>4 DEF AdminInv, EffectAtMostOnce
<1>4. ASSUME FlushRecord PROVE AdminInv'
  <2>1. /\ diary' = diary /\ flushed' = Len(diary) /\ appended /\ appended' = FALSE
        /\ UNCHANGED <<poisoned, server, crashes, effects, spent>>
        /\ execution \in {"intent", "settle", "result"}
        /\ request.key \in AdminKeys /\ journal[request.key] = "unknown"
    BY <1>0, <1>4 DEF FlushRecord, Flushed, PhaseInv, Persists, AdminTypeOK
  <2>2. /\ execution = "intent" => execution' = "effect" /\ UNCHANGED <<journal, request, told>>
        /\ execution = "settle" =>
             /\ execution' = "result" /\ told' = told
             /\ journal' = [journal EXCEPT ![request.target] = "reconciled"]
             /\ request' = [request EXCEPT !.outcome = "ok"]
        /\ execution = "result" =>
             /\ execution' = "free" /\ request' = NoRequest
             /\ journal' = [journal EXCEPT ![request.key] = request.outcome]
             /\ told' = [told EXCEPT ![request.key] = request.outcome]
    BY <1>4 DEF FlushRecord
  <2>3. AdminTypeOK'
    <3>1. request' \in Commands /\ (execution' # "free" <=> request'.key # NoKey)
      BY <1>0, <2>1, <2>2, RequestTypes DEF AdminTypeOK
    <3>2. /\ journal' \in [AdminKeys -> States]
          /\ told' \in [AdminKeys -> {"none"} \cup Outcomes]
      <4>1. execution = "result" => request.outcome \in Outcomes
        BY <1>0 DEF PhaseInv, Outcomes
      <4> QED
        BY <1>0, <2>1, <2>2, <4>1 DEF AdminTypeOK, States, Outcomes
    <3>3. execution' \in {"free", "effect", "result"} /\ flushed' \in 0 .. Len(diary')
      BY <1>0, <2>1, <2>2
    <3> QED
      BY <1>0, <2>1, <3>1, <3>2, <3>3 DEF AdminTypeOK, Commands
  <2>4. PhaseInv'
    <3>1. CASE execution = "intent"
      <4>1. /\ HasIntent(flushed, request.key)' /\ ~HasResult(Len(diary), request.key)'
            /\ effects'[request.key] = 0
        BY <1>0, <2>1, <2>2, <3>1, DiaryStays DEF PhaseInv
      <4>2. request.outcome = "unknown"
        BY <1>0, <3>1 DEF PhaseInv
      <4> QED
        BY <1>0, <2>1, <2>2, <3>1, <4>1, <4>2 DEF PhaseInv, Persists
    <3>2. CASE execution = "settle"
      <4>1. /\ request'.key = request.key /\ request'.outcome = "ok" /\ execution' = "result"
            /\ request.key # request.target /\ journal'[request.key] = "unknown"
        BY <1>0, <2>1, <2>2, <3>2, RequestTypes DEF PhaseInv, AdminTypeOK
      <4>2. HasIntent(flushed, request.key)' /\ ~HasResult(Len(diary), request.key)'
        <5>1. HasIntent(Len(diary), request.key) /\ ~HasResult(Len(diary), request.key)
          BY <1>0, <2>1, <3>2, DiaryKnows DEF PhaseInv
        <5> QED
          BY <2>1, <4>1, <5>1 DEF HasIntent, HasResult
      <4> QED
        BY <1>0, <2>1, <4>1, <4>2 DEF PhaseInv, Persists
    <3>3. CASE execution = "result"
      BY <2>1, <2>2, <3>3 DEF PhaseInv, Persists
    <3> QED
      BY <2>1, <3>1, <3>2, <3>3
  <2>5. EffectsLogged' /\ EffectAtMostOnce'
    BY <1>0, <2>1, DiaryStays DEF EffectsLogged, EffectAtMostOnce, AdminTypeOK
  <2>6. JournalCovers'
    <3>1. \A k \in AdminKeys : journal'[k] = "absent" => journal[k] = "absent"
      <4>1. execution = "result" => request.outcome # "absent"
        BY <1>0 DEF PhaseInv
      <4> QED
        BY <1>0, <2>1, <2>2, <4>1 DEF AdminTypeOK
    <3> QED
      BY <1>0, <2>1, <3>1, DiaryStays DEF JournalCovers
  <2> QED
    BY <1>0, <2>1, <2>3, <2>4, <2>5, <2>6, DiaryStays DEF AdminInv
<1>5. ASSUME PersistFails PROVE AdminInv'
  <2>1. diary' = diary
    BY <1>5 DEF PersistFails, Persists
  <2>2. AdminTypeOK'
    <3>1. request' \in Commands /\ (execution' # "free" <=> request'.key # NoKey)
      BY <1>0, <1>5, RequestTypes DEF PersistFails, Persists, AdminTypeOK, Commands
    <3>2. spent' \in [faults : 0 .. MaxAdminFaults, crashes : 0 .. MaxAdminCrashes]
      BY <1>0, <1>5, SpentTypes DEF PersistFails, Persists, AdminTypeOK
    <3>3. journal' \in [AdminKeys -> States] /\ effects' \in [AdminKeys -> Nat]
      BY <1>0, <1>5 DEF PersistFails, Persists, AdminTypeOK, States, Outcomes, PhaseInv
    <3> QED
      BY <1>0, <1>5, <2>1, <3>1, <3>2, <3>3
         DEF PersistFails, Persists, AdminTypeOK, Commands, Outcomes, PhaseInv
  <2>3. PhaseInv'
    BY <1>0, <1>5, <2>1, DiaryStays DEF PersistFails, Persists, PhaseInv, JournalCovers, EffectsLogged, AdminTypeOK, Persists, NoRequest, Outcomes, Reconcilable
  <2>4. EffectsLogged' /\ EffectAtMostOnce'
    BY <1>0, <1>5, <2>1, DiaryStays DEF PersistFails, Persists, EffectsLogged, EffectAtMostOnce, AdminTypeOK, PhaseInv
  <2>5. JournalCovers'
    BY <1>0, <1>5, <2>1, DiaryStays DEF PersistFails, Persists, JournalCovers, AdminTypeOK, Outcomes, PhaseInv
  <2> QED
    BY <1>0, <2>1, <2>2, <2>3, <2>4, <2>5, DiaryStays DEF AdminInv
<1>6. ASSUME NEW outcome \in {"ok", "error"}, RunEffect(outcome) PROVE AdminInv'
  <2>1. diary' = diary
    BY <1>6 DEF RunEffect
  <2>2. AdminTypeOK'
    <3>1. request' \in Commands /\ (execution' # "free" <=> request'.key # NoKey)
      BY <1>0, <1>6, RequestTypes DEF RunEffect, AdminTypeOK, Commands
    <3>2. spent' \in [faults : 0 .. MaxAdminFaults, crashes : 0 .. MaxAdminCrashes]
      BY <1>0, <1>6, SpentTypes DEF RunEffect, AdminTypeOK
    <3>3. journal' \in [AdminKeys -> States] /\ effects' \in [AdminKeys -> Nat]
      BY <1>0, <1>6 DEF RunEffect, AdminTypeOK, States, Outcomes, PhaseInv
    <3> QED
      BY <1>0, <1>6, <2>1, <3>1, <3>2, <3>3
         DEF RunEffect, AdminTypeOK, Commands, Outcomes, PhaseInv
  <2>3. PhaseInv'
    BY <1>0, <1>6, <2>1, DiaryStays DEF RunEffect, PhaseInv, JournalCovers, EffectsLogged, AdminTypeOK, Persists, NoRequest, Outcomes, Reconcilable
  <2>4. EffectsLogged' /\ EffectAtMostOnce'
    BY <1>0, <1>6, <2>1, DiaryStays DEF RunEffect, EffectsLogged, EffectAtMostOnce, AdminTypeOK, PhaseInv
  <2>5. JournalCovers'
    BY <1>0, <1>6, <2>1, DiaryStays DEF RunEffect, JournalCovers, AdminTypeOK, Outcomes, PhaseInv
  <2> QED
    BY <1>0, <2>1, <2>2, <2>3, <2>4, <2>5, DiaryStays DEF AdminInv
<1>7. ASSUME EffectPanics PROVE AdminInv'
  <2>1. diary' = diary
    BY <1>7 DEF EffectPanics
  <2>2. AdminTypeOK'
    <3>1. request' \in Commands /\ (execution' # "free" <=> request'.key # NoKey)
      BY <1>0, <1>7, RequestTypes DEF EffectPanics, AdminTypeOK, Commands
    <3>2. spent' \in [faults : 0 .. MaxAdminFaults, crashes : 0 .. MaxAdminCrashes]
      BY <1>0, <1>7, SpentTypes DEF EffectPanics, AdminTypeOK
    <3>3. journal' \in [AdminKeys -> States] /\ effects' \in [AdminKeys -> Nat]
      BY <1>0, <1>7 DEF EffectPanics, AdminTypeOK, States, Outcomes, PhaseInv
    <3> QED
      BY <1>0, <1>7, <2>1, <3>1, <3>2, <3>3
         DEF EffectPanics, AdminTypeOK, Commands, Outcomes, PhaseInv
  <2>3. PhaseInv'
    BY <1>0, <1>7, <2>1, DiaryStays DEF EffectPanics, PhaseInv, JournalCovers, EffectsLogged, AdminTypeOK, Persists, NoRequest, Outcomes, Reconcilable
  <2>4. EffectsLogged' /\ EffectAtMostOnce'
    BY <1>0, <1>7, <2>1, DiaryStays DEF EffectPanics, EffectsLogged, EffectAtMostOnce, AdminTypeOK, PhaseInv
  <2>5. JournalCovers'
    BY <1>0, <1>7, <2>1, DiaryStays DEF EffectPanics, JournalCovers, AdminTypeOK, Outcomes, PhaseInv
  <2> QED
    BY <1>0, <2>1, <2>2, <2>3, <2>4, <2>5, DiaryStays DEF AdminInv
<1>8. ASSUME Reconcile PROVE AdminInv'
  <2>1. diary' = diary
    BY <1>8 DEF Reconcile
  <2>2. AdminTypeOK'
    <3>1. request' \in Commands /\ (execution' # "free" <=> request'.key # NoKey)
      BY <1>0, <1>8, RequestTypes DEF Reconcile, AdminTypeOK, Commands
    <3>2. spent' \in [faults : 0 .. MaxAdminFaults, crashes : 0 .. MaxAdminCrashes]
      BY <1>0, <1>8, SpentTypes DEF Reconcile, AdminTypeOK
    <3>3. journal' \in [AdminKeys -> States] /\ effects' \in [AdminKeys -> Nat]
      <4>1. \A k \in AdminKeys : StateIn(Len(diary), k) \in States
        BY <1>0, StateRead
      <4>2. /\ effects' = effects
            /\ \/ journal' = journal
               \/ journal' = [journal EXCEPT ![request.target] = StateIn(Len(diary), request.target)]
        BY <1>8 DEF Reconcile
      <4>3. effects \in [AdminKeys -> Nat] /\ journal \in [AdminKeys -> States]
        BY <1>0 DEF AdminTypeOK
      <4>4. CASE journal' = journal
        BY <4>2, <4>3, <4>4
      <4>5. CASE journal' = [journal EXCEPT ![request.target] = StateIn(Len(diary), request.target)]
        BY <4>1, <4>2, <4>3, <4>5
      <4> QED
        BY <4>2, <4>4, <4>5
    <3> QED
      BY <1>0, <1>8, <2>1, <3>1, <3>2, <3>3
         DEF Reconcile, AdminTypeOK, Commands, Outcomes, PhaseInv
  <2>3. PhaseInv'
    BY <1>0, <1>8, <2>1, DiaryStays DEF Reconcile, PhaseInv, JournalCovers, EffectsLogged, AdminTypeOK, Persists, NoRequest, Outcomes, Reconcilable
  <2>4. EffectsLogged' /\ EffectAtMostOnce'
    BY <1>0, <1>8, <2>1, DiaryStays DEF Reconcile, EffectsLogged, EffectAtMostOnce, AdminTypeOK, PhaseInv
  <2>5. JournalCovers'
    BY <1>0, <1>8, <2>1, DiaryStays, StateRead DEF Reconcile, JournalCovers, AdminTypeOK, Outcomes, PhaseInv
  <2> QED
    BY <1>0, <2>1, <2>2, <2>3, <2>4, <2>5, DiaryStays DEF AdminInv
<1>9. ASSUME OthersFlush PROVE AdminInv'
  <2>1. diary' = diary
    BY <1>9 DEF OthersFlush, memory
  <2>2. AdminTypeOK'
    <3>1. request' \in Commands /\ (execution' # "free" <=> request'.key # NoKey)
      BY <1>0, <1>9, RequestTypes DEF OthersFlush, memory, AdminTypeOK, Commands
    <3>2. spent' \in [faults : 0 .. MaxAdminFaults, crashes : 0 .. MaxAdminCrashes]
      BY <1>0, <1>9, SpentTypes DEF OthersFlush, memory, AdminTypeOK
    <3>3. journal' \in [AdminKeys -> States] /\ effects' \in [AdminKeys -> Nat]
      BY <1>0, <1>9 DEF OthersFlush, memory, AdminTypeOK, States, Outcomes, PhaseInv
    <3> QED
      BY <1>0, <1>9, <2>1, <3>1, <3>2, <3>3
         DEF OthersFlush, memory, AdminTypeOK, Commands, Outcomes, PhaseInv
  <2>3. PhaseInv'
    BY <1>0, <1>9, <2>1, DiaryStays DEF OthersFlush, memory, PhaseInv, JournalCovers, EffectsLogged, AdminTypeOK, Persists, NoRequest, Outcomes, Reconcilable
  <2>4. EffectsLogged' /\ EffectAtMostOnce'
    BY <1>0, <1>9, <2>1, DiaryStays DEF OthersFlush, memory, EffectsLogged, EffectAtMostOnce, AdminTypeOK, PhaseInv
  <2>5. JournalCovers'
    BY <1>0, <1>9, <2>1, DiaryStays DEF OthersFlush, memory, JournalCovers, AdminTypeOK, Outcomes, PhaseInv
  <2> QED
    BY <1>0, <2>1, <2>2, <2>3, <2>4, <2>5, DiaryStays DEF AdminInv
<1>10. ASSUME AdminKill PROVE AdminInv'
  <2>1. diary' = diary
    BY <1>10 DEF AdminKill, Crash
  <2>2. AdminTypeOK'
    <3>1. request' \in Commands /\ (execution' # "free" <=> request'.key # NoKey)
      BY <1>0, <1>10, RequestTypes DEF AdminKill, Crash, AdminTypeOK, Commands
    <3>2. spent' \in [faults : 0 .. MaxAdminFaults, crashes : 0 .. MaxAdminCrashes]
      BY <1>0, <1>10, SpentTypes DEF AdminKill, Crash, AdminTypeOK
    <3>3. journal' \in [AdminKeys -> States] /\ effects' \in [AdminKeys -> Nat]
      BY <1>0, <1>10 DEF AdminKill, Crash, AdminTypeOK, States, Outcomes, PhaseInv
    <3> QED
      BY <1>0, <1>10, <3>1, <3>2, <3>3 DEF AdminKill, Crash, AdminTypeOK, Commands
  <2>3. PhaseInv'
    BY <1>0, <1>10, <2>1, DiaryStays DEF AdminKill, Crash, PhaseInv, JournalCovers, EffectsLogged, AdminTypeOK, Persists, NoRequest, Outcomes, Reconcilable
  <2>4. EffectsLogged' /\ EffectAtMostOnce'
    BY <1>0, <1>10, <2>1, DiaryStays DEF AdminKill, Crash, EffectsLogged, EffectAtMostOnce, AdminTypeOK, PhaseInv
  <2>5. JournalCovers'
    BY <1>0, <1>10, <2>1, DiaryStays DEF AdminKill, Crash, JournalCovers, AdminTypeOK, Outcomes, PhaseInv
  <2> QED
    BY <1>0, <2>1, <2>2, <2>3, <2>4, <2>5, DiaryStays DEF AdminInv
<1>11. ASSUME NEW n \in 0 .. Len(diary), AdminPowerLoss(n) PROVE AdminInv'
  <2>1. n \in flushed .. Len(diary) /\ diary' = SubSeq(diary, 1, n) /\ flushed' = n
    BY <1>11 DEF AdminPowerLoss
  <2>2. /\ diary' \in Seq(Records) /\ Len(diary') = n
        /\ \A k : HasIntent(flushed, k)' <=> HasIntent(n, k)
        /\ Recoverable(Len(diary))'
    <3>1. n \in Nat /\ n <= Len(diary)
      OBVIOUS
    <3>2. Recoverable(n)
      BY <1>0, <3>1, EarlierIsIncluded
    <3> QED
      BY <1>0, <2>1, <3>2, DiaryCut
  <2>3. AdminTypeOK'
    <3>1. request' \in Commands /\ request'.key = NoKey /\ execution' = "free"
      BY <1>0, <1>11, RequestTypes DEF AdminPowerLoss, Crash
    <3>2. spent' \in [faults : 0 .. MaxAdminFaults, crashes : 0 .. MaxAdminCrashes]
      BY <1>0, <1>11, SpentTypes DEF AdminPowerLoss
    <3>3. journal' \in [AdminKeys -> States] /\ flushed' \in 0 .. Len(diary')
      BY <1>0, <1>11, <2>1, <2>2 DEF AdminPowerLoss, Crash, States, AdminTypeOK
    <3> QED
      BY <1>0, <1>11, <2>2, <3>1, <3>2, <3>3 DEF AdminPowerLoss, Crash, AdminTypeOK, Commands
  <2>4. PhaseInv' /\ JournalCovers'
    BY <1>11 DEF AdminPowerLoss, Crash, PhaseInv, JournalCovers, Persists
  <2>5. EffectsLogged' /\ EffectAtMostOnce'
    BY <1>0, <1>11, <2>1, <2>2, EarlierIsIncluded
       DEF AdminPowerLoss, Crash, EffectsLogged, EffectAtMostOnce, AdminTypeOK
  <2> QED
    BY <2>2, <2>3, <2>4, <2>5 DEF AdminInv
<1>12. ASSUME Recover PROVE AdminInv'
  <2>1. diary' = diary
    BY <1>12 DEF Recover
  <2>2. AdminTypeOK'
    <3>1. request' \in Commands /\ (execution' # "free" <=> request'.key # NoKey)
      BY <1>0, <1>12, RequestTypes DEF Recover, AdminTypeOK, Commands
    <3>2. spent' \in [faults : 0 .. MaxAdminFaults, crashes : 0 .. MaxAdminCrashes]
      BY <1>0, <1>12, SpentTypes DEF Recover, AdminTypeOK
    <3>3. journal' \in [AdminKeys -> States] /\ effects' \in [AdminKeys -> Nat]
      BY <1>0, <1>12, StateRead DEF Recover, AdminTypeOK, States, Outcomes, PhaseInv
    <3> QED
      BY <1>0, <1>12, <2>1, <3>1, <3>2, <3>3
         DEF Recover, AdminTypeOK, Commands, Outcomes, PhaseInv
  <2>3. PhaseInv'
    BY <1>0, <1>12, <2>1, DiaryStays DEF Recover, PhaseInv, JournalCovers, EffectsLogged, AdminTypeOK, Persists, NoRequest, Outcomes, Reconcilable
  <2>4. EffectsLogged' /\ EffectAtMostOnce'
    BY <1>0, <1>12, <2>1, DiaryStays DEF Recover, EffectsLogged, EffectAtMostOnce, AdminTypeOK, PhaseInv
  <2>5. JournalCovers'
    BY <1>0, <1>12, <2>1, DiaryStays, StateRead DEF Recover, JournalCovers, AdminTypeOK, Outcomes, PhaseInv
  <2> QED
    BY <1>0, <2>1, <2>2, <2>3, <2>4, <2>5, DiaryStays DEF AdminInv
<1>13. CASE UNCHANGED adminVars
  BY <1>0, <1>13, DiaryStays DEF adminVars, AdminInv, AdminTypeOK, PhaseInv, EffectsLogged,
     JournalCovers, EffectAtMostOnce, Persists
<1> QED
  BY <1>1, <1>2, <1>3, <1>4, <1>5, <1>6, <1>7, <1>8, <1>9, <1>10, <1>11, <1>12, <1>13
     DEF AdminNext

THEOREM AdminInvariant == AdminSpec => []AdminInv
  BY AdminInitInv, AdminStep, PTL DEF AdminSpec

\* The components of every state stay what they are meant to be.
THEOREM AdminTypes == AdminSpec => []AdminTypeOK
<1>1. AdminInv => AdminTypeOK
  BY DEF AdminInv
<1> QED
  BY <1>1, AdminInvariant, PTL

\* However calls fail, processes die and clients retry, no effect of an
\* administrative operation runs twice.
THEOREM AtMostOneEffect == AdminSpec => []EffectAtMostOnce
<1>1. AdminInv => EffectAtMostOnce
  BY DEF AdminInv
<1> QED
  BY <1>1, AdminInvariant, PTL

\* Every diary a crash can leave is one that recover accepts.
THEOREM BootNeverRefused == AdminSpec => []JournalNeverRefused
<1>1. AdminInv => JournalNeverRefused
  <2> SUFFICES ASSUME AdminInv, NEW n \in flushed .. Len(diary) PROVE Recoverable(n)
    BY DEF JournalNeverRefused
  <2>1. n \in Nat /\ Len(diary) \in Nat /\ n <= Len(diary)
    BY DEF AdminInv, AdminTypeOK
  <2> QED
    BY <2>1, EarlierIsIncluded DEF AdminInv
<1> QED
  BY <1>1, AdminInvariant, PTL
-----------------------------------------------------------------------------
(* An outcome stands *)

Recorded(n, k, s) == \E i \in 1 .. n : diary[i] = Result(k, s)

\* How much of the diary the crashes of this behaviour leave.
Kept == IF "power" \in crashes THEN flushed ELSE Len(diary)
OneKind == crashes # {"kill", "power"}

(* What the journal answers and what a client was told is a record that no  *)
(* crash of this behaviour takes.  Reconcile may believe any record it      *)
(* reads because its own intent was flushed after it.                       *)
OutcomeInv ==
    /\ appended => Len(diary) > 0 /\ diary[Len(diary)] = Record
    /\ execution = "effect" => flushed = Len(diary)
    /\ server = "down" /\ "kill" \notin crashes => flushed = Len(diary)
    /\ OneKind => \A k \in AdminKeys :
          /\ journal[k] \in Outcomes => Recorded(Kept, k, journal[k])
          /\ told[k] # "none" => Recorded(Kept, k, told[k])

OneResult ==
    \A k, s, t : Recorded(Len(diary), k, s) /\ Recorded(Len(diary), k, t) => s = t

\* A diary that recover accepts has one result of a key.
LEMMA ResultsUnique ==
    ASSUME AdminInv, NEW k, NEW s, NEW t, Recorded(Len(diary), k, s), Recorded(Len(diary), k, t)
    PROVE  s = t
<1>1. PICK i \in 1 .. Len(diary) : diary[i] = Result(k, s)
  BY DEF Recorded
<1>2. PICK j \in 1 .. Len(diary) : diary[j] = Result(k, t)
  BY DEF Recorded
<1>3. ASSUME NEW a \in 1 .. Len(diary), NEW b \in 1 .. Len(diary), NEW u, NEW v, a < b,
             diary[a] = Result(k, u), diary[b] = Result(k, v)
      PROVE  FALSE
  <2>1. Applies(b)
    BY DEF AdminInv, Recoverable
  <2>2. a \in 1 .. b - 1
    BY <1>3 DEF AdminInv, AdminTypeOK
  <2>3. HasResult(b - 1, k)
    BY <1>3, <2>2 DEF HasResult, Result
  <2> QED
    BY <1>3, <2>1, <2>3 DEF Applies, Result
<1>4. i = j
  <2>1. i < j \/ j < i \/ i = j
    BY DEF AdminInv, AdminTypeOK
  <2> QED
    BY <1>1, <1>2, <1>3, <2>1
<1> QED
  BY <1>1, <1>2, <1>4 DEF Result

\* recover and reconcile read the result that is there.
LEMMA ResultRead ==
    ASSUME AdminTypeOK, NEW k \in AdminKeys, StateIn(Len(diary), k) \in Outcomes
    PROVE  Recorded(Len(diary), k, StateIn(Len(diary), k))
<1>1. HasResult(Len(diary), k)
  BY DEF StateIn, Outcomes
<1>2. PICK i \in 1 .. Len(diary) : diary[i].kind = "result" /\ diary[i].key = k
  BY <1>1 DEF HasResult
<1>3. diary[i] \in Records
  BY DEF AdminTypeOK
<1>4. PICK s \in Outcomes : diary[i] = Result(k, s)
  BY <1>2, <1>3 DEF Records, Intent, Result
<1> DEFINE P(t) == \E j \in 1 .. Len(diary) : diary[j] = Result(k, t)
<1>5. \E s1 \in Outcomes : P(s1)
  BY <1>4
<1> HIDE DEF P
<1>6. P(CHOOSE t \in Outcomes : P(t))
  BY <1>5
<1>7. StateIn(Len(diary), k) = CHOOSE t \in Outcomes : P(t)
  BY <1>1 DEF StateIn, P
<1> QED
  BY <1>6, <1>7 DEF P, Recorded

\* A step leaves the kept records where they are.
LEMMA KeptStays ==
    ASSUME AdminTypeOK, AdminTypeOK', OneKind, [AdminNext]_adminVars
    PROVE  /\ crashes' = crashes
           /\ \A k, s : Recorded(Kept, k, s) => Recorded(Kept, k, s)'
<1>0. Len(diary) \in Nat /\ flushed \in 0 .. Len(diary) /\ Len(diary') \in Nat
  BY DEF AdminTypeOK
<1>1. crashes' = crashes
  BY DEF AdminNext, adminVars, Execute, Retry, AppendRecord, FlushRecord, PersistFails, RunEffect,
     EffectPanics, Reconcile, OthersFlush, AdminKill, AdminPowerLoss, Crash, Recover
<1>2. \/ diary' = diary /\ (flushed' = flushed \/ flushed' = Len(diary))
      \/ diary' = Append(diary, Record) /\ flushed' = flushed
      \/ \E n \in flushed .. Len(diary) :
            diary' = SubSeq(diary, 1, n) /\ flushed' = n /\ "power" \in crashes
  BY DEF AdminNext, adminVars, Execute, Retry, AppendRecord, FlushRecord, PersistFails, RunEffect,
     EffectPanics, Reconcile, OthersFlush, AdminKill, AdminPowerLoss, Crash, Recover, memory, Flushed
<1>3. \A i \in 1 .. Kept : i \in 1 .. Kept' /\ diary'[i] = diary[i]
  <2>1. CASE diary' = diary /\ (flushed' = flushed \/ flushed' = Len(diary))
    BY <1>0, <1>1, <2>1 DEF Kept
  <2>2. CASE diary' = Append(diary, Record) /\ flushed' = flushed
    <3>1. Len(diary') = Len(diary) + 1 /\ \A i \in 1 .. Len(diary) : diary'[i] = diary[i]
      BY <1>0, <2>2 DEF AdminTypeOK
    <3> QED
      BY <1>0, <1>1, <2>2, <3>1 DEF Kept
  <2>3. ASSUME NEW n \in flushed .. Len(diary),
               diary' = SubSeq(diary, 1, n), flushed' = n, "power" \in crashes
        PROVE  \A i \in 1 .. Kept : i \in 1 .. Kept' /\ diary'[i] = diary[i]
    <3>1. \A i \in 1 .. n : diary'[i] = diary[i]
      BY <1>0, <2>3 DEF AdminTypeOK
    <3> QED
      BY <1>0, <1>1, <2>3, <3>1 DEF Kept
  <2> QED
    BY <1>2, <2>1, <2>2, <2>3
<1> QED
  BY <1>1, <1>3, Zenon DEF Recorded, Result
LEMMA OutcomeStep == ASSUME AdminInv, AdminInv', OutcomeInv, [AdminNext]_adminVars PROVE OutcomeInv'
<1>0. /\ AdminTypeOK /\ AdminTypeOK' /\ PhaseInv /\ Len(diary) \in Nat /\ Len(diary') \in Nat
      /\ flushed \in 0 .. Len(diary)
  <2>1. AdminTypeOK /\ AdminTypeOK' /\ PhaseInv
    BY DEF AdminInv
  <2>2. Len(diary) \in Nat /\ Len(diary') \in Nat /\ flushed \in 0 .. Len(diary)
    BY <2>1 DEF AdminTypeOK
  <2> QED
    BY <2>1, <2>2
<1>1. appended' => Len(diary') > 0 /\ diary'[Len(diary')] = Record'
  <2>1. CASE AppendRecord
    <3>1. diary' = Append(diary, Record) /\ Record' = Record
      BY <2>1 DEF AppendRecord, Record
    <3>2. diary \in Seq(Records)
      BY <1>0 DEF AdminTypeOK
    <3>3. \A r : Len(Append(diary, r)) > 0 /\ Append(diary, r)[Len(Append(diary, r))] = r
      BY <3>2
    <3> QED
      BY <3>1, <3>3
  <2>2. CASE ~AppendRecord
    <3>1. appended' => appended /\ UNCHANGED <<diary, execution, request>>
      BY <1>0, <2>2 DEF AdminNext, adminVars, Execute, Retry, FlushRecord, PersistFails, RunEffect,
         EffectPanics, Reconcile, OthersFlush, AdminKill, AdminPowerLoss, Crash, Recover, memory,
         PhaseInv, Persists
    <3> QED
      BY <3>1 DEF OutcomeInv, Record
  <2> QED
    BY <2>1, <2>2
<1>2. execution' = "effect" => flushed' = Len(diary')
  <2>1. execution' = "effect" =>
          /\ diary' = diary
          /\ flushed' = Len(diary) \/ (execution = "effect" /\ flushed' = flushed)
    BY DEF AdminNext, adminVars, Execute, Retry, AppendRecord, FlushRecord, PersistFails, RunEffect,
       EffectPanics, Reconcile, OthersFlush, AdminKill, AdminPowerLoss, Crash, Recover, memory,
       Persists, Flushed
  <2> QED
    BY <2>1 DEF OutcomeInv
<1>3. server' = "down" /\ "kill" \notin crashes' => flushed' = Len(diary')
  <2>1. CASE \E n \in flushed .. Len(diary) : diary' = SubSeq(diary, 1, n) /\ flushed' = n
    BY <1>0, <2>1 DEF AdminTypeOK
  <2>2. CASE ~ \E n \in flushed .. Len(diary) : diary' = SubSeq(diary, 1, n) /\ flushed' = n
    <3>1. server' = "down" /\ "kill" \notin crashes' =>
            server = "down" /\ UNCHANGED <<diary, flushed, crashes>>
      BY <1>0, <2>2 DEF AdminNext, adminVars, Execute, Retry, AppendRecord, FlushRecord, PersistFails,
         RunEffect, EffectPanics, Reconcile, OthersFlush, AdminKill, AdminPowerLoss, Crash, Recover,
         memory, PhaseInv, Persists
    <3> QED
      BY <3>1 DEF OutcomeInv
  <2> QED
    BY <2>1, <2>2
<1>4. ASSUME OneKind, NEW k \in AdminKeys
      PROVE  /\ journal'[k] \in Outcomes => Recorded(Kept, k, journal[k])'
             /\ told'[k] # "none" => Recorded(Kept, k, told[k])'
  <2>1. \A s : Recorded(Kept, k, s) => Recorded(Kept, k, s)'
    BY <1>0, <1>4, KeptStays
  <2>2. /\ journal[k] \in Outcomes => Recorded(Kept, k, journal[k])
        /\ told[k] # "none" => Recorded(Kept, k, told[k])
    BY <1>4 DEF OutcomeInv
  <2>3. CASE journal'[k] = journal[k] /\ told'[k] = told[k]
    BY <2>1, <2>2, <2>3 DEF Recorded
  <2>4. CASE FlushRecord
    <3>1. /\ diary' = diary /\ flushed' = Len(diary) /\ crashes' = crashes
          /\ Len(diary) > 0 /\ diary[Len(diary)] = Record
          /\ execution \in {"intent", "settle", "result"}
      BY <1>0, <2>4 DEF FlushRecord, Flushed, OutcomeInv, PhaseInv, Persists
    <3>2. Kept' = Len(diary)
      BY <3>1 DEF Kept
    <3>3. \A s : Record = Result(k, s) => Recorded(Kept, k, s)'
      BY <1>0, <3>1, <3>2 DEF Recorded, Result
    <3>4. CASE execution = "settle" /\ k = request.target
      <4>1. journal'[k] = "reconciled" /\ told' = told
        BY <1>0, <2>4, <3>4 DEF FlushRecord, AdminTypeOK
      <4>2. Record = Result(k, "reconciled")
        BY <3>4 DEF Record
      <4> QED
        BY <2>1, <2>2, <3>3, <4>1, <4>2 DEF Recorded
    <3>5. CASE execution = "result" /\ k = request.key
      <4>1. journal'[k] = request.outcome /\ told'[k] = request.outcome
        BY <1>0, <2>4, <3>5 DEF FlushRecord, AdminTypeOK
      <4>2. Record = Result(k, request.outcome)
        BY <3>5 DEF Record
      <4> QED
        BY <3>3, <4>1, <4>2 DEF Recorded
    <3>6. CASE ~(execution = "settle" /\ k = request.target) /\ ~(execution = "result" /\ k = request.key)
      <4>1. journal'[k] = journal[k] /\ told'[k] = told[k]
        BY <1>0, <2>4, <3>1, <3>6 DEF FlushRecord, AdminTypeOK
      <4> QED
        BY <2>3, <4>1
    <3> QED
      BY <3>4, <3>5, <3>6
  <2>5. CASE Reconcile
    <3>1. /\ diary' = diary /\ flushed' = flushed /\ crashes' = crashes /\ told' = told
          /\ execution = "effect"
      BY <2>5 DEF Reconcile
    <3>2. Kept' = Len(diary) /\ Kept = Len(diary)
      BY <3>1 DEF Kept, OutcomeInv
    <3>3. CASE journal'[k] = StateIn(Len(diary), k) /\ journal'[k] # journal[k]
      <4>1. journal'[k] \in Outcomes => Recorded(Len(diary), k, journal'[k])
        BY <1>0, <3>3, ResultRead
      <4> QED
        BY <2>1, <2>2, <3>1, <3>2, <4>1 DEF Recorded
    <3>4. journal'[k] = journal[k] \/ journal'[k] = StateIn(Len(diary), k)
      BY <1>0, <2>5 DEF Reconcile, AdminTypeOK
    <3> QED
      BY <2>3, <3>1, <3>3, <3>4
  <2>6. CASE Recover
    <3>1. /\ diary' = diary /\ flushed' = flushed /\ crashes' = crashes /\ told' = told
          /\ server = "down"
      BY <2>6 DEF Recover
    <3>2. Kept' = Len(diary)
      <4>1. "power" \in crashes => "kill" \notin crashes
        BY <1>0, <1>4 DEF OneKind, AdminTypeOK
      <4> QED
        BY <3>1, <4>1 DEF Kept, OutcomeInv
    <3>3. journal'[k] = journal[k] \/ journal'[k] = StateIn(Len(diary), k)
      BY <2>6 DEF Recover
    <3>4. CASE journal'[k] = StateIn(Len(diary), k)
      <4>1. journal'[k] \in Outcomes => Recorded(Len(diary), k, journal'[k])
        BY <1>0, <3>4, ResultRead
      <4> QED
        BY <2>1, <2>2, <3>1, <3>2, <4>1 DEF Recorded
    <3> QED
      BY <2>3, <3>1, <3>3, <3>4
  <2>7. CASE \E j \in AdminKeys : Retry(j)
    <3>1. journal' = journal /\ (told'[k] = told[k] \/ (told'[k] = journal[k] /\ journal[k] \in Outcomes))
      BY <1>0, <2>7 DEF Retry, memory, AdminTypeOK
    <3> QED
      BY <2>1, <2>2, <2>3, <3>1 DEF Recorded
  <2>8. CASE \E j \in AdminKeys, target \in AdminKeys \cup {NoKey} : Execute(j, target)
    <3>1. told' = told /\ (journal'[k] = journal[k] \/ journal'[k] = "unknown")
      BY <1>0, <2>8 DEF Execute, AdminTypeOK
    <3> QED
      BY <2>1, <2>2, <2>3, <3>1 DEF Recorded, Outcomes
  <2>9. CASE AdminKill \/ \E n \in 0 .. Len(diary) : AdminPowerLoss(n)
    <3>1. told' = told /\ journal'[k] = "absent"
      BY <2>9 DEF AdminKill, AdminPowerLoss, Crash
    <3> QED
      BY <2>1, <2>2, <3>1 DEF Recorded, Outcomes
  <2>10. CASE \/ AppendRecord \/ PersistFails \/ (\E outcome \in {"ok", "error"} : RunEffect(outcome))
              \/ EffectPanics \/ OthersFlush \/ UNCHANGED adminVars
    <3>1. journal' = journal /\ told' = told
      BY <2>10 DEF AppendRecord, PersistFails, RunEffect, EffectPanics, OthersFlush, memory, adminVars
    <3> QED
      BY <2>3, <3>1
  <2> QED
    BY <2>4, <2>5, <2>6, <2>7, <2>8, <2>9, <2>10 DEF AdminNext
<1>5. OneKind' <=> OneKind
  <2>1. crashes' = crashes
    BY DEF AdminNext, adminVars, Execute, Retry, AppendRecord, FlushRecord, PersistFails, RunEffect,
       EffectPanics, Reconcile, OthersFlush, AdminKill, AdminPowerLoss, Crash, Recover
  <2> QED
    BY <2>1 DEF OneKind
<1> QED
  BY <1>1, <1>2, <1>3, <1>4, <1>5 DEF OutcomeInv

\* The step that tells a client something tells it what it was told before.
LEMMA TellsTheSame ==
    ASSUME AdminInv, AdminInv', OutcomeInv, OutcomeInv', OneResult', [AdminNext]_adminVars, OneKind,
           NEW k \in AdminKeys, told[k] # "none"
    PROVE  told'[k] = told[k]
<1>1. AdminTypeOK /\ AdminTypeOK' /\ OneKind' /\ crashes' = crashes
  BY KeptStays DEF AdminInv, OneKind
<1>2. Recorded(Kept, k, told[k])
  BY DEF OutcomeInv
<1>3. \E i \in 1 .. Kept' : diary'[i] = Result(k, told[k])
  <2>1. \A s : Recorded(Kept, k, s) => Recorded(Kept, k, s)'
    BY <1>1, KeptStays
  <2>2. \A s : Recorded(Kept, k, s) => \E i \in 1 .. Kept' : diary'[i] = Result(k, s)
    BY <2>1, Zenon DEF Recorded, Result
  <2> QED
    BY <1>2, <2>2, Zenon
<1>4. told'[k] # "none"
  <2>1. CASE FlushRecord
    <3>1. execution = "result" => request.outcome # "none"
      BY DEF AdminInv, PhaseInv
    <3>2. execution \in {"intent", "settle", "result"}
      BY <2>1 DEF FlushRecord, AdminInv, PhaseInv, Persists
    <3> QED
      BY <1>1, <2>1, <3>1, <3>2 DEF FlushRecord, AdminTypeOK
  <2>2. CASE \E j \in AdminKeys : Retry(j)
    BY <1>1, <2>2 DEF Retry, AdminTypeOK, Outcomes
  <2>3. CASE ~FlushRecord /\ ~ \E j \in AdminKeys : Retry(j)
    <3>1. told' = told
      BY <2>3 DEF AdminNext, adminVars, Execute, AppendRecord, PersistFails, RunEffect, EffectPanics,
         Reconcile, OthersFlush, AdminKill, AdminPowerLoss, Crash, Recover
    <3> QED
      BY <3>1
  <2> QED
    BY <2>1, <2>2, <2>3
<1>5. \E i \in 1 .. Kept' : diary'[i] = Result(k, told'[k])
  BY <1>1, <1>4 DEF OutcomeInv, Recorded
<1>6. 1 .. Kept' \subseteq 1 .. Len(diary')
  BY <1>1 DEF Kept, AdminTypeOK
<1>7. /\ \E i \in 1 .. Len(diary') : diary'[i] = Result(k, told[k])
      /\ \E i \in 1 .. Len(diary') : diary'[i] = Result(k, told'[k])
  BY <1>3, <1>5, <1>6
<1> QED
  BY <1>7 DEF OneResult, Recorded

\* Whatever fails, is retried or is reconciled, an outcome a client was told
\* is the one every later retry is told, in behaviours with kills or with
\* power failures.
THEOREM OutcomesStand == AdminSpec => OutcomeStands
<1>1. AdminInit => OutcomeInv
  <2> SUFFICES ASSUME AdminInit PROVE OutcomeInv
    OBVIOUS
  <2> QED
    BY DEF AdminInit, OutcomeInv, Outcomes
<1>2. AdminInv /\ AdminInv' /\ OutcomeInv /\ [AdminNext]_adminVars => OutcomeInv'
  BY OutcomeStep
<1>4. AdminInv => OneResult
  BY ResultsUnique DEF OneResult
<1>3. AdminInv /\ AdminInv' /\ OutcomeInv /\ OutcomeInv' /\ OneResult' /\ [AdminNext]_adminVars =>
        [crashes # {"kill", "power"} =>
           \A k \in AdminKeys : told[k] # "none" => told'[k] = told[k]]_adminVars
  BY TellsTheSame DEF OneKind
<1> QED
  BY <1>1, <1>2, <1>3, <1>4, AdminInvariant, PTL DEF AdminSpec, OutcomeStands

-----------------------------------------------------------------------------
(* The directory of manifests *)

Numbers == 0 .. MaxAttempts
Currents == [gen : Numbers, digest : Numbers]
CommitSteps == {"idle", "rename", "sync", "current", "answer"}
PruneSteps == {"idle", "due", "list", "unlink"}

ManifestTypes ==
    /\ file \in [Gens -> Numbers] /\ manifestSure.file \in [Gens -> Numbers]
    /\ current \in Currents /\ manifestSure.current \in Currents
    /\ manifestSure = [file |-> manifestSure.file, current |-> manifestSure.current]
    /\ proxima \in 0 .. MaxAttempts + 1
    /\ commit \in [at : CommitSteps, gen : Numbers]
    /\ prune \in [at : PruneSteps, kept : SUBSET Gens, doomed : SUBSET Gens]
    /\ manifestAnswered \in Numbers /\ tried \subseteq Numbers \ {0}
    /\ manifestUsed \in [attempts : Numbers, prunes : Nat, faults : 0 .. MaxManifestFaults,
                         kills : Nat, powerLosses : Nat]

\* The commit under way has its file in the directory.
Shown == commit.at \in {"sync", "current", "answer"}
Top == Highest(Listed)

\* A new file gets the number above all others, in this process and the next.
NumbersInv ==
    /\ \A g \in Gens : file[g] # 0 \/ manifestSure.file[g] # 0 => g <= Attempt
    /\ proxima # 0 => proxima <= Attempt + 1 /\ proxima = IF Shown THEN Top ELSE Top + 1
    /\ commit.at # "idle" => 0 < Attempt /\ commit.gen \in 1 .. Attempt /\ Attempt \in tried
    /\ commit.at = "rename" => commit.gen = Top + 1
    /\ Shown => commit.gen = Top /\ file[commit.gen] = Attempt
    /\ commit.at \in {"current", "answer"} => manifestSure.file[commit.gen] = Attempt
    /\ commit.at = "current" => manifestSure.current = current
    /\ commit.at = "answer" => current = [gen |-> commit.gen, digest |-> Attempt]

\* What CURRENT says, now or after a power failure, is there and was not given up.
Sound(c) ==
    /\ c = NoCurrent \/ /\ c.gen \in Gens /\ c.digest # 0
                        /\ file[c.gen] = c.digest /\ manifestSure.file[c.gen] = c.digest
    /\ c.digest \in {manifestAnswered} \cup tried
CurrentInv ==
    /\ Sound(current) /\ Sound(manifestSure.current)
    /\ manifestAnswered = 0 =>
         \A g \in Gens : {file[g], manifestSure.file[g]} \subseteq tried \cup {0}

(* A collection begins when CURRENT names the highest file; from then on    *)
(* each file above it is in flight or was left by a call that failed.       *)
Above == manifestUsed.faults + (IF Shown THEN 1 ELSE 0)
Near(c) == Top <= c.gen + Above
PruneInv ==
    /\ prune.at # "idle" => Near(current) /\ Near(manifestSure.current)
    /\ prune.at = "unlink" => \A g \in prune.doomed : g < current.gen /\ g < manifestSure.current.gen

ManifestInv == ManifestTypes /\ NumbersInv /\ CurrentInv /\ PruneInv

Budgets == [attempts : Numbers, prunes : Nat, faults : 0 .. MaxManifestFaults,
            kills : Nat, powerLosses : Nat]
CommitTypes == [at : CommitSteps, gen : Numbers]

\* Every set of natural numbers with a member has a smallest one.
LEMMA SmallestExists ==
    ASSUME NEW T \in SUBSET Nat, T # {}
    PROVE  \E x \in T : \A y \in T : x <= y
<1> DEFINE R == OpToRel(<, Nat)
<1>1. IsWellFoundedOn(R, Nat)
  BY NatLessThanWellFounded
<1>2. PICK x \in T : \A y \in T : ~ (<<y, x>> \in R)
  BY <1>1, WFMin
<1>3. ASSUME NEW y \in T PROVE x <= y
  <2>1. ~ (<<y, x>> \in {p \in Nat \X Nat : p[1] < p[2]})
    BY <1>2 DEF OpToRel
  <2> QED
    BY <2>1
<1> QED
  BY <1>3

\* A set of numbers up to a bound has a largest one, or is empty.
LEMMA HighestIs ==
    ASSUME NEW n \in Nat, NEW S \in SUBSET (0 .. n)
    PROVE  /\ Highest(S) \in S \cup {0} /\ Highest(S) \in 0 .. n
           /\ \A y \in S : y <= Highest(S)
           /\ \A x \in S \cup {0} : (\A y \in S : y <= x) => Highest(S) = x
<1> DEFINE T == S \cup {0}
           D == {n - x : x \in T}
<1>1. T \in SUBSET (0 .. n) /\ T # {} /\ D \in SUBSET Nat /\ D # {}
  OBVIOUS
<1>2. PICK d \in D : \A e \in D : d <= e
  BY <1>1, SmallestExists
<1>3. PICK x \in T : d = n - x
  OBVIOUS
<1>4. \A y \in T : x >= y
  <2>1. \A y \in T : n - x <= n - y
    BY <1>2, <1>3
  <2> QED
    BY <1>1, <2>1
<1>5. \E z \in T : \A y \in T : z >= y
  BY <1>4
<1> DEFINE h == CHOOSE z \in T : \A y \in T : z >= y
<1>6. h \in T /\ \A y \in T : h >= y
  BY <1>5
<1>7. Highest(S) = h
  BY DEF Highest, Max
<1> HIDE DEF h
<1> QED
  BY <1>1, <1>6, <1>7

LEMMA TopIs ==
    ASSUME file \in [Gens -> Numbers]
    PROVE  /\ Listed \subseteq Gens /\ Top \in Numbers /\ Top \in Listed \cup {0}
           /\ \A g \in Listed : g <= Top
           /\ \A x \in Listed \cup {0} : (\A y \in Listed : y <= x) => Top = x
<1>1. MaxAttempts \in Nat
  BY ManifestStoreAssumption
<1>2. Listed \subseteq Gens /\ Listed \in SUBSET (0 .. MaxAttempts)
  BY <1>1 DEF Listed, Gens
<1> QED
  BY <1>1, <1>2, HighestIs DEF Top, Numbers

\* Fewer numbers than this are above g.
LEMMA FewAbove ==
    ASSUME file \in [Gens -> Numbers], NEW g \in Nat, NEW k \in Nat, Top <= g + k
    PROVE  Cardinality({h \in Listed : h > g}) <= k
<1>1. {h \in Listed : h > g} \subseteq g + 1 .. g + k
  <2>1. \A h \in Listed : h \in Nat /\ h <= Top /\ Top \in Nat
    BY TopIs, ManifestStoreAssumption DEF Numbers, Gens
  <2> QED
    BY <2>1
<1>2. IsFiniteSet(g + 1 .. g + k) /\ Cardinality(g + 1 .. g + k) = k
  <2>1. g + 1 \in Int /\ g + k \in Int /\ (g + 1 > g + k => k = 0) /\ (g + k) - (g + 1) + 1 = k
    OBVIOUS
  <2> QED
    BY <2>1, FS_Interval
<1> QED
  BY <1>1, <1>2, FS_Subset

LEMMA ManifestSpendsTypes ==
    ASSUME ManifestTypes
    PROVE  /\ ManifestSpends("attempts", MaxAttempts) =>
                manifestUsed' \in Budgets /\ Attempt' = Attempt + 1 /\ manifestUsed'.faults = manifestUsed.faults
           /\ ManifestSpends("faults", MaxManifestFaults) =>
                /\ manifestUsed' \in Budgets /\ Attempt' = Attempt
                /\ manifestUsed'.faults = manifestUsed.faults + 1
           /\ ManifestSpends("prunes", MaxPrunes) \/ ManifestSpends("kills", MaxManifestKills)
              \/ ManifestSpends("powerLosses", MaxPowerLosses) =>
                manifestUsed' \in Budgets /\ Attempt' = Attempt /\ manifestUsed'.faults = manifestUsed.faults
           /\ Attempt \in Numbers /\ manifestUsed \in Budgets
<1>1. manifestUsed \in Budgets /\ MaxAttempts \in Nat /\ MaxManifestFaults \in Nat
  BY ManifestStoreAssumption DEF ManifestTypes, Budgets
<1>2. ASSUME ManifestSpends("attempts", MaxAttempts)
      PROVE  manifestUsed' \in Budgets /\ Attempt' = Attempt + 1 /\ manifestUsed'.faults = manifestUsed.faults
  BY <1>1, <1>2 DEF ManifestSpends, Budgets, Numbers, Attempt
<1>3. ASSUME ManifestSpends("faults", MaxManifestFaults)
      PROVE  /\ manifestUsed' \in Budgets /\ Attempt' = Attempt
             /\ manifestUsed'.faults = manifestUsed.faults + 1
  BY <1>1, <1>3 DEF ManifestSpends, Budgets, Attempt
<1>4. ASSUME ManifestSpends("prunes", MaxPrunes)
      PROVE  manifestUsed' \in Budgets /\ Attempt' = Attempt /\ manifestUsed'.faults = manifestUsed.faults
  BY <1>1, <1>4 DEF ManifestSpends, Budgets, Attempt
<1>5. ASSUME ManifestSpends("kills", MaxManifestKills)
      PROVE  manifestUsed' \in Budgets /\ Attempt' = Attempt /\ manifestUsed'.faults = manifestUsed.faults
  BY <1>1, <1>5 DEF ManifestSpends, Budgets, Attempt
<1>6. ASSUME ManifestSpends("powerLosses", MaxPowerLosses)
      PROVE  manifestUsed' \in Budgets /\ Attempt' = Attempt /\ manifestUsed'.faults = manifestUsed.faults
  BY <1>1, <1>6 DEF ManifestSpends, Budgets, Attempt
<1>7. Attempt \in Numbers
  BY <1>1 DEF Budgets, Attempt
<1> QED
  BY <1>1, <1>2, <1>3, <1>4, <1>5, <1>6, <1>7

LEMMA ManifestInitInv == ASSUME ManifestInit PROVE ManifestInv
<1>1. 0 \in Numbers /\ 0 \in 0 .. MaxManifestFaults /\ 0 \in 0 .. MaxAttempts + 1
  BY ManifestStoreAssumption DEF Numbers
<1>2. ManifestTypes
  BY <1>1 DEF ManifestInit, ManifestTypes, Currents, NoCurrent, NoCommit, NoPrune, CommitSteps, PruneSteps
<1>3. NumbersInv
  BY DEF ManifestInit, NumbersInv, NoCommit, Shown
<1>4. CurrentInv
  BY DEF ManifestInit, CurrentInv, Sound, NoCurrent
<1>5. PruneInv
  BY DEF ManifestInit, PruneInv, NoPrune
<1> QED
  BY <1>2, <1>3, <1>4, <1>5 DEF ManifestInv

\* What is on disk when nothing of it changes.
LEMMA SameFiles ==
    ASSUME UNCHANGED file
    PROVE  Listed' = Listed /\ Top' = Top
  BY DEF Listed, Top

\* The same, after a step that leaves numbered files.
LEMMA TopOfNew ==
    ASSUME file' \in [Gens -> Numbers]
    PROVE  /\ Top' \in Numbers
           /\ \A x \in Listed' \cup {0} : (\A y \in Listed' : y <= x) => Top' = x
<1>1. MaxAttempts \in Nat
  BY ManifestStoreAssumption
<1>2. Listed' \in SUBSET (0 .. MaxAttempts)
  BY <1>1 DEF Listed, Gens
<1>3. Top' = Highest(Listed')
  BY DEF Top
<1> QED
  BY <1>1, <1>2, <1>3, HighestIs DEF Numbers
LEMMA ManifestFacts ==
    ASSUME ManifestInv
    PROVE  /\ ManifestTypes /\ NumbersInv /\ CurrentInv /\ PruneInv
           /\ file \in [Gens -> Numbers] /\ manifestSure.file \in [Gens -> Numbers]
           /\ current \in Currents /\ manifestSure.current \in Currents
           /\ commit \in CommitTypes
           /\ Attempt \in Numbers /\ manifestUsed.faults \in Nat /\ MaxAttempts \in Nat
           /\ Listed \subseteq Gens /\ Top \in Numbers /\ Top \in Listed \cup {0}
           /\ \A g \in Listed : g <= Top
           /\ Top <= Attempt
<1>1. /\ ManifestTypes /\ NumbersInv /\ CurrentInv /\ PruneInv
      /\ file \in [Gens -> Numbers] /\ manifestSure.file \in [Gens -> Numbers]
      /\ current \in Currents /\ manifestSure.current \in Currents
      /\ commit \in CommitTypes /\ MaxAttempts \in Nat
  BY ManifestStoreAssumption DEF ManifestInv, ManifestTypes, CommitTypes
<1>2. Attempt \in Numbers /\ manifestUsed.faults \in Nat
  BY <1>1, ManifestSpendsTypes, ManifestStoreAssumption DEF Budgets
<1>3. /\ Listed \subseteq Gens /\ Top \in Numbers /\ Top \in Listed \cup {0}
      /\ \A g \in Listed : g <= Top
  BY <1>1, TopIs
<1>4. Top <= Attempt
  <2>1. CASE Top = 0
    BY <1>2, <2>1 DEF Numbers
  <2>2. CASE Top \in Listed
    BY <1>1, <2>2 DEF Listed, NumbersInv
  <2> QED
    BY <1>3, <2>1, <2>2
<1> QED
  BY <1>1, <1>2, <1>3, <1>4

\* The next number is one above the highest.
LEMMA BeginCommitKeeps == ASSUME ManifestInv, BeginCommit PROVE ManifestInv'
<1>1. /\ commit.at = "idle" /\ ManifestSpends("attempts", MaxAttempts)
      /\ commit' = [at |-> "rename", gen |-> NextGeneration]
      /\ tried' = tried \cup {Attempt + 1}
      /\ UNCHANGED <<file, current, manifestSure, proxima, prune, manifestAnswered>>
  BY DEF BeginCommit
<1>2. manifestUsed' \in Budgets /\ Attempt' = Attempt + 1 /\ manifestUsed'.faults = manifestUsed.faults
  BY <1>1, ManifestFacts, ManifestSpendsTypes
<1>3. NextGeneration = Top + 1
  BY <1>1, ManifestFacts DEF NextGeneration, NumbersInv, Shown, Top
<1>4. Attempt' \in Numbers /\ Attempt + 1 \in Numbers /\ Top + 1 \in 1 .. Attempt' /\ Top + 1 \in Numbers
  BY <1>2, ManifestFacts DEF Budgets, Attempt, Numbers
<1>5. Listed' = Listed /\ Top' = Top /\ commit'.at = "rename" /\ commit'.gen = Top + 1
  BY <1>1, <1>3, SameFiles
<1>6. ManifestTypes'
  <2>1. commit' \in [at : CommitSteps, gen : Numbers]
    BY <1>1, <1>3, <1>4 DEF CommitSteps
  <2>2. tried' \subseteq Numbers \ {0}
    BY <1>1, <1>4, ManifestFacts DEF ManifestTypes, Numbers
  <2> QED
    BY <1>1, <1>2, <1>4, <2>1, <2>2, ManifestFacts DEF ManifestTypes, Budgets
<1>7. NumbersInv'
  <2>1. \A g \in Gens : file'[g] # 0 \/ manifestSure'.file[g] # 0 => g <= Attempt'
    BY <1>1, <1>2, ManifestFacts DEF NumbersInv, Gens, Numbers
  <2>2. proxima' # 0 => proxima' <= Attempt' + 1 /\ proxima' = Top' + 1
    <3>1. proxima # 0 => proxima = Top + 1
      BY <1>1, ManifestFacts DEF NumbersInv, Shown
    <3> QED
      BY <1>1, <1>2, <1>5, <3>1, ManifestFacts DEF Numbers
  <2>3. 0 < Attempt' /\ Attempt' \in tried'
    BY <1>1, <1>2, ManifestFacts DEF Numbers
  <2> QED
    BY <1>1, <1>4, <1>5, <2>1, <2>2, <2>3 DEF NumbersInv, Shown
<1>8. CurrentInv'
  <2>1. \A c \in {current, manifestSure.current} : Sound(c) => Sound(c)'
    BY <1>1 DEF Sound
  <2> QED
    BY <1>1, <2>1, ManifestFacts DEF CurrentInv, Sound
<1>9. PruneInv'
  <2>1. ~Shown /\ ~Shown'
    BY <1>1 DEF Shown
  <2> QED
    BY <1>1, <1>2, <1>5, <2>1, ManifestFacts DEF PruneInv, Near, Above
<1> QED
  BY <1>6, <1>7, <1>8, <1>9 DEF ManifestInv

LEMMA ProceedsCommit ==
    ASSUME ManifestTypes, NEW at \in CommitSteps, Goes(at)
    PROVE  commit' \in CommitTypes /\ commit'.at = at /\ commit'.gen = commit.gen
  BY DEF ManifestTypes, Goes, CommitTypes

\* The new file is the highest one.
LEMMA RenameManifestKeeps == ASSUME ManifestInv, RenameManifest PROVE ManifestInv'
<1> DEFINE n == commit.gen
<1>1. /\ commit.at = "rename" /\ Goes("sync") /\ file' = [file EXCEPT ![n] = Attempt]
      /\ UNCHANGED <<current, manifestSure, proxima, prune, manifestAnswered, tried, manifestUsed>>
  BY DEF RenameManifest
<1>2. n = Top + 1 /\ n \in 1 .. Attempt /\ 0 < Attempt /\ Attempt \in tried /\ n \in Gens
  BY <1>1, ManifestFacts DEF NumbersInv, Gens, Numbers
<1>3. commit' \in CommitTypes /\ commit'.at = "sync" /\ commit'.gen = n
  BY <1>1, ManifestFacts, ProceedsCommit DEF CommitSteps
<1> HIDE DEF n
<1>4. /\ file' \in [Gens -> Numbers] /\ file'[n] = Attempt /\ \A g \in Gens : g # n => file'[g] = file[g]
      /\ Attempt' = Attempt /\ file[n] = 0
  <2>1. file[n] = 0
    <3>1. n \notin Listed
      BY <1>2, ManifestFacts DEF Numbers, Gens
    <3> QED
      BY <1>2, <3>1 DEF Listed
  <2> QED
    BY <1>1, <1>2, <2>1, ManifestFacts DEF Attempt
<1>5. Listed' = Listed \cup {n}
  <2>1. \A g \in Gens : file'[g] # 0 <=> (file[g] # 0 \/ g = n)
    <3>1. Attempt # 0
      BY <1>2, ManifestFacts DEF Numbers
    <3> QED
      BY <1>4, <3>1
  <2>2. Listed' = {g \in Gens : file'[g] # 0}
    BY DEF Listed, Gens
  <2> QED
    BY <1>2, <2>1, <2>2 DEF Listed
<1>6. Top' = n
  <2>1. \A y \in Listed' : y <= n
    BY <1>2, <1>5, ManifestFacts DEF Numbers, Gens
  <2>2. n \in Listed' \cup {0}
    BY <1>5
  <2>3. (\A x \in Listed' \cup {0} : (\A y \in Listed' : y <= x) => Top' = x)
    <3> HIDE DEF Top, Listed, Gens
    <3>1. file' \in [Gens' -> Numbers']
      BY <1>4 DEF Gens, Numbers
    <3> QED
      BY <3>1, TopOfNew
  <2> QED
    BY <2>1, <2>2, <2>3
<1>7. ManifestTypes'
  BY <1>1, <1>3, <1>4, ManifestFacts DEF ManifestTypes, CommitTypes
<1>8. NumbersInv'
  <2>1. \A g \in Gens : file'[g] # 0 \/ manifestSure'.file[g] # 0 => g <= Attempt'
    BY <1>1, <1>2, <1>4, ManifestFacts DEF NumbersInv
  <2>2. proxima' # 0 => proxima' <= Attempt' + 1 /\ proxima' = Top'
    BY <1>1, <1>2, <1>4, <1>6, ManifestFacts DEF NumbersInv, Shown
  <2> QED
    BY <1>1, <1>2, <1>3, <1>4, <1>6, <2>1, <2>2 DEF NumbersInv, Shown
<1>9. CurrentInv'
  <2>1. \A c \in {current, manifestSure.current} : Sound(c) => Sound(c)'
    BY <1>1, <1>4 DEF Sound
  <2>2. manifestAnswered' = 0 => \A g \in Gens : {file'[g], manifestSure'.file[g]} \subseteq tried' \cup {0}
    BY <1>1, <1>2, <1>4, ManifestFacts DEF CurrentInv
  <2> QED
    BY <1>1, <2>1, <2>2, ManifestFacts DEF CurrentInv, Sound
<1>10. PruneInv'
  <2>1. ~Shown /\ Shown'
    BY <1>1, <1>3 DEF Shown
  <2>2. ASSUME NEW c \in Currents, Near(c) PROVE Near(c)'
    BY <1>1, <1>2, <1>6, <2>1, <2>2, ManifestFacts DEF Near, Above, Currents, Numbers
  <2> QED
    BY <1>1, <2>2, ManifestFacts DEF PruneInv
<1> QED
  BY <1>7, <1>8, <1>9, <1>10 DEF ManifestInv
\* The directory is synced: what it shows is what a power failure leaves.
LEMMA SyncManifestKeeps == ASSUME ManifestInv, SyncManifest PROVE ManifestInv'
<1>1. /\ commit.at = "sync" /\ Goes("current")
      /\ manifestSure' = [file |-> file, current |-> current]
      /\ UNCHANGED <<file, current, proxima, prune, manifestAnswered, tried, manifestUsed>>
  BY DEF SyncManifest
<1>2. commit' \in CommitTypes /\ commit'.at = "current" /\ commit'.gen = commit.gen
  BY <1>1, ManifestFacts, ProceedsCommit DEF CommitSteps
<1>3. /\ Listed' = Listed /\ Top' = Top /\ Attempt' = Attempt /\ Shown /\ Shown'
      /\ manifestSure'.file = file /\ manifestSure'.current = current
  BY <1>1, <1>2, SameFiles DEF Attempt, Shown
<1>4. ManifestTypes'
  BY <1>1, <1>2, ManifestFacts DEF ManifestTypes, CommitTypes
<1>5. NumbersInv'
  BY <1>1, <1>2, <1>3, ManifestFacts DEF NumbersInv
<1>6. CurrentInv'
  <2>1. Sound(current)' /\ Sound(manifestSure.current)'
    BY <1>1, <1>3, ManifestFacts DEF CurrentInv, Sound
  <2> QED
    BY <1>1, <1>3, <2>1, ManifestFacts DEF CurrentInv
<1>7. PruneInv'
  <2>1. Above' = Above
    BY <1>1, <1>3 DEF Above
  <2> QED
    BY <1>1, <1>3, <2>1, ManifestFacts DEF PruneInv, Near
<1> QED
  BY <1>4, <1>5, <1>6, <1>7 DEF ManifestInv

\* CURRENT says something only if its file is in the directory.
LEMMA SoundIsListed ==
    ASSUME ManifestInv, NEW c \in {current, manifestSure.current}
    PROVE  c.gen <= Top /\ c.gen \in Nat /\ (c.gen # 0 => c.gen \in Listed)
<1>1. Sound(c) /\ c \in Currents
  BY ManifestFacts DEF CurrentInv
<1>2. c.gen # 0 => c.gen \in Listed
  BY <1>1 DEF Sound, NoCurrent, Listed
<1> QED
  BY <1>1, <1>2, ManifestFacts DEF Currents, Numbers

\* CURRENT names the file of this commit, which was synced before.
LEMMA RenameCurrentKeeps == ASSUME ManifestInv, RenameCurrent PROVE ManifestInv'
<1>1. /\ commit.at = "current" /\ Goes("answer")
      /\ current' = [gen |-> commit.gen, digest |-> Attempt]
      /\ UNCHANGED <<file, manifestSure, proxima, prune, manifestAnswered, tried, manifestUsed>>
  BY DEF RenameCurrent
<1>2. commit' \in CommitTypes /\ commit'.at = "answer" /\ commit'.gen = commit.gen
  BY <1>1, ManifestFacts, ProceedsCommit DEF CommitSteps
<1>3. /\ Listed' = Listed /\ Top' = Top /\ Attempt' = Attempt /\ Shown /\ Shown'
  BY <1>1, <1>2, SameFiles DEF Attempt, Shown
<1>4. /\ commit.gen = Top /\ commit.gen \in Numbers /\ commit.gen \in 1 .. Attempt /\ commit.gen \in Gens
      /\ file[commit.gen] = Attempt /\ manifestSure.file[commit.gen] = Attempt
      /\ 0 < Attempt /\ Attempt \in tried
      /\ current'.gen = commit.gen /\ current'.digest = Attempt
  BY <1>1, <1>3, ManifestFacts DEF NumbersInv, Gens, Numbers, CommitTypes
<1>5. ManifestTypes'
  BY <1>1, <1>2, <1>4, ManifestFacts DEF ManifestTypes, CommitTypes, Currents
<1>6. NumbersInv'
  BY <1>1, <1>2, <1>3, <1>4, ManifestFacts DEF NumbersInv
<1>7. CurrentInv'
  <2>1. Sound(current)'
    BY <1>1, <1>4, ManifestFacts DEF Sound, Numbers
  <2>2. Sound(manifestSure.current)'
    BY <1>1, ManifestFacts DEF CurrentInv, Sound
  <2> QED
    BY <1>1, <2>1, <2>2, ManifestFacts DEF CurrentInv
<1>8. PruneInv'
  <2>1. Above' = Above /\ Above \in Nat
    BY <1>1, <1>3, ManifestFacts DEF Above
  <2>2. Near(current)'
    BY <1>3, <1>4, <2>1, ManifestFacts DEF Near, Numbers
  <2>3. Near(manifestSure.current) => Near(manifestSure.current)'
    BY <1>1, <1>3, <2>1 DEF Near
  <2>4. \A g \in Gens : g < current.gen => g < current'.gen
    <3>1. current.gen <= Top /\ current.gen \in Nat
      BY SoundIsListed
    <3> QED
      BY <1>4, <3>1, ManifestFacts DEF Gens, Numbers
  <2>5. prune.doomed \subseteq Gens
    BY ManifestFacts DEF ManifestTypes
  <2> QED
    BY <1>1, <2>2, <2>3, <2>4, <2>5, ManifestFacts DEF PruneInv
<1> QED
  BY <1>5, <1>6, <1>7, <1>8 DEF ManifestInv

\* The commit is answered; a collection may begin, with CURRENT at the top.
LEMMA SyncCurrentKeeps == ASSUME ManifestInv, SyncCurrent PROVE ManifestInv'
<1>1. /\ commit.at = "answer" /\ commit' = NoCommit
      /\ manifestSure' = [file |-> file, current |-> current]
      /\ proxima' = commit.gen + 1 /\ manifestAnswered' = Attempt /\ tried' = {}
      /\ UNCHANGED <<file, current>>
  BY DEF SyncCurrent
<1>2. /\ prune' = prune \/ prune' = [prune EXCEPT !.at = "due"]
      /\ manifestUsed' = manifestUsed \/ ManifestSpends("prunes", MaxPrunes)
  BY DEF SyncCurrent
<1>3. manifestUsed' \in Budgets /\ Attempt' = Attempt /\ manifestUsed'.faults = manifestUsed.faults
  BY <1>2, ManifestFacts, ManifestSpendsTypes DEF Attempt
<1>4. /\ Listed' = Listed /\ Top' = Top /\ Shown /\ ~Shown'
      /\ manifestSure'.file = file /\ manifestSure'.current = current
  BY <1>1, SameFiles DEF Shown, NoCommit
<1>5. /\ commit.gen = Top /\ commit.gen \in 1 .. Attempt /\ file[commit.gen] = Attempt
      /\ manifestSure.file[commit.gen] = Attempt
      /\ 0 < Attempt /\ current.gen = commit.gen /\ current.digest = Attempt /\ commit.gen \in Gens
  BY <1>1, <1>4, ManifestFacts DEF NumbersInv, Gens, Numbers
<1>6. ManifestTypes'
  <2>1. proxima' \in 0 .. MaxAttempts + 1
    BY <1>1, <1>5, ManifestFacts DEF Numbers
  <2>2. commit' \in [at : CommitSteps, gen : Numbers]
    BY <1>1, ManifestFacts DEF NoCommit, CommitSteps, Numbers
  <2>3. prune' \in [at : PruneSteps, kept : SUBSET Gens, doomed : SUBSET Gens]
    BY <1>2, ManifestFacts DEF ManifestTypes, PruneSteps
  <2> QED
    BY <1>1, <1>3, <1>4, <2>1, <2>2, <2>3, ManifestFacts DEF ManifestTypes, Budgets
<1>7. NumbersInv'
  <2>1. proxima' = Top + 1 /\ proxima' <= Attempt + 1
    BY <1>1, <1>5, ManifestFacts DEF Numbers
  <2>2. commit'.at = "idle"
    BY <1>1 DEF NoCommit
  <2> QED
    BY <1>1, <1>3, <1>4, <2>1, <2>2, ManifestFacts DEF NumbersInv
<1>8. CurrentInv'
  <2>1. Sound(current)' /\ Sound(manifestSure.current)'
    BY <1>1, <1>4, <1>5, ManifestFacts DEF Sound, Numbers
  <2>2. manifestAnswered' # 0
    BY <1>1, <1>5, ManifestFacts DEF Numbers
  <2> QED
    BY <2>1, <2>2 DEF CurrentInv
<1>9. PruneInv'
  <2>1. Above' \in Nat
    BY <1>3, <1>4, ManifestFacts DEF Above
  <2>2. Near(current)' /\ Near(manifestSure.current)'
    BY <1>1, <1>4, <1>5, <2>1, ManifestFacts DEF Near, Numbers
  <2>3. prune'.at = "unlink" => prune' = prune
    BY <1>2, ManifestFacts DEF ManifestTypes
  <2> QED
    BY <1>1, <1>4, <2>2, <2>3, ManifestFacts DEF PruneInv
<1> QED
  BY <1>6, <1>7, <1>8, <1>9 DEF ManifestInv

\* A commit given up leaves its file above what CURRENT says: one more.
LEMMA CommitFailsKeeps == ASSUME ManifestInv, CommitFails PROVE ManifestInv'
<1>1. /\ commit.at # "idle" /\ ManifestSpends("faults", MaxManifestFaults)
      /\ commit' = NoCommit /\ proxima' = 0
      /\ UNCHANGED <<file, current, manifestSure, prune, manifestAnswered, tried>>
  BY DEF CommitFails
<1>2. manifestUsed' \in Budgets /\ Attempt' = Attempt /\ manifestUsed'.faults = manifestUsed.faults + 1
  BY <1>1, ManifestFacts, ManifestSpendsTypes
<1>3. Listed' = Listed /\ Top' = Top /\ ~Shown' /\ commit'.at = "idle"
  BY <1>1, SameFiles DEF Shown, NoCommit
<1>4. ManifestTypes'
  <2>1. commit' \in [at : CommitSteps, gen : Numbers] /\ proxima' \in 0 .. MaxAttempts + 1
    BY <1>1, ManifestFacts DEF NoCommit, CommitSteps, Numbers
  <2> QED
    BY <1>1, <1>2, <2>1, ManifestFacts DEF ManifestTypes, Budgets
<1>5. NumbersInv'
  BY <1>1, <1>2, <1>3, ManifestFacts DEF NumbersInv
<1>6. CurrentInv'
  BY <1>1, ManifestFacts DEF CurrentInv, Sound
<1>7. PruneInv'
  <2>1. Above \in Nat /\ Above' \in Nat /\ Above <= Above'
    BY <1>2, <1>3, ManifestFacts DEF Above
  <2>2. ASSUME NEW c \in Currents, Near(c) PROVE Near(c)'
    BY <1>3, <2>1, <2>2, ManifestFacts DEF Near, Currents, Numbers
  <2> QED
    BY <1>1, <2>2, ManifestFacts DEF PruneInv
<1> QED
  BY <1>4, <1>5, <1>6, <1>7 DEF ManifestInv
\* A collection reads CURRENT.
LEMMA PruneReadsKeeps == ASSUME ManifestInv, PruneReads PROVE ManifestInv'
<1>1. /\ prune.at = "due"
      /\ prune' = [prune EXCEPT !.at = "list", !.kept = IF Resolves THEN {current.gen} ELSE {}]
      /\ UNCHANGED <<file, current, manifestSure, proxima, commit, manifestAnswered, tried, manifestUsed>>
  BY DEF PruneReads
<1>2. Resolves => current.gen \in Gens
  BY ManifestFacts DEF Resolves, Currents, Numbers, Gens
<1>3. ManifestTypes'
  <2>1. prune' \in [at : PruneSteps, kept : SUBSET Gens, doomed : SUBSET Gens] /\ prune'.at = "list"
    BY <1>1, <1>2, ManifestFacts DEF ManifestTypes, PruneSteps
  <2> QED
    BY <1>1, <2>1, ManifestFacts DEF ManifestTypes
<1>4. Top' = Top /\ Attempt' = Attempt /\ Shown' = Shown /\ Above' = Above
  BY <1>1, SameFiles DEF Attempt, Shown, Above
<1>5. NumbersInv'
  BY <1>1, <1>4, ManifestFacts DEF NumbersInv, Shown
<1>6. CurrentInv'
  BY <1>1, ManifestFacts DEF CurrentInv, Sound
<1>7. PruneInv'
  <2>1. prune'.at = "list"
    BY <1>3, <1>1, ManifestFacts DEF ManifestTypes
  <2> QED
    BY <1>1, <1>4, <2>1, ManifestFacts DEF PruneInv, Near
<1> QED
  BY <1>3, <1>5, <1>6, <1>7 DEF ManifestInv

\* It lists the directory: of the files up to Keep from the top, none is
\* doomed, and what CURRENT says is one of them.
LEMMA PruneListsKeeps ==
    ASSUME Keep > MaxManifestFaults + 1, ManifestInv, PruneLists PROVE ManifestInv'
<1> DEFINE Others(g) == {h \in Listed : h > g}
           last == {g \in Listed : Cardinality(Others(g)) < Highest({Keep, 1})}
<1>1. /\ prune.at = "list"
      /\ prune' = [prune EXCEPT !.at = "unlink", !.doomed = Listed \ (last \cup prune.kept)]
      /\ UNCHANGED <<file, current, manifestSure, proxima, commit, manifestAnswered, tried, manifestUsed>>
  BY DEF PruneLists
<1>2. prune' \in [at : PruneSteps, kept : SUBSET Gens, doomed : SUBSET Gens]
      /\ prune'.doomed \subseteq Listed \ last
  BY <1>1, ManifestFacts DEF ManifestTypes, PruneSteps
<1>3. Highest({Keep, 1}) = Keep
  <2>1. Keep \in Nat /\ Keep >= 1
    BY ManifestStoreAssumption
  <2>2. {Keep, 1} \in SUBSET (0 .. Keep)
    BY <2>1
  <2>3. \A x \in {Keep, 1} \cup {0} : (\A y \in {Keep, 1} : y <= x) => Highest({Keep, 1}) = x
    BY <2>1, <2>2, HighestIs
  <2> QED
    BY <2>1, <2>3
<1>4. Top' = Top /\ Attempt' = Attempt /\ Shown' = Shown /\ Above' = Above
  BY <1>1, SameFiles DEF Attempt, Shown, Above
<1>5. Above \in Nat /\ Above < Keep
  <2>1. manifestUsed.faults \in 0 .. MaxManifestFaults
    BY ManifestFacts DEF ManifestTypes
  <2> QED
    BY <2>1, ManifestStoreAssumption DEF Above
<1>6. ASSUME NEW c \in {current, manifestSure.current}, NEW g \in prune'.doomed PROVE g < c.gen
  <2>1. Near(c) /\ c.gen \in Nat /\ g \in Listed /\ g \in Nat /\ Top \in Nat
    <3>1. Near(c)
      BY <1>1, ManifestFacts DEF PruneInv
    <3>2. c.gen \in Nat /\ Top \in Nat
      BY ManifestFacts, SoundIsListed DEF Numbers
    <3>3. g \in Listed /\ g \in Nat
      <4>1. g \in Listed
        BY <1>2
      <4> QED
        BY <4>1, ManifestFacts DEF Gens
    <3> QED
      BY <3>1, <3>2, <3>3
  <2>2. ~ (Cardinality(Others(g)) < Keep)
    BY <1>2, <1>3
  <2>3. SUFFICES ASSUME ~ (g < c.gen) PROVE FALSE
    OBVIOUS
  <2>4. Top <= g + Above
    BY <1>5, <2>1, <2>3 DEF Near
  <2>5. Cardinality(Others(g)) <= Above
    BY <1>5, <2>1, <2>4, ManifestFacts, FewAbove
  <2>6. Cardinality(Others(g)) \in Nat
    <3>1. Others(g) \subseteq 1 .. MaxAttempts /\ MaxAttempts \in Int
      BY ManifestFacts DEF Gens
    <3>2. IsFiniteSet(1 .. MaxAttempts)
      BY <3>1, FS_Interval
    <3>3. IsFiniteSet(Others(g))
      <4> HIDE DEF Others
      <4> QED
        BY <3>1, <3>2, FS_Subset
    <3> HIDE DEF Others
    <3> QED
      BY <3>3, FS_CardinalityType
  <2> QED
    BY <1>5, <2>2, <2>5, <2>6, ManifestStoreAssumption
<1> HIDE DEF last
<1>7. ManifestTypes'
  BY <1>1, <1>2, ManifestFacts DEF ManifestTypes
<1>8. NumbersInv'
  BY <1>1, <1>4, ManifestFacts DEF NumbersInv, Shown
<1>9. CurrentInv'
  BY <1>1, ManifestFacts DEF CurrentInv, Sound
<1>10. PruneInv'
  <2>1. Near(current)' /\ Near(manifestSure.current)'
    BY <1>1, <1>4, ManifestFacts DEF PruneInv, Near
  <2>2. \A g \in prune'.doomed : g < current'.gen /\ g < manifestSure'.current.gen
    BY <1>1, <1>6
  <2> QED
    BY <2>1, <2>2 DEF PruneInv
<1> QED
  BY <1>7, <1>8, <1>9, <1>10 DEF ManifestInv

\* Unlinking a file below what CURRENT says leaves the highest, and CURRENT's.
LEMMA UnlinkKeeps ==
    ASSUME ManifestInv, NEW g \in prune.doomed, prune.at = "unlink",
           file' = [file EXCEPT ![g] = 0], prune' = [prune EXCEPT !.doomed = @ \ {g}],
           UNCHANGED <<current, manifestSure, proxima, commit, manifestAnswered, tried, manifestUsed>>
    PROVE  ManifestInv'
<1>1. g \in Gens /\ g < current.gen /\ g < manifestSure.current.gen
  BY ManifestFacts DEF PruneInv, ManifestTypes
<1>2. g < Top
  BY <1>1, SoundIsListed, ManifestFacts DEF Gens, Numbers
<1>3. /\ file' \in [Gens -> Numbers] /\ file'[g] = 0 /\ \A h \in Gens : h # g => file'[h] = file[h]
      /\ prune' \in [at : PruneSteps, kept : SUBSET Gens, doomed : SUBSET Gens]
      /\ prune'.at = "unlink" /\ prune'.doomed \subseteq prune.doomed
  <2>1. 0 \in Numbers
    BY ManifestFacts DEF Numbers
  <2> QED
    BY <1>1, <2>1, ManifestFacts DEF ManifestTypes
<1>4. Listed' = Listed \ {g}
  <2>1. Listed' = {h \in Gens : file'[h] # 0}
    BY DEF Listed, Gens
  <2> QED
    BY <1>3, <2>1 DEF Listed
<1>5. Top' = Top
  <2>1. Top \in Listed' \cup {0} /\ \A y \in Listed' : y <= Top
    <3> HIDE DEF Top
    <3> QED
      BY <1>1, <1>2, <1>4, ManifestFacts DEF Gens
  <2>2. \A x \in Listed' \cup {0} : (\A y \in Listed' : y <= x) => Top' = x
    <3>1. file' \in [Gens' -> Numbers']
      BY <1>3 DEF Gens, Numbers
    <3> QED
      BY <3>1, TopOfNew
  <2> QED
    BY <2>1, <2>2
<1>6. Attempt' = Attempt /\ Shown' = Shown /\ Above' = Above
  BY DEF Attempt, Shown, Above
<1>7. ManifestTypes'
  BY <1>3, ManifestFacts DEF ManifestTypes
<1>8. NumbersInv'
  <2>1. \A h \in Gens : file'[h] # 0 \/ manifestSure'.file[h] # 0 => h <= Attempt'
    BY <1>3, <1>6, ManifestFacts DEF NumbersInv
  <2>2. Shown => commit.gen # g /\ commit.gen \in Gens
    BY <1>1, <1>2, ManifestFacts DEF NumbersInv, Gens, Numbers, Shown
  <2>3. Shown' => commit'.gen = Top' /\ file'[commit'.gen] = Attempt'
    BY <1>3, <1>5, <1>6, <2>2, ManifestFacts DEF NumbersInv
  <2> QED
    BY <1>5, <1>6, <2>1, <2>3, ManifestFacts DEF NumbersInv
<1>9. CurrentInv'
  <2>1. ASSUME NEW c \in {current, manifestSure.current} PROVE Sound(c) => Sound(c)'
    <3>1. c.gen # g
      BY <1>1, ManifestFacts, SoundIsListed DEF Gens
    <3> QED
      BY <1>3, <3>1 DEF Sound
  <2>2. manifestAnswered' = 0 => \A h \in Gens : {file'[h], manifestSure'.file[h]} \subseteq tried' \cup {0}
    BY <1>3, ManifestFacts DEF CurrentInv
  <2> QED
    BY <2>1, <2>2, ManifestFacts DEF CurrentInv, Sound
<1>10. PruneInv'
  BY <1>3, <1>5, <1>6, ManifestFacts DEF PruneInv, Near
<1> QED
  BY <1>7, <1>8, <1>9, <1>10 DEF ManifestInv

LEMMA PruneUnlinksKeeps == ASSUME ManifestInv, PruneUnlinks PROVE ManifestInv'
<1>1. /\ prune.at = "unlink"
      /\ UNCHANGED <<current, manifestSure, proxima, commit, manifestAnswered, tried>>
  BY DEF PruneUnlinks
<1>2. CASE /\ prune.doomed # {}
           /\ file' = [file EXCEPT ![Min(prune.doomed)] = 0]
           /\ prune' = [prune EXCEPT !.doomed = @ \ {Min(prune.doomed)}]
           /\ UNCHANGED manifestUsed
  <2>1. Min(prune.doomed) \in prune.doomed
    <3>1. prune.doomed \in SUBSET Nat
      BY ManifestFacts DEF ManifestTypes, Gens
    <3>2. \E x \in prune.doomed : \A y \in prune.doomed : x =< y
      BY <1>2, <3>1, SmallestExists
    <3> QED
      BY <3>2 DEF Min
  <2> QED
    BY <1>1, <1>2, <2>1, UnlinkKeeps
<1>3. CASE /\ prune' = NoPrune /\ UNCHANGED file
           /\ manifestUsed' = manifestUsed \/ ManifestSpends("faults", MaxManifestFaults)
  <2>1. manifestUsed' \in Budgets /\ Attempt' = Attempt
    BY <1>3, ManifestFacts, ManifestSpendsTypes DEF Attempt
  <2>2. Top' = Top /\ Shown' = Shown
    BY <1>1, <1>3, SameFiles DEF Shown
  <2>3. prune' \in [at : PruneSteps, kept : SUBSET Gens, doomed : SUBSET Gens] /\ prune'.at = "idle"
    BY <1>3 DEF NoPrune, PruneSteps
  <2>4. ManifestTypes'
    BY <1>1, <1>3, <2>1, <2>3, ManifestFacts DEF ManifestTypes, Budgets
  <2>5. NumbersInv'
    BY <1>1, <1>3, <2>1, <2>2, ManifestFacts DEF NumbersInv
  <2>6. CurrentInv'
    BY <1>1, <1>3, ManifestFacts DEF CurrentInv, Sound
  <2>7. PruneInv'
    BY <2>3 DEF PruneInv
  <2> QED
    BY <2>4, <2>5, <2>6, <2>7 DEF ManifestInv
<1> QED
  BY <1>2, <1>3 DEF PruneUnlinks

\* A restart forgets the commit, the collection and the next number.
LEMMA ManifestKillKeeps == ASSUME ManifestInv, ManifestKill PROVE ManifestInv'
<1>1. /\ ManifestSpends("kills", MaxManifestKills)
      /\ commit' = NoCommit /\ prune' = NoPrune /\ proxima' = 0
      /\ UNCHANGED <<file, current, manifestSure, manifestAnswered, tried>>
  BY DEF ManifestKill, Restarts
<1>2. manifestUsed' \in Budgets /\ Attempt' = Attempt
  BY <1>1, ManifestFacts, ManifestSpendsTypes
<1>3. ~Shown' /\ commit'.at = "idle" /\ prune'.at = "idle"
  BY <1>1 DEF Shown, NoCommit, NoPrune
<1>4. ManifestTypes'
  <2>1. commit' \in [at : CommitSteps, gen : Numbers] /\ proxima' \in 0 .. MaxAttempts + 1
    BY <1>1, ManifestFacts DEF NoCommit, CommitSteps, Numbers
  <2>2. prune' \in [at : PruneSteps, kept : SUBSET Gens, doomed : SUBSET Gens]
    BY <1>1 DEF NoPrune, PruneSteps
  <2> QED
    BY <1>1, <1>2, <2>1, <2>2, ManifestFacts DEF ManifestTypes, Budgets
<1>5. NumbersInv'
  BY <1>1, <1>2, <1>3, ManifestFacts DEF NumbersInv
<1>6. CurrentInv'
  BY <1>1, ManifestFacts DEF CurrentInv, Sound
<1>7. PruneInv'
  BY <1>3 DEF PruneInv
<1> QED
  BY <1>4, <1>5, <1>6, <1>7 DEF ManifestInv

\* What a power failure leaves of CURRENT names a file it leaves.
LEMMA ManifestPowerLossKeeps == ASSUME ManifestInv, ManifestPowerLoss PROVE ManifestInv'
<1>1. PICK back \in SUBSET Gens :
         file' = [g \in Gens |-> IF g \in back THEN manifestSure.file[g] ELSE file[g]]
  BY DEF ManifestPowerLoss
<1>2. /\ ManifestSpends("powerLosses", MaxPowerLosses)
      /\ commit' = NoCommit /\ prune' = NoPrune /\ proxima' = 0
      /\ current' \in {current, manifestSure.current}
      /\ manifestSure' = [file |-> file', current |-> current']
      /\ UNCHANGED <<manifestAnswered, tried>>
  BY DEF ManifestPowerLoss, Restarts
<1>3. manifestUsed' \in Budgets /\ Attempt' = Attempt
  BY <1>2, ManifestFacts, ManifestSpendsTypes
<1>4. ~Shown' /\ commit'.at = "idle" /\ prune'.at = "idle"
  BY <1>2 DEF Shown, NoCommit, NoPrune
<1>5. /\ file' \in [Gens -> Numbers] /\ manifestSure'.file = file' /\ manifestSure'.current = current'
      /\ \A g \in Gens : file'[g] \in {file[g], manifestSure.file[g]}
  BY <1>1, <1>2, ManifestFacts
<1>6. ManifestTypes'
  <2>1. commit' \in [at : CommitSteps, gen : Numbers] /\ proxima' \in 0 .. MaxAttempts + 1
    BY <1>2, ManifestFacts DEF NoCommit, CommitSteps, Numbers
  <2>2. prune' \in [at : PruneSteps, kept : SUBSET Gens, doomed : SUBSET Gens]
    BY <1>2 DEF NoPrune, PruneSteps
  <2>3. current' \in Currents
    BY <1>2, ManifestFacts
  <2> QED
    BY <1>2, <1>3, <1>5, <2>1, <2>2, <2>3, ManifestFacts DEF ManifestTypes, Budgets
<1>7. NumbersInv'
  <2>1. \A g \in Gens : file'[g] # 0 \/ manifestSure'.file[g] # 0 => g <= Attempt'
    BY <1>3, <1>5, ManifestFacts DEF NumbersInv
  <2> QED
    BY <1>2, <1>4, <2>1 DEF NumbersInv
<1>8. CurrentInv'
  <2>1. Sound(current)' /\ Sound(manifestSure.current)'
    <3>1. Sound(current')
      BY <1>2, ManifestFacts DEF CurrentInv
    <3> QED
      BY <1>2, <1>5, <3>1 DEF Sound
  <2>2. manifestAnswered' = 0 => \A g \in Gens : {file'[g], manifestSure'.file[g]} \subseteq tried' \cup {0}
    BY <1>2, <1>5, ManifestFacts DEF CurrentInv
  <2> QED
    BY <2>1, <2>2 DEF CurrentInv
<1>9. PruneInv'
  BY <1>4 DEF PruneInv
<1> QED
  BY <1>6, <1>7, <1>8, <1>9 DEF ManifestInv

LEMMA ManifestStepKeeps ==
    ASSUME Keep > MaxManifestFaults + 1, ManifestInv, [ManifestNext]_manifestVars PROVE ManifestInv'
<1>1. CASE UNCHANGED manifestVars
  <2>1. Top' = Top
    BY <1>1, SameFiles DEF manifestVars
  <2>2. ManifestTypes' /\ NumbersInv' /\ CurrentInv'
    BY <1>1, <2>1, ManifestFacts DEF manifestVars, ManifestTypes, NumbersInv, CurrentInv, Sound, Shown, Attempt
  <2>3. PruneInv'
    BY <1>1, <2>1, ManifestFacts DEF manifestVars, PruneInv, Near, Above, Shown
  <2> QED
    BY <2>2, <2>3 DEF ManifestInv
<1>2. CASE BeginCommit
  BY <1>2, BeginCommitKeeps
<1>3. CASE CommitStep
  BY <1>3, RenameManifestKeeps, SyncManifestKeeps, RenameCurrentKeeps, SyncCurrentKeeps, CommitFailsKeeps
     DEF CommitStep
<1>4. CASE PruneReads \/ PruneLists \/ PruneUnlinks
  BY <1>4, PruneReadsKeeps, PruneListsKeeps, PruneUnlinksKeeps
<1>5. CASE ManifestKill \/ ManifestPowerLoss
  BY <1>5, ManifestKillKeeps, ManifestPowerLossKeeps
<1> QED
  BY <1>1, <1>2, <1>3, <1>4, <1>5 DEF ManifestNext

\* What a boot loads: what CURRENT names or, before the first commit was
\* answered, the highest file of an attempt.
LEMMA LoadsWhatWasCommitted == ASSUME ManifestInv PROVE LoadsCommitted
<1>1. Sound(current) /\ current \in Currents
  BY ManifestFacts DEF CurrentInv
<1>2. current # NoCurrent => Resolves
  BY <1>1 DEF Sound, Resolves, Gens
<1>3. LoadManifest \in {manifestAnswered} \cup tried
  <2>1. CASE Resolves
    BY <1>1, <2>1 DEF LoadManifest, Sound
  <2>2. CASE ~Resolves
    <3>1. current = NoCurrent /\ 0 \in {manifestAnswered} \cup tried /\ 0 \notin tried
      BY <1>1, <1>2, <2>2, ManifestFacts DEF Sound, NoCurrent, ManifestTypes
    <3>2. manifestAnswered = 0 /\ Listed \ {current.gen} = Listed
      BY <3>1, ManifestFacts DEF NoCurrent, Gens
    <3>3. LoadManifest = IF Listed = {} THEN 0 ELSE file[Top]
      BY <2>2, <3>2 DEF LoadManifest, Top
    <3>4. CASE Listed = {}
      BY <3>1, <3>3, <3>4
    <3>5. CASE Listed # {}
      <4>1. Top \in Listed
        <5>1. PICK g \in Listed : g <= Top
          BY <3>5, ManifestFacts
        <5> QED
          BY <5>1, ManifestFacts DEF Gens, Numbers
      <4>2. file[Top] \in tried
        BY <3>2, <4>1, ManifestFacts DEF CurrentInv, Listed
      <4> QED
        BY <3>3, <3>5, <4>2
    <3> QED
      BY <3>4, <3>5
  <2> QED
    BY <2>1, <2>2
<1> QED
  BY <1>2, <1>3 DEF LoadsCommitted

\* A boot loads the last manifest answered Ok or one tried since, and CURRENT
\* always resolves, whatever kills, power failures and failing calls occur, as
\* long as a collection keeps more files than one commit in flight and the
\* calls that failed can have put above the one CURRENT names.
THEOREM ManifestsLoad ==
    ASSUME Keep > MaxManifestFaults + 1 PROVE ManifestSpec => []LoadsCommitted
<1>1. ManifestInit => ManifestInv
  BY ManifestInitInv
<1>2. ManifestInv /\ [ManifestNext]_manifestVars => ManifestInv'
  BY ManifestStepKeeps
<1>3. ManifestInv => LoadsCommitted
  BY LoadsWhatWasCommitted
<1> QED
  BY <1>1, <1>2, <1>3, PTL DEF ManifestSpec

\* Types of the directory, whatever is kept: no commit takes a number beyond
\* those of the attempts.
ManifestUses == [attempts : Numbers, prunes : 0 .. MaxPrunes, faults : 0 .. MaxManifestFaults,
             kills : 0 .. MaxManifestKills, powerLosses : 0 .. MaxPowerLosses]

FilesNumbered ==
    /\ file \in [Gens -> Numbers] /\ current \in Currents
    /\ manifestSure = [file |-> manifestSure.file, current |-> manifestSure.current]
    /\ manifestSure.file \in [Gens -> Numbers] /\ manifestSure.current \in Currents
    /\ \A g \in Gens : file[g] # 0 \/ manifestSure.file[g] # 0 => g <= Attempt

CommitNumbered ==
    /\ proxima \in 0 .. MaxAttempts + 1 /\ proxima <= Attempt + 1
    /\ commit \in CommitTypes
    /\ commit.at # "idle" => 0 < Attempt /\ commit.gen \in 1 .. Attempt

StoreTypes ==
    /\ FilesNumbered /\ CommitNumbered
    /\ prune \in [at : PruneSteps, kept : SUBSET Gens, doomed : SUBSET Gens]
    /\ manifestAnswered \in Numbers /\ tried \subseteq Numbers
    /\ manifestUsed \in ManifestUses

LEMMA UsesCounted ==
    ASSUME manifestUsed \in ManifestUses
    PROVE  /\ ManifestSpends("attempts", MaxAttempts) => manifestUsed' \in ManifestUses /\ Attempt' = Attempt + 1
           /\ \/ ManifestSpends("faults", MaxManifestFaults) \/ ManifestSpends("prunes", MaxPrunes)
              \/ ManifestSpends("kills", MaxManifestKills) \/ ManifestSpends("powerLosses", MaxPowerLosses)
              => manifestUsed' \in ManifestUses /\ Attempt' = Attempt
           /\ Attempt \in Nat /\ Attempt \in Numbers /\ MaxAttempts \in Nat
<1>1. /\ MaxAttempts \in Nat /\ MaxManifestFaults \in Nat /\ MaxPrunes \in Nat
      /\ MaxManifestKills \in Nat /\ MaxPowerLosses \in Nat
  BY ManifestStoreAssumption
<1>2. ASSUME ManifestSpends("attempts", MaxAttempts)
      PROVE  manifestUsed' \in ManifestUses /\ Attempt' = Attempt + 1
  BY <1>1, <1>2 DEF ManifestSpends, ManifestUses, Numbers, Attempt
<1>3. ASSUME ManifestSpends("faults", MaxManifestFaults)
      PROVE  manifestUsed' \in ManifestUses /\ Attempt' = Attempt
  BY <1>1, <1>3 DEF ManifestSpends, ManifestUses, Attempt
<1>4. ASSUME ManifestSpends("prunes", MaxPrunes)
      PROVE  manifestUsed' \in ManifestUses /\ Attempt' = Attempt
  BY <1>1, <1>4 DEF ManifestSpends, ManifestUses, Attempt
<1>5. ASSUME ManifestSpends("kills", MaxManifestKills)
      PROVE  manifestUsed' \in ManifestUses /\ Attempt' = Attempt
  BY <1>1, <1>5 DEF ManifestSpends, ManifestUses, Attempt
<1>6. ASSUME ManifestSpends("powerLosses", MaxPowerLosses)
      PROVE  manifestUsed' \in ManifestUses /\ Attempt' = Attempt
  BY <1>1, <1>6 DEF ManifestSpends, ManifestUses, Attempt
<1>7. Attempt \in Nat /\ Attempt \in Numbers
  BY <1>1 DEF ManifestUses, Attempt, Numbers
<1> QED
  BY <1>1, <1>2, <1>3, <1>4, <1>5, <1>6, <1>7

\* The parts of a restart
LEMMA RestartNumbered ==
    ASSUME manifestUsed \in ManifestUses, Attempt' = Attempt, commit' = NoCommit, proxima' = 0
    PROVE  CommitNumbered'
  BY UsesCounted DEF CommitNumbered, NoCommit, CommitTypes, CommitSteps, Numbers

LEMMA NoPruneTyped == NoPrune \in [at : PruneSteps, kept : SUBSET Gens, doomed : SUBSET Gens]
  BY DEF NoPrune, PruneSteps

LEMMA BeginCommitTypes == ASSUME StoreTypes, BeginCommit PROVE StoreTypes'
<1>1. /\ commit.at = "idle" /\ ManifestSpends("attempts", MaxAttempts)
      /\ commit' = [at |-> "rename", gen |-> NextGeneration] /\ tried' = tried \cup {Attempt + 1}
      /\ UNCHANGED <<file, current, manifestSure, proxima, prune, manifestAnswered>>
  BY DEF BeginCommit
<1>2. /\ manifestUsed' \in ManifestUses /\ Attempt' = Attempt + 1 /\ Attempt \in Nat /\ MaxAttempts \in Nat
      /\ Attempt' \in Numbers
  <2>1. manifestUsed' \in ManifestUses /\ Attempt' = Attempt + 1 /\ Attempt \in Nat /\ MaxAttempts \in Nat
    BY <1>1, UsesCounted DEF StoreTypes
  <2> QED
    BY <2>1 DEF ManifestUses, Attempt
<1>3. Top <= Attempt /\ Top \in Nat
  <2>1. Top \in Listed \cup {0} /\ Listed \subseteq Gens
    BY TopIs DEF StoreTypes, FilesNumbered
  <2>2. \A g \in Listed : g <= Attempt /\ g \in Nat
    BY <2>1 DEF StoreTypes, FilesNumbered, Listed, Gens
  <2> QED
    BY <1>2, <2>1, <2>2
<1>4. NextGeneration \in 1 .. Attempt + 1
  <2>1. proxima \in Nat /\ proxima <= Attempt + 1
    BY <1>2 DEF StoreTypes, CommitNumbered
  <2>2. (NextGeneration = proxima /\ proxima # 0) \/ NextGeneration = Top + 1
    BY DEF NextGeneration, Top
  <2> QED
    BY <1>2, <1>3, <2>1, <2>2
<1>5. FilesNumbered'
  BY <1>1, <1>2 DEF StoreTypes, FilesNumbered, Gens
<1>6. CommitNumbered'
  <2>1. Attempt + 1 \in Numbers /\ NextGeneration \in Numbers
    BY <1>2, <1>4 DEF Numbers
  <2>2. commit' \in CommitTypes /\ commit'.gen = NextGeneration
    BY <1>1, <2>1 DEF CommitTypes, CommitSteps
  <2>3. proxima' \in 0 .. MaxAttempts + 1 /\ proxima' <= Attempt + 1 + 1
    BY <1>1, <1>2 DEF StoreTypes, CommitNumbered
  <2> QED
    BY <1>2, <1>4, <2>2, <2>3 DEF CommitNumbered
<1>7. tried' \subseteq Numbers
  BY <1>1, <1>2 DEF StoreTypes
<1> QED
  BY <1>1, <1>2, <1>5, <1>6, <1>7 DEF StoreTypes

LEMMA CommitStepTypes == ASSUME StoreTypes, CommitStep PROVE StoreTypes'
<1>0. /\ FilesNumbered /\ CommitNumbered /\ manifestUsed \in ManifestUses /\ Attempt \in Nat /\ Attempt \in Numbers
      /\ prune \in [at : PruneSteps, kept : SUBSET Gens, doomed : SUBSET Gens] /\ MaxAttempts \in Nat
  BY UsesCounted DEF StoreTypes
<1>1. ASSUME UNCHANGED <<proxima, manifestUsed>>, NEW at \in CommitSteps, Goes(at), commit.at # "idle"
      PROVE  CommitNumbered'
  <2>1. commit' \in CommitTypes /\ commit'.gen = commit.gen
    BY <1>0, <1>1 DEF Goes, CommitNumbered, CommitTypes
  <2> QED
    BY <1>0, <1>1, <2>1 DEF CommitNumbered, Attempt
<1>2. CASE RenameManifest
  <2>1. /\ commit.at = "rename" /\ Goes("sync") /\ "sync" \in CommitSteps
        /\ file' = [file EXCEPT ![commit.gen] = Attempt]
        /\ UNCHANGED <<current, manifestSure, proxima, prune, manifestAnswered, tried, manifestUsed>>
    BY <1>2 DEF RenameManifest, CommitSteps
  <2>2. commit.gen \in Gens /\ commit.gen <= Attempt
    BY <1>0, <2>1 DEF CommitNumbered, Gens, Numbers
  <2>3. FilesNumbered'
    BY <1>0, <2>1, <2>2 DEF FilesNumbered, Attempt
  <2> QED
    BY <1>1, <2>1, <2>3 DEF StoreTypes
<1>3. CASE SyncManifest
  <2>1. /\ commit.at = "sync" /\ Goes("current") /\ "current" \in CommitSteps
        /\ manifestSure' = [file |-> file, current |-> current]
        /\ UNCHANGED <<file, current, proxima, prune, manifestAnswered, tried, manifestUsed>>
    BY <1>3 DEF SyncManifest, CommitSteps
  <2>2. FilesNumbered'
    BY <1>0, <2>1 DEF FilesNumbered, Attempt
  <2> QED
    BY <1>1, <2>1, <2>2 DEF StoreTypes
<1>4. CASE RenameCurrent
  <2>1. /\ commit.at = "current" /\ Goes("answer") /\ "answer" \in CommitSteps
        /\ current' = [gen |-> commit.gen, digest |-> Attempt]
        /\ UNCHANGED <<file, manifestSure, proxima, prune, manifestAnswered, tried, manifestUsed>>
    BY <1>4 DEF RenameCurrent, CommitSteps
  <2>2. FilesNumbered'
    BY <1>0, <2>1 DEF FilesNumbered, CommitNumbered, CommitTypes, Currents, Attempt
  <2> QED
    BY <1>1, <2>1, <2>2 DEF StoreTypes
<1>5. CASE SyncCurrent
  <2>1. /\ commit.at = "answer" /\ commit' = NoCommit /\ proxima' = commit.gen + 1
        /\ manifestSure' = [file |-> file, current |-> current]
        /\ manifestAnswered' = Attempt /\ tried' = {} /\ UNCHANGED <<file, current>>
        /\ \/ UNCHANGED <<prune, manifestUsed>>
           \/ prune' = [prune EXCEPT !.at = "due"] /\ ManifestSpends("prunes", MaxPrunes)
    BY <1>5 DEF SyncCurrent
  <2>2. manifestUsed' \in ManifestUses /\ Attempt' = Attempt
    BY <1>0, <2>1, UsesCounted DEF Attempt
  <2>3. prune' \in [at : PruneSteps, kept : SUBSET Gens, doomed : SUBSET Gens]
    BY <1>0, <2>1 DEF PruneSteps
  <2>4. FilesNumbered'
    BY <1>0, <2>1, <2>2 DEF FilesNumbered
  <2>5. CommitNumbered'
    <3>1. commit.gen + 1 \in 0 .. MaxAttempts + 1 /\ commit.gen + 1 <= Attempt + 1
      BY <1>0, <2>1 DEF CommitNumbered, Numbers
    <3>2. NoCommit \in CommitTypes /\ NoCommit.at = "idle"
      BY <1>0 DEF NoCommit, CommitTypes, CommitSteps, Numbers
    <3> QED
      BY <2>1, <2>2, <3>1, <3>2 DEF CommitNumbered
  <2> QED
    BY <1>0, <2>1, <2>2, <2>3, <2>4, <2>5 DEF StoreTypes
<1>6. CASE CommitFails
  <2>1. /\ ManifestSpends("faults", MaxManifestFaults) /\ commit' = NoCommit /\ proxima' = 0
        /\ UNCHANGED <<file, current, manifestSure, prune, manifestAnswered, tried>>
    BY <1>6 DEF CommitFails
  <2>2. manifestUsed' \in ManifestUses /\ Attempt' = Attempt
    BY <1>0, <2>1, UsesCounted
  <2>3. CommitNumbered'
    BY <1>0, <2>1, <2>2, RestartNumbered
  <2>4. FilesNumbered'
    BY <1>0, <2>1, <2>2 DEF FilesNumbered
  <2> QED
    BY <2>1, <2>2, <2>3, <2>4 DEF StoreTypes
<1> QED
  BY <1>2, <1>3, <1>4, <1>5, <1>6 DEF CommitStep

LEMMA PruneTypes ==
    ASSUME StoreTypes, PruneReads \/ PruneLists \/ PruneUnlinks PROVE StoreTypes'
<1>0. /\ FilesNumbered /\ CommitNumbered /\ manifestUsed \in ManifestUses
      /\ prune \in [at : PruneSteps, kept : SUBSET Gens, doomed : SUBSET Gens]
      /\ UNCHANGED <<current, manifestSure, proxima, commit, manifestAnswered, tried>>
  BY DEF StoreTypes, PruneReads, PruneLists, PruneUnlinks
<1>1. CASE PruneReads
  <2>1. /\ UNCHANGED <<file, manifestUsed>>
        /\ prune' = [prune EXCEPT !.at = "list", !.kept = IF Resolves THEN {current.gen} ELSE {}]
    BY <1>1 DEF PruneReads
  <2>2. (IF Resolves THEN {current.gen} ELSE {}) \in SUBSET Gens
    BY <1>0 DEF Resolves, FilesNumbered, Currents, Numbers, Gens
  <2>3. prune' \in [at : PruneSteps, kept : SUBSET Gens, doomed : SUBSET Gens]
    BY <1>0, <2>1, <2>2 DEF PruneSteps
  <2> QED
    BY <1>0, <2>1, <2>3 DEF StoreTypes, FilesNumbered, CommitNumbered, Attempt
<1>2. CASE PruneLists
  <2>1. PICK doomed \in SUBSET Gens : prune' = [prune EXCEPT !.at = "unlink", !.doomed = doomed]
    BY <1>2 DEF PruneLists, Listed
  <2>2. prune' \in [at : PruneSteps, kept : SUBSET Gens, doomed : SUBSET Gens]
    BY <1>0, <2>1 DEF PruneSteps
  <2>3. UNCHANGED <<file, manifestUsed>>
    BY <1>2 DEF PruneLists
  <2> QED
    BY <1>0, <2>2, <2>3 DEF StoreTypes, FilesNumbered, CommitNumbered, Attempt
<1>3. CASE PruneUnlinks
  <2>1. \/ /\ file' = [file EXCEPT ![Min(prune.doomed)] = 0] /\ UNCHANGED manifestUsed
           /\ prune' = [prune EXCEPT !.doomed = prune.doomed \ {Min(prune.doomed)}]
        \/ prune' = NoPrune /\ UNCHANGED <<file, manifestUsed>>
        \/ ManifestSpends("faults", MaxManifestFaults) /\ prune' = NoPrune /\ UNCHANGED file
    BY <1>3 DEF PruneUnlinks
  <2>2. manifestUsed' \in ManifestUses /\ Attempt' = Attempt
    BY <1>0, <2>1, UsesCounted DEF Attempt
  <2>3. prune' \in [at : PruneSteps, kept : SUBSET Gens, doomed : SUBSET Gens]
    BY <1>0, <2>1, NoPruneTyped
  <2>4. file' \in [Gens -> Numbers] /\ \A g \in Gens : file'[g] # 0 => file[g] # 0
    <3>1. 0 \in Numbers
      BY ManifestStoreAssumption DEF Numbers
    <3> QED
      BY <1>0, <2>1, <3>1 DEF FilesNumbered
  <2>5. FilesNumbered'
    BY <1>0, <2>2, <2>4 DEF FilesNumbered
  <2> QED
    BY <1>0, <2>2, <2>3, <2>5 DEF StoreTypes, CommitNumbered
<1> QED
  BY <1>1, <1>2, <1>3

LEMMA RestartTypes ==
    ASSUME StoreTypes, ManifestKill \/ ManifestPowerLoss PROVE StoreTypes'
<1>0. /\ FilesNumbered /\ manifestUsed \in ManifestUses /\ UNCHANGED <<manifestAnswered, tried>>
      /\ commit' = NoCommit /\ proxima' = 0 /\ prune' = NoPrune
  BY DEF StoreTypes, ManifestKill, ManifestPowerLoss, Restarts
<1>1. manifestUsed' \in ManifestUses /\ Attempt' = Attempt
  BY <1>0, UsesCounted DEF ManifestKill, ManifestPowerLoss
<1>2. CommitNumbered'
  BY <1>0, <1>1, RestartNumbered
<1>3. FilesNumbered'
  <2>1. CASE ManifestKill
    BY <1>0, <1>1, <2>1 DEF ManifestKill, FilesNumbered
  <2>2. CASE ManifestPowerLoss
    <3>1. PICK back \in SUBSET Gens :
             file' = [g \in Gens |-> IF g \in back THEN manifestSure.file[g] ELSE file[g]]
      BY <2>2 DEF ManifestPowerLoss
    <3>2. /\ current' \in {current, manifestSure.current}
          /\ manifestSure' = [file |-> file', current |-> current']
      BY <2>2 DEF ManifestPowerLoss
    <3>3. /\ file' \in [Gens -> Numbers] /\ current' \in Currents
          /\ \A g \in Gens : file'[g] # 0 => file[g] # 0 \/ manifestSure.file[g] # 0
      BY <1>0, <3>1, <3>2 DEF FilesNumbered
    <3>4. manifestSure'.file = file' /\ manifestSure'.current = current'
      BY <3>2
    <3> QED
      BY <1>0, <1>1, <3>2, <3>3, <3>4 DEF FilesNumbered
  <2> QED
    BY <2>1, <2>2
<1> QED
  BY <1>0, <1>1, <1>2, <1>3, NoPruneTyped DEF StoreTypes

LEMMA StoreStepTypes == ASSUME StoreTypes, [ManifestNext]_manifestVars PROVE StoreTypes'
<1>1. CASE UNCHANGED manifestVars
  BY <1>1 DEF manifestVars, StoreTypes, FilesNumbered, CommitNumbered, Attempt
<1> QED
  BY <1>1, BeginCommitTypes, CommitStepTypes, PruneTypes, RestartTypes DEF ManifestNext

LEMMA StoreInitTypes == ASSUME ManifestInit PROVE StoreTypes
<1>1. /\ MaxAttempts \in Nat /\ MaxManifestFaults \in Nat /\ MaxPrunes \in Nat
      /\ MaxManifestKills \in Nat /\ MaxPowerLosses \in Nat
  BY ManifestStoreAssumption
<1>2. 0 \in Numbers /\ 0 \in 0 .. MaxAttempts + 1
  BY <1>1 DEF Numbers
<1>3. manifestUsed \in ManifestUses /\ Attempt = 0
  BY <1>1, <1>2 DEF ManifestInit, ManifestUses, Attempt
<1>4. FilesNumbered
  BY <1>2 DEF ManifestInit, FilesNumbered, Currents, NoCurrent
<1>5. CommitNumbered
  BY <1>2, <1>3 DEF ManifestInit, CommitNumbered, NoCommit, CommitTypes, CommitSteps
<1> QED
  BY <1>2, <1>3, <1>4, <1>5, NoPruneTyped DEF ManifestInit, StoreTypes

LEMMA StoreTyped == ASSUME StoreTypes PROVE ManifestTypeOK
<1>1. manifestSure \in [file : [Gens -> Numbers], current : Currents]
  BY DEF StoreTypes, FilesNumbered
<1> QED
  BY <1>1 DEF StoreTypes, FilesNumbered, CommitNumbered, CommitTypes, ManifestTypeOK, Numbers, Currents,
              CommitSteps, PruneSteps, ManifestUses, Manifests

\* Whatever fails, is killed or is collected, no generation is numbered beyond
\* the attempts there were.
THEOREM ManifestTyped == ManifestSpec => []ManifestTypeOK
<1>1. ManifestInit => StoreTypes
  BY StoreInitTypes
<1>2. StoreTypes /\ [ManifestNext]_manifestVars => StoreTypes'
  BY StoreStepTypes
<1>3. StoreTypes => ManifestTypeOK
  BY StoreTyped
<1> QED
  BY <1>1, <1>2, <1>3, PTL DEF ManifestSpec

-----------------------------------------------------------------------------
(* What is derived from the log *)

AppendSteps == {"idle", "views", "attr"}
ShredSteps == {"idle", "check", "flag", "destroy", "views", "snapshots", "save", "install",
               "receipt", "unflag"}
EpisodeTypes == [kind : {"subject", "hold", "other"}, key : Nat]
ViewTypes == [has : Content, wm : Nat, clean : BOOLEAN]
IndexTypes == [has : Content, wm : Int, dirty : BOOLEAN]
FileTypes == [has : Content, wm : Int]
ShredTypes == [at : ShredSteps, newMark : BOOLEAN, erased : BOOLEAN, pending : BOOLEAN,
               left : SUBSET Views]

DerivedTypes ==
    /\ episodes \in Seq(EpisodeTypes) /\ LogHead <= MaxEpisodes
    /\ key \in [alive : BOOLEAN, gen : Nat]
    /\ shredded \in BOOLEAN /\ marker \in BOOLEAN
    /\ unmaterialized \in BOOLEAN /\ attrIncomplete \in BOOLEAN
    /\ views \in [Views -> ViewTypes] /\ snapshots \in [Views -> FileTypes]
    /\ attr \in IndexTypes /\ attrFile \in FileTypes /\ saving \in FileTypes
    /\ appender \in [Appenders -> [at : AppendSteps, lsn : Nat]]
    /\ shred \in ShredTypes
    /\ process \in {"down", "attr", "unflag", "up"} /\ mode \in Modes

AtRest(a) == appender[a].at = "idle"
AllAtRest == \A a \in Appenders : AtRest(a)

\* Who holds the gate exclusively is alone with the derived state; an LSN
\* belongs to one appender.
HeldInv ==
    /\ process # "up" => AllAtRest /\ shred = NoShred /\ saving = NoFile
    /\ mode = "log_only" \/ Exclusive => AllAtRest
    /\ \A a \in Appenders : ~AtRest(a) => appender[a].lsn \in Logged
    /\ \A a, b \in Appenders :
          ~AtRest(a) /\ ~AtRest(b) /\ appender[a].lsn = appender[b].lsn => a = b

\* The subject has no mark, or has it only since this shred began.
Unmarked == ~shredded \/ (shred.newMark /\ shred.at \in {"check", "flag", "destroy"})

\* Without a mark every record of the subject opens; one being applied opens.
SealInv ==
    /\ \A l \in Logged : Episode(l).key <= key.gen
    /\ shred.at \in {"check", "flag", "destroy"} => shredded
    /\ Unmarked => \A l \in Logged : Sealed(l) => Opens(l)
    /\ \A a \in Appenders : ~AtRest(a) /\ Sealed(appender[a].lsn) => Opens(appender[a].lsn)

\* Nothing is logged between the check of the holds and the end of the key.
VetoInv == shred.at \in {"flag", "destroy"} /\ mode # "log_only" => ~Vetoed

\* What the views have got, and the index: all of the log but what is in flight.
InFlight(steps) == {appender[a].lsn : a \in {b \in Appenders : appender[b].at \in steps}}
SeenByViews == Logged \ InFlight({"views"})
SeenByIndex == Logged \ InFlight({"views", "attr"})

\* Those episodes, once, and none above the watermark.
Whole(x, seen) ==
    \A l \in Lsns : IF l \in seen THEN x.has[l] \in {"clear", "blank"} /\ l <= x.wm
                                  ELSE x.has[l] = "none"

ViewsInv ==
    process # "down" /\ ~unmaterialized =>
        \A v \in Views :
            /\ views[v].wm <= LastLsn
            /\ IF mode = "log_only" THEN views[v].wm > 0 => Faithful(views[v])
                                    ELSE Whole(views[v], SeenByViews)
IndexInv ==
    process # "down" /\ ~attrIncomplete =>
        /\ attr.wm < LogHead
        /\ IF mode = "log_only" THEN Faithful(attr) ELSE Whole(attr, SeenByIndex)

Saved(f) == Faithful(f) /\ f.wm < LogHead
FilesInv ==
    /\ Saved(attrFile) /\ Saved(saving)
    /\ process = "attr" => Saved(attr)
    /\ \A v \in Views : snapshots[v].wm > 0 => Saved(snapshots[v])
    /\ shred.at = "snapshots" => ~unmaterialized

\* Nothing derived is ahead of the log.
NoneFrom(has, n) == \A l \in Lsns : l >= n => has[l] = "none"
AheadInv ==
    /\ \A v \in Views : NoneFrom(views[v].has, LogHead) /\ NoneFrom(snapshots[v].has, LogHead)
    /\ NoneFrom(attr.has, LogHead) /\ NoneFrom(attrFile.has, LogHead) /\ NoneFrom(saving.has, LogHead)

\* The records that no key opens any more must be nowhere in clear.
Lost == {l \in Logged : Sealed(l) /\ ~Opens(l)}
NoneClear(has, ls) == \A l \in ls : has[l] # "clear"
ViewsClean == \A v \in Views : NoneClear(views[v].has, Lost)
SnapshotsClean == \A v \in Views : NoneClear(snapshots[v].has, Lost)
IndexClean ==
    NoneClear(attr.has, Lost) /\ NoneClear(attrFile.has, Lost) /\ NoneClear(saving.has, Lost)

\* The marker is there from the end of the key to the end of the shred, and
\* until the boot that takes its place is over.
Erasing == shred.at \in {"destroy", "views", "snapshots", "save", "install", "receipt", "unflag"}
MarkerInv ==
    /\ process = "up" => (marker <=> Erasing)
    /\ process = "unflag" => marker

\* Without it the views and their snapshots have nothing lost in clear; with
\* it, what was made anew since is clean.
ViewsErased ==
    /\ ~marker \/ shred.at \in {"destroy", "receipt", "unflag"} => ViewsClean /\ SnapshotsClean
    /\ shred.at \in {"snapshots", "save", "install"} => ViewsClean
    /\ shred.at = "snapshots" => \A v \in Views \ shred.left : NoneClear(snapshots[v].has, Lost)
    /\ shred.at \in {"save", "install"} => SnapshotsClean
    /\ process \in {"attr", "unflag"} => ViewsClean /\ SnapshotsClean

\* So the index, but for what a checkpoint captured before the shred brings back.
\* A checkpoint in hand when the shred writes its own is written before the
\* shred goes on, or is none.
IndexErased ==
    /\ overtaken \in BOOLEAN
    /\ ~marker \/ shred.at \in {"destroy", "receipt", "unflag"} => overtaken \/ IndexClean
    /\ shred.at = "install" => overtaken \/ NoneClear(attrFile.has, Lost)
    /\ process \in {"attr", "unflag"} /\ marker => NoneClear(attr.has, Lost)
    /\ process = "unflag" => NoneClear(attrFile.has, Lost)

CleanInv == MarkerInv /\ ViewsErased /\ IndexErased

-----------------------------------------------------------------------------
(* The log as it grows, and what a scan makes of it *)

LEMMA LogIs ==
    ASSUME DerivedTypes
    PROVE  /\ LogHead \in Nat /\ MaxEpisodes \in Nat /\ LogHead <= MaxEpisodes
           /\ Logged \subseteq Lsns /\ Lsns \subseteq Nat
           /\ \A l \in Lsns : l \in Logged <=> l < LogHead
           /\ \A l \in Logged : Episode(l) \in EpisodeTypes
           /\ LastLsn \in Nat /\ LastLsn = IF LogHead = 0 THEN 0 ELSE LogHead - 1
           /\ key.gen \in Nat /\ key.alive \in BOOLEAN
<1>1. LogHead \in Nat /\ MaxEpisodes \in Nat /\ LogHead <= MaxEpisodes
  BY DerivedAssumption DEF DerivedTypes, LogHead
<1>2. \A l \in Logged : Episode(l) \in EpisodeTypes
  <2> SUFFICES ASSUME NEW l \in Logged PROVE Episode(l) \in EpisodeTypes
    OBVIOUS
  <2>1. l + 1 \in 1 .. Len(episodes)
    BY <1>1 DEF Logged, LogHead
  <2> QED
    BY <2>1 DEF Episode, DerivedTypes
<1> QED
  BY <1>1, <1>2 DEF Logged, Lsns, LastLsn, DerivedTypes

LEMMA SameLog ==
    ASSUME UNCHANGED episodes
    PROVE  /\ LogHead' = LogHead /\ Logged' = Logged /\ LastLsn' = LastLsn
           /\ \A l : Sealed(l)' <=> Sealed(l)
           /\ key' = key => (Lost' = Lost /\ \A l : Opens(l)' <=> Opens(l))
  BY DEF LogHead, Logged, LastLsn, Sealed, Episode, Lost, Opens

\* A record is sealed with a key that opens it; no earlier one is lost.
LEMMA LogGrows ==
    ASSUME DerivedTypes, SealInv, NEW kind \in {"subject", "hold", "other"}, Logs(kind)
    PROVE  /\ LogHead' = LogHead + 1 /\ LogHead' <= MaxEpisodes /\ LogHead \in Lsns
           /\ Logged' = Logged \cup {LogHead} /\ LogHead \notin Logged
           /\ episodes' \in Seq(EpisodeTypes) /\ key' \in [alive : BOOLEAN, gen : Nat]
           /\ \A l \in Logged : /\ Sealed(l)' <=> Sealed(l)
                                /\ Opens(l)' <=> Opens(l)
           /\ \A l : l = LogHead => /\ Sealed(l)' <=> kind = "subject"
                                    /\ Sealed(l)' => Opens(l)'
           /\ \A l \in Logged' : Episode(l)'.key <= key'.gen
           /\ Lost' = Lost
<1>1. /\ LogHead < MaxEpisodes
      /\ key' = IF kind = "subject" /\ ~key.alive THEN [alive |-> TRUE, gen |-> key.gen + 1] ELSE key
      /\ episodes' = Append(episodes, [kind |-> kind, key |-> key'.gen])
  BY DEF Logs
<1>2. /\ key' \in [alive : BOOLEAN, gen : Nat] /\ key.gen <= key'.gen
      /\ key.alive => key' = key
      /\ ~key.alive => key' = key \/ key'.gen = key.gen + 1
      /\ kind = "subject" => key'.alive
  BY <1>1 DEF DerivedTypes
<1>3. episodes' \in Seq(EpisodeTypes) /\ LogHead' = LogHead + 1
  BY <1>1, <1>2 DEF DerivedTypes, EpisodeTypes, LogHead
<1>4. Logged' = Logged \cup {LogHead} /\ LogHead \notin Logged /\ LogHead \in Lsns /\ LogHead' <= MaxEpisodes
  BY <1>1, <1>3, LogIs DEF Logged, Lsns
<1>5. \A l \in Logged : Episode(l)' = Episode(l)
  <2> SUFFICES ASSUME NEW l \in Logged PROVE Episode(l)' = Episode(l)
    OBVIOUS
  <2>1. l + 1 \in 1 .. Len(episodes)
    BY LogIs DEF Logged, LogHead
  <2> QED
    BY <1>1, <2>1 DEF Episode, DerivedTypes
<1>6. \A l : l = LogHead => Episode(l)' = [kind |-> kind, key |-> key'.gen]
  BY <1>1 DEF Episode, LogHead, DerivedTypes
<1>7. \A l \in Logged : (Sealed(l)' <=> Sealed(l)) /\ (Opens(l)' <=> Opens(l))
  <2> SUFFICES ASSUME NEW l \in Logged PROVE (Sealed(l)' <=> Sealed(l)) /\ (Opens(l)' <=> Opens(l))
    OBVIOUS
  <2>1. Episode(l)' = Episode(l) /\ Episode(l).key <= key.gen /\ Episode(l).key \in Nat /\ key.gen \in Nat
    BY <1>5, LogIs DEF SealInv, EpisodeTypes
  <2> QED
    BY <1>2, <2>1 DEF Sealed, Opens
<1>8. \A l : l = LogHead => /\ Sealed(l)' <=> kind = "subject"
                            /\ Sealed(l)' => Opens(l)'
  BY <1>2, <1>6 DEF Sealed, Opens
<1>9. \A l \in Logged' : Episode(l)'.key <= key'.gen
  <2>1. \A l \in Logged : Episode(l)'.key <= key'.gen
    <3>1. \A l \in Logged : Episode(l).key <= key.gen /\ Episode(l).key \in Nat
      BY LogIs DEF SealInv, EpisodeTypes
    <3> QED
      BY <1>2, <1>5, <3>1, LogIs
  <2>2. \A l : l = LogHead => Episode(l)'.key <= key'.gen
    BY <1>2, <1>6
  <2> QED
    BY <1>4, <2>1, <2>2
<1>10. Lost' = Lost
  BY <1>4, <1>7, <1>8 DEF Lost
<1> QED
  BY <1>2, <1>3, <1>4, <1>7, <1>8, <1>9, <1>10

LEMMA ReadIs ==
    ASSUME DerivedTypes
    PROVE  \A l : Read(l) \in {"clear", "blank"} /\ (l \in Lost => Read(l) = "blank")
  BY DEF Read, Lost

\* All of the log and nothing more is faithful to the last LSN.
LEMMA WholeIsFaithful ==
    ASSUME DerivedTypes, NEW x, x.wm \in Int, x.wm < LogHead, Whole(x, Logged)
    PROVE  Faithful(x) /\ Saved(x)
<1>1. \A l \in Lsns : l <= x.wm <=> l \in Logged
  BY LogIs DEF Whole
<1> QED
  BY <1>1 DEF Faithful, Whole, Saved

LEMMA ScannedIs ==
    ASSUME DerivedTypes, NEW has \in Content, NEW from \in Int, NoneFrom(has, LogHead)
    PROVE  /\ Scanned(has, from) \in Content /\ NoneFrom(Scanned(has, from), LogHead)
           /\ \A l \in Logged : l >= from => Scanned(has, from)[l] \in {"clear", "blank"}
           /\ \A l \in Logged : l < from => Scanned(has, from)[l] = has[l]
           /\ NoneClear(has, Lost) => NoneClear(Scanned(has, from), Lost)
<1>1. \A l \in Lsns : Scanned(has, from)[l] = IF l >= from /\ l < LogHead THEN Read(l) ELSE has[l]
  BY DEF Scanned
<1>2. Scanned(has, from) \in Content
  BY ReadIs DEF Scanned, Content, Values
<1>3. NoneFrom(Scanned(has, from), LogHead)
  BY <1>1, LogIs DEF NoneFrom
<1>4. NoneClear(has, Lost) => NoneClear(Scanned(has, from), Lost)
  BY <1>1, ReadIs, LogIs DEF NoneClear, Lost
<1>5. /\ \A l \in Logged : l >= from => Scanned(has, from)[l] \in {"clear", "blank"}
      /\ \A l \in Logged : l < from => Scanned(has, from)[l] = has[l]
  BY <1>1, ReadIs, LogIs
<1> QED
  BY <1>2, <1>3, <1>4, <1>5

LEMMA NothingSeenIs ==
    /\ NothingSeen \in Content
    /\ \A n : NoneFrom(NothingSeen, n)
    /\ \A ls : NoneClear(NothingSeen, ls \cap Lsns)
    /\ NoFile \in FileTypes /\ Faithful(NoFile) /\ NoFile.has = NothingSeen /\ NoFile.wm = -1
    /\ EmptyView \in ViewTypes /\ EmptyAttr \in IndexTypes
<1>1. NothingSeen \in Content /\ \A l \in Lsns : NothingSeen[l] = "none"
  BY DEF NothingSeen, Content, Values
<1>2. Lsns \subseteq Nat
  BY DerivedAssumption DEF Lsns
<1>3. Faithful(NoFile)
  BY <1>1, <1>2 DEF NoFile, Faithful
<1> QED
  BY <1>1, <1>3 DEF NoneFrom, NoneClear, NoFile, EmptyView, EmptyAttr, FileTypes, ViewTypes, IndexTypes

LEMMA RebuiltIs ==
    ASSUME DerivedTypes
    PROVE  /\ Rebuilt \in ViewTypes /\ Rebuilt.wm = LastLsn /\ Whole(Rebuilt, Logged)
           /\ NoneFrom(Rebuilt.has, LogHead) /\ NoneClear(Rebuilt.has, Lost)
           /\ RebuiltAttr \in IndexTypes /\ RebuiltAttr.has = Rebuilt.has /\ RebuiltAttr.wm = LogHead - 1
           /\ Whole(RebuiltAttr, Logged) /\ Saved(RebuiltAttr)
<1> DEFINE s == Scanned(NothingSeen, 0)
<1>1. /\ s \in Content /\ NoneFrom(s, LogHead) /\ NoneClear(s, Lost)
      /\ \A l \in Logged : s[l] \in {"clear", "blank"}
  <2>1. NoneClear(NothingSeen, Lost)
    <3>1. Lost = Lost \cap Lsns
      BY LogIs DEF Lost
    <3> QED
      BY <3>1, NothingSeenIs
  <2>2. \A l \in Logged : l >= 0
    BY LogIs
  <2> QED
    BY <2>1, <2>2, NothingSeenIs, ScannedIs
<1>2. /\ Rebuilt.has = s /\ Rebuilt.wm = LastLsn /\ Rebuilt.clean = FALSE
      /\ RebuiltAttr.has = s /\ RebuiltAttr.wm = LogHead - 1
  BY DEF Rebuilt, RebuiltAttr
<1> HIDE DEF s
<1>3. Rebuilt \in ViewTypes /\ RebuiltAttr \in IndexTypes
  <2>1. Rebuilt = [has |-> s, wm |-> LastLsn, clean |-> FALSE]
        /\ RebuiltAttr = [has |-> s, wm |-> LogHead - 1, dirty |-> LogHead > 0]
    BY DEF Rebuilt, RebuiltAttr, s
  <2> QED
    BY <1>1, <2>1, LogIs DEF ViewTypes, IndexTypes
<1>4. Whole(Rebuilt, Logged) /\ Whole(RebuiltAttr, Logged)
  <2>1. \A l \in Lsns : IF l \in Logged THEN s[l] \in {"clear", "blank"} /\ l <= LastLsn /\ l <= LogHead - 1
                                       ELSE s[l] = "none"
    BY <1>1, LogIs DEF NoneFrom
  <2> QED
    BY <1>2, <2>1 DEF Whole
<1>5. Saved(RebuiltAttr)
  BY <1>2, <1>4, LogIs, WholeIsFaithful
<1> QED
  BY <1>1, <1>2, <1>3, <1>4, <1>5

\* A replay from a faithful snapshot leaves the whole log.
LEMMA CaughtUpIs ==
    ASSUME DerivedTypes, NEW f \in FileTypes, f.wm > 0 => Saved(f), NoneFrom(f.has, LogHead)
    PROVE  /\ CaughtUp(f) \in ViewTypes /\ CaughtUp(f).wm = LastLsn /\ Whole(CaughtUp(f), Logged)
           /\ NoneFrom(CaughtUp(f).has, LogHead)
           /\ NoneClear(f.has, Lost) => NoneClear(CaughtUp(f).has, Lost)
<1> DEFINE from == IF f.wm > 0 THEN f.wm + 1 ELSE 0
           base == IF f.wm > 0 THEN f.has ELSE NothingSeen
           s == Scanned(base, from)
<1>1. f.wm \in Int /\ f.has \in Content
  BY DEF FileTypes
<1>2. base \in Content /\ from \in Int /\ NoneFrom(base, LogHead)
  BY <1>1, NothingSeenIs
<1>3. NoneClear(f.has, Lost) => NoneClear(base, Lost)
  <2>1. Lost = Lost \cap Lsns
    BY LogIs DEF Lost
  <2> QED
    BY <2>1, NothingSeenIs
<1>4. \A l \in Logged : l < from => base[l] \in {"clear", "blank"}
  <2>1. CASE f.wm > 0
    <3>1. \A l \in Lsns : l <= f.wm => f.has[l] \in {"clear", "blank"}
      BY <2>1 DEF Saved, Faithful
    <3> QED
      BY <1>1, <2>1, <3>1, LogIs
  <2>2. CASE ~(f.wm > 0)
    BY <2>2, LogIs
  <2> QED
    BY <2>1, <2>2
<1> HIDE DEF base, from
<1>5. /\ s \in Content /\ NoneFrom(s, LogHead) /\ \A l \in Logged : s[l] \in {"clear", "blank"}
      /\ NoneClear(f.has, Lost) => NoneClear(s, Lost)
  <2>1. /\ s \in Content /\ NoneFrom(s, LogHead)
        /\ \A l \in Logged : l >= from => s[l] \in {"clear", "blank"}
        /\ \A l \in Logged : l < from => s[l] = base[l]
        /\ NoneClear(base, Lost) => NoneClear(s, Lost)
    BY <1>2, ScannedIs
  <2>2. \A l \in Logged : l >= from \/ l < from
    BY <1>2, LogIs
  <2> QED
    BY <1>3, <1>4, <2>1, <2>2
<1> HIDE DEF s
<1>6. (IF f.wm > LastLsn THEN f.wm ELSE LastLsn) = LastLsn
  BY <1>1, LogIs DEF Saved
<1>7. CaughtUp(f) = [has |-> s, wm |-> LastLsn, clean |-> TRUE]
  BY <1>6 DEF CaughtUp, s, base, from
<1>8. \A l \in Lsns : IF l \in Logged THEN s[l] \in {"clear", "blank"} /\ l <= LastLsn ELSE s[l] = "none"
  BY <1>5, LogIs DEF NoneFrom
<1>9. Whole(CaughtUp(f), Logged)
  BY <1>7, <1>8 DEF Whole
<1> QED
  BY <1>5, <1>7, <1>9, LogIs DEF ViewTypes

LEMMA AttrCaughtUpIs ==
    ASSUME DerivedTypes, Saved(attrFile), NoneFrom(attrFile.has, LogHead)
    PROVE  /\ AttrCaughtUp \in IndexTypes /\ AttrCaughtUp.wm = LogHead - 1
           /\ Whole(AttrCaughtUp, Logged) /\ Saved(AttrCaughtUp)
           /\ NoneFrom(AttrCaughtUp.has, LogHead)
           /\ NoneClear(attrFile.has, Lost) => NoneClear(AttrCaughtUp.has, Lost)
<1> DEFINE from == attrFile.wm + 1
           s == Scanned(attrFile.has, from)
<1>1. attrFile.wm \in Int /\ attrFile.has \in Content /\ from \in Int
  BY DEF DerivedTypes, FileTypes
<1>2. \A l \in Logged : l < from => attrFile.has[l] \in {"clear", "blank"}
  BY <1>1, LogIs DEF Saved, Faithful
<1> HIDE DEF from
<1>3. /\ s \in Content /\ NoneFrom(s, LogHead) /\ \A l \in Logged : s[l] \in {"clear", "blank"}
      /\ NoneClear(attrFile.has, Lost) => NoneClear(s, Lost)
  <2>1. /\ s \in Content /\ NoneFrom(s, LogHead)
        /\ \A l \in Logged : l >= from => s[l] \in {"clear", "blank"}
        /\ \A l \in Logged : l < from => s[l] = attrFile.has[l]
        /\ NoneClear(attrFile.has, Lost) => NoneClear(s, Lost)
    BY <1>1, ScannedIs
  <2>2. \A l \in Logged : l >= from \/ l < from
    BY <1>1, LogIs
  <2> QED
    BY <1>2, <2>1, <2>2
<1> HIDE DEF s
<1>4. AttrCaughtUp = [has |-> s, wm |-> LogHead - 1, dirty |-> attrFile.wm < LogHead - 1]
  <2>1. (IF attrFile.wm > LogHead - 1 THEN attrFile.wm ELSE LogHead - 1) = LogHead - 1
    BY <1>1, LogIs DEF Saved
  <2> QED
    BY <2>1 DEF AttrCaughtUp, s, from
<1>5. \A l \in Lsns : IF l \in Logged THEN s[l] \in {"clear", "blank"} /\ l <= LogHead - 1 ELSE s[l] = "none"
  BY <1>3, LogIs DEF NoneFrom
<1>6. Whole(AttrCaughtUp, Logged) /\ AttrCaughtUp.wm = LogHead - 1 /\ AttrCaughtUp \in IndexTypes
  BY <1>3, <1>4, <1>5, LogIs DEF Whole, IndexTypes
<1>7. Saved(AttrCaughtUp)
  BY <1>6, LogIs, WholeIsFaithful
<1> QED
  BY <1>3, <1>4, <1>6, <1>7

\* One more episode applied to a view, and to the index.
LEMMA ViewAppliedIs ==
    ASSUME NEW v \in ViewTypes, NEW lsn \in Nat, NEW seen \in {"clear", "blank"}
    PROVE  /\ ViewApplied(v, lsn, seen) \in ViewTypes
           /\ \A l \in Lsns : ViewApplied(v, lsn, seen).has[l] =
                 IF l = lsn THEN (IF v.has[l] = "none" THEN seen ELSE "twice") ELSE v.has[l]
           /\ ViewApplied(v, lsn, seen).wm = IF lsn > v.wm THEN lsn ELSE v.wm
  BY DEF ViewApplied, ViewTypes, Content, Values

LEMMA IndexedIs ==
    ASSUME NEW x \in IndexTypes, NEW lsn \in Nat, NEW seen \in {"clear", "blank"}
    PROVE  /\ Indexed(x, lsn, seen) \in IndexTypes
           /\ \A l \in Lsns : Indexed(x, lsn, seen).has[l] =
                 IF l = lsn /\ x.has[l] = "none" THEN seen ELSE x.has[l]
           /\ Indexed(x, lsn, seen).wm = IF lsn > x.wm THEN lsn ELSE x.wm
<1> DEFINE has == [x.has EXCEPT ![lsn] = IF @ = "none" THEN seen ELSE @]
           wm == IF lsn > x.wm THEN lsn ELSE x.wm
<1>0. x.has \in Content /\ x.wm \in Int /\ x = [has |-> x.has, wm |-> x.wm, dirty |-> x.dirty]
  BY DEF IndexTypes
<1>1. has \in Content /\ wm \in Int
  <2>1. has \in Content
    BY <1>0 DEF Content, Values
  <2>2. wm \in Int
    BY <1>0
  <2> QED
    BY <2>1, <2>2
<1>2. /\ Indexed(x, lsn, seen).has = has /\ Indexed(x, lsn, seen).wm = wm
      /\ Indexed(x, lsn, seen) = [x EXCEPT !.has = has, !.wm = wm, !.dirty = TRUE]
  BY <1>0 DEF Indexed
<1>3. \A l \in Lsns : has[l] = IF l = lsn /\ x.has[l] = "none" THEN seen ELSE x.has[l]
  BY DEF IndexTypes, Content
<1> HIDE DEF has, wm
<1>4. Indexed(x, lsn, seen) \in IndexTypes
  BY <1>1, <1>2 DEF IndexTypes
<1> QED
  BY <1>2, <1>3, <1>4 DEF wm

\* The watermark goes to the episode applied, unless it is above it.
LEMMA AppliedWatermark ==
    ASSUME NEW lsn \in Nat, NEW seen \in {"clear", "blank"}
    PROVE  /\ \A v \in ViewTypes : /\ ViewApplied(v, lsn, seen).wm = lsn \/ ViewApplied(v, lsn, seen).wm = v.wm
                                   /\ lsn <= ViewApplied(v, lsn, seen).wm
                                   /\ v.wm <= ViewApplied(v, lsn, seen).wm
           /\ \A x \in IndexTypes : /\ Indexed(x, lsn, seen).wm = lsn \/ Indexed(x, lsn, seen).wm = x.wm
                                    /\ lsn <= Indexed(x, lsn, seen).wm
                                    /\ x.wm <= Indexed(x, lsn, seen).wm
<1>1. ASSUME NEW v \in ViewTypes
      PROVE  /\ ViewApplied(v, lsn, seen).wm = lsn \/ ViewApplied(v, lsn, seen).wm = v.wm
             /\ lsn <= ViewApplied(v, lsn, seen).wm /\ v.wm <= ViewApplied(v, lsn, seen).wm
  <2>1. ViewApplied(v, lsn, seen).wm = IF lsn > v.wm THEN lsn ELSE v.wm
    BY ViewAppliedIs
  <2>2. v.wm \in Nat
    BY DEF ViewTypes
  <2> QED
    BY <2>1, <2>2
<1>2. ASSUME NEW x \in IndexTypes
      PROVE  /\ Indexed(x, lsn, seen).wm = lsn \/ Indexed(x, lsn, seen).wm = x.wm
             /\ lsn <= Indexed(x, lsn, seen).wm /\ x.wm <= Indexed(x, lsn, seen).wm
  <2>1. Indexed(x, lsn, seen).wm = IF lsn > x.wm THEN lsn ELSE x.wm
    BY IndexedIs
  <2>2. x.wm \in Int
    BY DEF IndexTypes
  <2> QED
    BY <2>1, <2>2
<1> QED
  BY <1>1, <1>2

LEMMA DerivedInitTypes == ASSUME DerivedInit PROVE DerivedTypes
<1>1. << >> \in Seq(EpisodeTypes) /\ Len(<< >>) = 0 /\ MaxEpisodes \in Nat
  BY DerivedAssumption
<1>2. /\ episodes = << >> /\ key = [alive |-> FALSE, gen |-> 0] /\ shredded = FALSE /\ marker = FALSE
      /\ views = [v \in Views |-> EmptyView] /\ unmaterialized = FALSE
      /\ snapshots = [v \in Views |-> NoFile]
      /\ attr = EmptyAttr /\ attrFile = NoFile /\ attrIncomplete = FALSE /\ saving = NoFile
      /\ appender = [a \in Appenders |-> [at |-> "idle", lsn |-> 0]]
      /\ shred = NoShred /\ process = "up" /\ mode = "normal"
  BY DEF DerivedInit
<1>3. NoShred \in ShredTypes /\ appender \in [Appenders -> [at : AppendSteps, lsn : Nat]] /\ mode \in Modes
  BY <1>2 DEF NoShred, ShredTypes, ShredSteps, AppendSteps, Modes
<1>4. views \in [Views -> ViewTypes] /\ snapshots \in [Views -> FileTypes]
  BY <1>2, NothingSeenIs
<1>5. episodes \in Seq(EpisodeTypes) /\ LogHead <= MaxEpisodes
  BY <1>1, <1>2 DEF LogHead
<1> QED
  BY <1>2, <1>3, <1>4, <1>5, NothingSeenIs DEF DerivedTypes

LEMMA ShredMoves ==
    ASSUME shred \in ShredTypes
    PROVE  /\ \A at \in ShredSteps : Then(at) => shred' \in ShredTypes /\ shred' = [shred EXCEPT !.at = at]
           /\ NoShred \in ShredTypes /\ NoShred.at = "idle"
  BY DEF ShredTypes, ShredSteps, Then, NoShred

LEMMA InHandIs == \A lsn : InHand(lsn) \in {"clear", "blank"} /\ (InHand(lsn) = "clear" => Sealed(lsn))
  BY DEF InHand

\* A snapshot is what its view or the index has.
LEMMA AsFileIs ==
    /\ \A x \in ViewTypes : AsFile(x) \in FileTypes
    /\ \A x \in IndexTypes : AsFile(x) \in FileTypes
    /\ \A x : AsFile(x).has = x.has /\ AsFile(x).wm = x.wm
    /\ \A x : Faithful(x) => Faithful(AsFile(x))
    /\ \A x : Saved(x) => Saved(AsFile(x))
<1>1. \A x : AsFile(x).has = x.has /\ AsFile(x).wm = x.wm
  BY DEF AsFile
<1>2. \A x \in ViewTypes : AsFile(x) \in FileTypes
  BY DEF AsFile, ViewTypes, FileTypes
<1>3. \A x \in IndexTypes : AsFile(x) \in FileTypes
  BY DEF AsFile, IndexTypes, FileTypes
<1>4. \A x : Faithful(x) => Faithful(AsFile(x))
  BY <1>1 DEF Faithful
<1> QED
  BY <1>1, <1>2, <1>3, <1>4 DEF Saved

\* What is appended has a type, and so has what a replay leaves, from any file.
LEMMA LogsTyped ==
    ASSUME DerivedTypes, NEW kind \in {"subject", "hold", "other"}, Logs(kind)
    PROVE  /\ episodes' \in Seq(EpisodeTypes) /\ key' \in [alive : BOOLEAN, gen : Nat]
           /\ LogHead' = LogHead + 1 /\ LogHead' <= MaxEpisodes /\ LogHead \in Nat
<1>1. /\ LogHead < MaxEpisodes /\ LogHead \in Nat /\ MaxEpisodes \in Nat
      /\ key' = IF kind = "subject" /\ ~key.alive THEN [alive |-> TRUE, gen |-> key.gen + 1] ELSE key
      /\ episodes' = Append(episodes, [kind |-> kind, key |-> key'.gen])
  BY LogIs DEF Logs
<1>2. key' \in [alive : BOOLEAN, gen : Nat]
  BY <1>1 DEF DerivedTypes
<1>3. episodes' \in Seq(EpisodeTypes) /\ LogHead' = LogHead + 1
  BY <1>1, <1>2 DEF DerivedTypes, EpisodeTypes, LogHead
<1> QED
  BY <1>1, <1>2, <1>3

LEMMA ReplayTyped ==
    ASSUME DerivedTypes
    PROVE  (\A f \in FileTypes : CaughtUp(f) \in ViewTypes) /\ AttrCaughtUp \in IndexTypes
<1>1. ASSUME NEW has \in Content, NEW from \in Int PROVE Scanned(has, from) \in Content
  BY ReadIs DEF Scanned, Content, Values
<1>2. ASSUME NEW f \in FileTypes PROVE CaughtUp(f) \in ViewTypes
  <2> DEFINE s == Scanned(IF f.wm > 0 THEN f.has ELSE NothingSeen, IF f.wm > 0 THEN f.wm + 1 ELSE 0)
             wm == IF f.wm > LastLsn THEN f.wm ELSE LastLsn
  <2>1. f.wm \in Int /\ f.has \in Content /\ LastLsn \in Nat
    BY LogIs DEF FileTypes
  <2>2. s \in Content
    BY <1>1, <2>1, NothingSeenIs
  <2>3. wm \in Nat
    BY <2>1
  <2>4. CaughtUp(f) = [has |-> s, wm |-> wm, clean |-> TRUE]
    BY DEF CaughtUp
  <2> QED
    BY <2>2, <2>3, <2>4 DEF ViewTypes
<1>3. AttrCaughtUp \in IndexTypes
  <2>1. attrFile.wm \in Int /\ attrFile.has \in Content /\ LogHead \in Nat
    BY LogIs DEF FileTypes, DerivedTypes
  <2>2. Scanned(attrFile.has, attrFile.wm + 1) \in Content
    BY <1>1, <2>1
  <2>3. (IF attrFile.wm > LogHead - 1 THEN attrFile.wm ELSE LogHead - 1) \in Int
    BY <2>1
  <2>4. (attrFile.wm < LogHead - 1) \in BOOLEAN
    BY <2>1
  <2> QED
    BY <2>2, <2>3, <2>4 DEF AttrCaughtUp, IndexTypes
<1> QED
  BY <1>2, <1>3

LEMMA DerivedTypesKeep ==
    ASSUME DerivedTypes, [DerivedNext]_derivedVars PROVE DerivedTypes'
<1>0. MaxEpisodes \in Nat /\ \A kind \in Kinds : kind \in {"subject", "hold", "other"}
  BY DerivedAssumption
<1>1. ASSUME NEW a \in Appenders, NEW kind \in Kinds, AppendLogs(a, kind) PROVE DerivedTypes'
  <2>1. /\ Logs(kind)
        /\ UNCHANGED <<shredded, marker, snapshots, attrFile, ram, saving, shred, process, mode, budget>>
        /\ appender' \in {appender, [appender EXCEPT ![a] = [at |-> "views", lsn |-> LogHead]]}
    BY <1>1 DEF AppendLogs
  <2>2. /\ episodes' \in Seq(EpisodeTypes) /\ key' \in [alive : BOOLEAN, gen : Nat]
        /\ LogHead' <= MaxEpisodes /\ LogHead \in Nat
    BY <1>0, <2>1, LogsTyped
  <2>3. appender' \in [Appenders -> [at : AppendSteps, lsn : Nat]]
    BY <2>1, <2>2 DEF DerivedTypes, AppendSteps
  <2> QED
    BY <2>1, <2>2, <2>3 DEF DerivedTypes, ram
<1>2. ASSUME NEW a \in Appenders, AppendAppliesViews(a) PROVE DerivedTypes'
  <2>1. /\ views' = [v \in Views |-> ViewApplied(views[v], appender[a].lsn, InHand(appender[a].lsn))]
        /\ appender' = [appender EXCEPT ![a].at = "attr"]
        /\ UNCHANGED <<disk, unmaterialized, attr, attrIncomplete, saving, shred, process, mode, budget>>
    BY <1>2 DEF AppendAppliesViews
  <2>2. views' \in [Views -> ViewTypes]
    BY <2>1, InHandIs, ViewAppliedIs DEF DerivedTypes
  <2>3. appender' \in [Appenders -> [at : AppendSteps, lsn : Nat]]
    BY <2>1 DEF DerivedTypes, AppendSteps
  <2> QED
    BY <2>1, <2>2, <2>3 DEF DerivedTypes, disk, LogHead
<1>3. ASSUME NEW a \in Appenders, AppendAppliesAttr(a) PROVE DerivedTypes'
  <2>1. /\ attr' = Indexed(attr, appender[a].lsn, InHand(appender[a].lsn))
        /\ appender' = [appender EXCEPT ![a] = [at |-> "idle", lsn |-> 0]]
        /\ UNCHANGED <<disk, views, unmaterialized, attrIncomplete, saving, shred, process, mode, budget>>
    BY <1>3 DEF AppendAppliesAttr
  <2>2. attr' \in IndexTypes
    BY <2>1, InHandIs, IndexedIs DEF DerivedTypes
  <2>3. appender' \in [Appenders -> [at : AppendSteps, lsn : Nat]]
    BY <2>1 DEF DerivedTypes, AppendSteps
  <2> QED
    BY <2>1, <2>2, <2>3 DEF DerivedTypes, disk, LogHead
<1>4. ASSUME NEW v \in Views, CheckpointView(v) \/ ShredCheckpoints(v) PROVE DerivedTypes'
  <2>1. /\ snapshots' = [snapshots EXCEPT ![v] = AsFile(views[v])]
        /\ views' = [views EXCEPT ![v].clean = TRUE]
        /\ UNCHANGED <<episodes, key, shredded, marker, attrFile, unmaterialized, attr, attrIncomplete,
                       saving, appender, process, mode>>
        /\ \/ shred' = shred
           \/ shred' = [shred EXCEPT !.left = @ \ {v}, !.at = IF shred.left = {v} THEN "save" ELSE @]
    BY <1>4 DEF CheckpointView, ShredCheckpoints
  <2>2. views' \in [Views -> ViewTypes]
    BY <2>1 DEF DerivedTypes, ViewTypes
  <2>3. snapshots' \in [Views -> FileTypes]
    BY <2>1, AsFileIs DEF DerivedTypes
  <2>4. shred' \in ShredTypes
    <3>1. shred \in ShredTypes /\ shred.at \in ShredSteps /\ "save" \in ShredSteps
      BY DEF DerivedTypes, ShredTypes, ShredSteps
    <3>2. \A at \in ShredSteps, left \in SUBSET Views : [shred EXCEPT !.left = left, !.at = at] \in ShredTypes
      BY <3>1 DEF ShredTypes
    <3>3. shred.left \ {v} \in SUBSET Views
      BY <3>1 DEF ShredTypes
    <3> DEFINE at == IF shred.left = {v} THEN "save" ELSE shred.at
    <3>4. at \in ShredSteps /\ (shred' = shred \/ shred' = [shred EXCEPT !.left = shred.left \ {v}, !.at = at])
      BY <2>1, <3>1
    <3> HIDE DEF at
    <3> QED
      BY <3>1, <3>2, <3>3, <3>4
  <2> QED
    BY <2>1, <2>2, <2>3, <2>4 DEF DerivedTypes, LogHead
<1>5. CASE CheckpointAttr \/ AttrSaved
  <2>1. AsFile(attr) \in FileTypes /\ NoFile \in FileTypes /\ [attr EXCEPT !.dirty = FALSE] \in IndexTypes
    BY AsFileIs, NothingSeenIs DEF DerivedTypes, IndexTypes
  <2> QED
    BY <1>5, <2>1 DEF CheckpointAttr, AttrSaved, DerivedTypes, disk, ram, LogHead
<1>6. ASSUME NEW which \in SUBSET Views, Rebuild(which) PROVE DerivedTypes'
  <2>1. views' = [v \in Views |-> IF v \in which THEN Rebuilt ELSE [views[v] EXCEPT !.clean = FALSE]]
        /\ unmaterialized' = (unmaterialized /\ which # Views)
        /\ UNCHANGED <<disk, attr, attrIncomplete, saving, appender, shred, process, mode, budget>>
    BY <1>6 DEF Rebuild
  <2>2. \A v \in Views : [views[v] EXCEPT !.clean = FALSE] \in ViewTypes
    BY DEF DerivedTypes, ViewTypes
  <2>3. views' \in [Views -> ViewTypes]
    BY <2>1, <2>2, RebuiltIs
  <2>4. unmaterialized' \in BOOLEAN
    BY <2>1
  <2> QED
    BY <2>1, <2>3, <2>4 DEF DerivedTypes, disk, LogHead
<1>7. CASE ShredMarks \/ ShredChecks \/ ShredFlags \/ ShredDestroys
  <2>1. UNCHANGED <<episodes, snapshots, attrFile, views, unmaterialized, attr, attrIncomplete, saving,
                    appender, process, mode>>
    BY <1>7 DEF ShredMarks, ShredChecks, ShredFlags, ShredDestroys, ram
  <2>2. key' \in [alive : BOOLEAN, gen : Nat] /\ shredded' \in BOOLEAN /\ marker' \in BOOLEAN
    BY <1>7 DEF ShredMarks, ShredChecks, ShredFlags, ShredDestroys, DerivedTypes
  <2>3. shred' \in ShredTypes
    <3>1. shred \in ShredTypes /\ marker \in BOOLEAN /\ shredded \in BOOLEAN
      BY DEF DerivedTypes
    <3>2. CASE ShredMarks
      BY <3>1, <3>2 DEF ShredMarks, ShredTypes, ShredSteps, NoShred
    <3>3. CASE ShredChecks
      <4>1. [shred EXCEPT !.at = "flag", !.erased = Erased] \in ShredTypes
        <5>1. Erased \in BOOLEAN
          BY DEF Erased
        <5> QED
          BY <3>1, <5>1 DEF ShredTypes, ShredSteps
      <4> QED
        BY <3>1, <3>3, <4>1, ShredMoves DEF ShredChecks
    <3>4. CASE ShredFlags
      BY <3>1, <3>4 DEF ShredFlags, ShredTypes, ShredSteps
    <3>5. CASE ShredDestroys
      <4>1. "views" \in ShredSteps
        BY DEF ShredSteps
      <4> QED
        BY <3>1, <3>5, <4>1, ShredMoves DEF ShredDestroys
    <3> QED
      BY <1>7, <3>2, <3>3, <3>4, <3>5
  <2> QED
    BY <2>1, <2>2, <2>3 DEF DerivedTypes, LogHead
<1>8. CASE ShredRebuildsViews
  <2>1. /\ views' = [v \in Views |-> Rebuilt] /\ unmaterialized' = FALSE
        /\ shred' = [shred EXCEPT !.at = "snapshots", !.left = Views]
        /\ UNCHANGED <<disk, attr, attrIncomplete, saving, appender, process, mode, budget>>
    BY <1>8 DEF ShredRebuildsViews
  <2>2. views' \in [Views -> ViewTypes]
    BY <2>1, RebuiltIs
  <2>3. shred' \in ShredTypes
    BY <2>1 DEF DerivedTypes, ShredTypes, ShredSteps
  <2> QED
    BY <2>1, <2>2, <2>3 DEF DerivedTypes, disk, LogHead
<1>9. CASE ShredSavesAttr \/ ShredInstallsAttr
  <2>1. AsFile(RebuiltAttr) \in FileTypes /\ [RebuiltAttr EXCEPT !.dirty = FALSE] \in IndexTypes
    <3>1. RebuiltAttr \in IndexTypes
      BY RebuiltIs
    <3> QED
      BY <3>1, AsFileIs DEF IndexTypes
  <2>2. shred' \in ShredTypes
    <3>1. "install" \in ShredSteps /\ "receipt" \in ShredSteps
      BY DEF ShredSteps
    <3> QED
      BY <1>9, <3>1, ShredMoves DEF ShredSavesAttr, ShredInstallsAttr, DerivedTypes
  <2> QED
    BY <1>9, <2>1, <2>2 DEF ShredSavesAttr, ShredInstallsAttr, DerivedTypes, disk, ram, LogHead
<1>10. CASE ShredReceipt
  <2>1. /\ Logs("other") /\ Then("unflag")
        /\ UNCHANGED <<shredded, marker, snapshots, attrFile, unmaterialized, attrIncomplete, saving,
                       appender, process, mode, budget>>
        /\ views' = views \/ views' = [v \in Views |-> ViewApplied(views[v], LogHead, "blank")]
        /\ attr' = attr \/ attr' = Indexed(attr, LogHead, "blank")
    BY <1>10 DEF ShredReceipt
  <2>2. /\ episodes' \in Seq(EpisodeTypes) /\ key' \in [alive : BOOLEAN, gen : Nat]
        /\ LogHead' <= MaxEpisodes /\ LogHead \in Nat
    BY <2>1, LogsTyped
  <2>3. views' \in [Views -> ViewTypes]
    <3>1. \A v \in ViewTypes : ViewApplied(v, LogHead, "blank") \in ViewTypes
      BY <2>2, ViewAppliedIs
    <3> QED
      BY <2>1, <3>1 DEF DerivedTypes
  <2>4. attr' \in IndexTypes
    <3>1. \A x \in IndexTypes : Indexed(x, LogHead, "blank") \in IndexTypes
      BY <2>2, IndexedIs
    <3> QED
      BY <2>1, <3>1 DEF DerivedTypes
  <2>5. shred' \in ShredTypes
    <3>1. "unflag" \in ShredSteps
      BY DEF ShredSteps
    <3> QED
      BY <2>1, <3>1, ShredMoves DEF DerivedTypes
  <2> QED
    BY <2>1, <2>2, <2>3, <2>4, <2>5 DEF DerivedTypes
<1>11. CASE ShredUnflags
  BY <1>11, ShredMoves DEF ShredUnflags, DerivedTypes, ram, LogHead
<1>12. CASE Stop
  <2>1. [a \in Appenders |-> [at |-> "idle", lsn |-> 0]] \in [Appenders -> [at : AppendSteps, lsn : Nat]]
    BY DEF AppendSteps
  <2> QED
    BY <1>12, <2>1, ShredMoves, NothingSeenIs DEF Stop, DerivedTypes, disk, LogHead
<1>13. ASSUME NEW m \in BootModes, BootViews(m) PROVE DerivedTypes'
  <2>0. (\A v \in Views : CaughtUp(snapshots[v]) \in ViewTypes) /\ AttrCaughtUp \in IndexTypes
    BY ReplayTyped DEF DerivedTypes
  <2>1. /\ UNCHANGED <<episodes, key, shredded, marker, attrFile, saving, appender, shred, budget>>
        /\ mode' = m /\ attrIncomplete' = (m # "normal") /\ process' = "attr" /\ m \in Modes
    BY <1>13, DerivedAssumption DEF BootViews
  <2>2. \/ /\ views' = [v \in Views |-> [Rebuilt EXCEPT !.clean = TRUE]]
           /\ snapshots' = [v \in Views |-> AsFile(Rebuilt)]
           /\ attr' = RebuiltAttr \/ attr' = EmptyAttr
           /\ UNCHANGED unmaterialized
        \/ /\ unmaterialized' = TRUE
           /\ attr' = [has |-> attrFile.has, wm |-> attrFile.wm, dirty |-> FALSE]
           /\ UNCHANGED <<views, snapshots>>
        \/ /\ views' = [v \in Views |-> CaughtUp(snapshots[v])]
           /\ snapshots' = [v \in Views |-> AsFile(CaughtUp(snapshots[v]))]
           /\ attr' = AttrCaughtUp
           /\ UNCHANGED unmaterialized
    BY <1>13 DEF BootViews
  <2>3. views' \in [Views -> ViewTypes]
    <3>1. [Rebuilt EXCEPT !.clean = TRUE] \in ViewTypes
      BY RebuiltIs DEF ViewTypes
    <3> QED
      BY <2>0, <2>2, <3>1 DEF DerivedTypes
  <2>4. snapshots' \in [Views -> FileTypes]
    BY <2>0, <2>2, AsFileIs, RebuiltIs DEF DerivedTypes
  <2>5. attr' \in IndexTypes
    <3>1. [has |-> attrFile.has, wm |-> attrFile.wm, dirty |-> FALSE] \in IndexTypes
      BY DEF DerivedTypes, FileTypes, IndexTypes
    <3> QED
      BY <2>0, <2>2, <3>1, RebuiltIs, NothingSeenIs
  <2>6. unmaterialized' \in BOOLEAN /\ attrIncomplete' \in BOOLEAN
    BY <2>1, <2>2 DEF DerivedTypes
  <2> QED
    BY <2>1, <2>3, <2>4, <2>5, <2>6 DEF DerivedTypes, LogHead
<1>14. CASE BootAttr \/ BootUnflags
  <2>1. AsFile(attr) \in FileTypes /\ [attr EXCEPT !.dirty = FALSE] \in IndexTypes
    BY AsFileIs DEF DerivedTypes, IndexTypes
  <2> QED
    BY <1>14, <2>1 DEF BootAttr, BootUnflags, DerivedTypes, ram, LogHead
<1>15. CASE UNCHANGED derivedVars
  BY <1>15 DEF derivedVars, disk, ram, DerivedTypes, LogHead
<1> QED
  <2>1. CASE ShredStep
    BY <2>1, <1>4, <1>7, <1>8, <1>9, <1>10, <1>11 DEF ShredStep
  <2>2. CASE Rebuild(Views) \/ \E v \in Views : Rebuild({v})
    BY <2>2, <1>6
  <2> QED
    BY <2>1, <2>2, <1>1, <1>2, <1>3, <1>4, <1>5, <1>12, <1>13, <1>14, <1>15 DEF DerivedNext
-----------------------------------------------------------------------------
(* The gate, and what a hold relies on it for *)

LEMMA GateIsFree ==
    ASSUME ~Replicated, GateFree PROVE AllAtRest /\ ~Exclusive
  BY DEF GateFree, Shared, AllAtRest, AtRest

\* The steps of a shred once it began: it gives the gate back or goes on.
ShredGoesOn ==
    \/ ShredChecks \/ ShredFlags \/ ShredDestroys \/ ShredRebuildsViews
    \/ \E v \in Views : ShredCheckpoints(v)
    \/ ShredSavesAttr \/ ShredInstallsAttr \/ ShredReceipt \/ ShredUnflags

LEMMA ShredGoesOnIs ==
    ASSUME DerivedTypes, SealInv, ShredGoesOn
    PROVE  /\ UNCHANGED <<appender, saving, process, mode>> /\ shred # NoShred
           /\ Exclusive' => Exclusive
           /\ Logged \subseteq Logged'
<1>1. UNCHANGED <<appender, saving, process, mode>>
  BY DEF ShredGoesOn, ShredChecks, ShredFlags, ShredDestroys, ShredRebuildsViews, ShredCheckpoints,
         ShredSavesAttr, ShredInstallsAttr, ShredReceipt, ShredUnflags, ram
<1>2. shred # NoShred
  <2>1. shred.at # "idle"
    BY DEF ShredGoesOn, ShredChecks, ShredFlags, ShredDestroys, ShredRebuildsViews, ShredCheckpoints,
           ShredSavesAttr, ShredInstallsAttr, ShredReceipt, ShredUnflags
  <2> QED
    BY <2>1 DEF NoShred
<1>3. Exclusive' => Exclusive
  <2>1. CASE ShredInstallsAttr \/ ShredReceipt \/ ShredUnflags
    BY <2>1 DEF ShredInstallsAttr, ShredReceipt, ShredUnflags, Then, NoShred, Exclusive, DerivedTypes, ShredTypes
  <2>2. CASE ~(ShredInstallsAttr \/ ShredReceipt \/ ShredUnflags)
    BY <2>2 DEF ShredGoesOn, ShredChecks, ShredFlags, ShredDestroys, ShredRebuildsViews,
                ShredCheckpoints, ShredSavesAttr, Exclusive
  <2> QED
    BY <2>1, <2>2
<1>4. Logged \subseteq Logged'
  <2>1. CASE ShredReceipt
    <3>1. Logs("other")
      BY <2>1 DEF ShredReceipt
    <3> QED
      BY <3>1, LogGrows
  <2>2. CASE UNCHANGED episodes
    BY <2>2, SameLog
  <2> QED
    BY <2>1, <2>2 DEF ShredGoesOn, ShredChecks, ShredFlags, ShredDestroys, ShredRebuildsViews,
                      ShredCheckpoints, ShredSavesAttr, ShredInstallsAttr, ShredUnflags, disk
<1> QED
  BY <1>1, <1>2, <1>3, <1>4

LEMMA GateKeeps ==
    ASSUME ~Replicated, DerivedTypes, SealInv, HeldInv, [DerivedNext]_derivedVars PROVE HeldInv'
<1>1. ASSUME NEW a \in Appenders, NEW kind \in Kinds, AppendLogs(a, kind) PROVE HeldInv'
  <2>1. /\ process = "up" /\ Logs(kind) /\ (mode = "log_only" \/ ~Exclusive)
        /\ UNCHANGED <<saving, shred, process, mode>>
    BY <1>1 DEF AppendLogs
  <2>2. Logged' = Logged \cup {LogHead} /\ LogHead \notin Logged
    <3>1. kind \in {"subject", "hold", "other"}
      BY DerivedAssumption
    <3> QED
      BY <2>1, <3>1, LogGrows
  <2>3. CASE mode = "log_only"
    <3>1. appender' = appender
      BY <1>1, <2>3 DEF AppendLogs
    <3> QED
      BY <2>1, <2>2, <3>1 DEF HeldInv, AtRest, AllAtRest, Exclusive
  <2>4. CASE mode # "log_only"
    <3>1. appender' = [appender EXCEPT ![a] = [at |-> "views", lsn |-> LogHead]]
      BY <1>1, <2>4 DEF AppendLogs
    <3>2. \A b \in Appenders : appender'[b] = IF b = a THEN [at |-> "views", lsn |-> LogHead] ELSE appender[b]
      BY <3>1 DEF DerivedTypes
    <3>3. \A b \in Appenders : ~AtRest(b)' => appender'[b].lsn \in Logged'
      BY <2>2, <3>2 DEF HeldInv, AtRest
    <3>4. \A b, c \in Appenders :
             ~AtRest(b)' /\ ~AtRest(c)' /\ appender'[b].lsn = appender'[c].lsn => b = c
      BY <2>2, <3>2 DEF HeldInv, AtRest
    <3> QED
      BY <2>1, <2>4, <3>3, <3>4 DEF HeldInv, Exclusive
  <2> QED
    BY <2>3, <2>4
<1>2. ASSUME NEW a \in Appenders, AppendAppliesViews(a) \/ AppendAppliesAttr(a) PROVE HeldInv'
  <2>1. /\ UNCHANGED <<episodes, saving, shred, process, mode>> /\ ~AtRest(a)
        /\ \/ appender' = [appender EXCEPT ![a].at = "attr"]
           \/ appender' = [appender EXCEPT ![a] = [at |-> "idle", lsn |-> 0]]
    BY <1>2 DEF AppendAppliesViews, AppendAppliesAttr, disk, AtRest
  <2>2. \A b \in Appenders : ~AtRest(b)' => ~AtRest(b) /\ appender'[b].lsn = appender[b].lsn
    <3>1. \A b \in Appenders : b # a => appender'[b] = appender[b]
      BY <2>1 DEF DerivedTypes
    <3>2. appender'[a].at = "idle" \/ appender'[a].lsn = appender[a].lsn
      BY <2>1 DEF DerivedTypes
    <3> QED
      BY <2>1, <3>1, <3>2 DEF AtRest
  <2>3. Logged' = Logged /\ Exclusive' = Exclusive
    BY <2>1, SameLog DEF Exclusive
  <2>4. process = "up" /\ mode # "log_only" /\ ~Exclusive
    BY <2>1 DEF HeldInv, AllAtRest
  <2> QED
    BY <2>1, <2>2, <2>3, <2>4 DEF HeldInv
<1>3. CASE CheckpointAttr
  <2>1. /\ process = "up" /\ GateFree
        /\ UNCHANGED <<episodes, appender, shred, process, mode>>
    BY <1>3 DEF CheckpointAttr, disk
  <2> QED
    BY <2>1, GateIsFree, SameLog DEF HeldInv, AllAtRest, AtRest, Exclusive
<1>4. CASE ShredMarks
  <2>1. /\ process = "up" /\ GateFree
        /\ UNCHANGED <<episodes, appender, saving, process, mode>>
    BY <1>4 DEF ShredMarks
  <2> QED
    BY <2>1, GateIsFree, SameLog DEF HeldInv, AllAtRest, AtRest
<1>5. CASE ShredGoesOn
  <2>1. process = "up"
    BY <1>5, ShredGoesOnIs DEF HeldInv
  <2> QED
    BY <1>5, <2>1, ShredGoesOnIs DEF HeldInv, AllAtRest, AtRest
<1>6. CASE Stop
  <2>1. /\ saving' = NoFile /\ shred' = NoShred /\ UNCHANGED episodes
        /\ appender' = [a \in Appenders |-> [at |-> "idle", lsn |-> 0]]
    BY <1>6 DEF Stop, disk
  <2> QED
    BY <2>1, SameLog DEF HeldInv, AllAtRest, AtRest, Exclusive, NoShred
<1>7. CASE BootAttr \/ BootUnflags \/ \E m \in BootModes : BootViews(m)
  <2>1. process # "up" /\ UNCHANGED <<episodes, saving, appender, shred>>
    BY <1>7 DEF BootAttr, BootUnflags, BootViews
  <2> QED
    BY <2>1, SameLog DEF HeldInv, AllAtRest, AtRest, Exclusive, NoShred
<1>8. CASE UNCHANGED <<episodes, appender, shred, process, mode>> /\ saving' \in {saving, NoFile}
  BY <1>8, SameLog DEF HeldInv, AllAtRest, AtRest, Exclusive
<1> QED
  <2>1. CASE ShredStep
    BY <2>1, <1>4, <1>5 DEF ShredStep, ShredGoesOn
  <2>2. CASE AttrSaved \/ Rebuild(Views) \/ (\E v \in Views : CheckpointView(v) \/ Rebuild({v}))
             \/ UNCHANGED derivedVars
    BY <2>2, <1>8 DEF AttrSaved, Rebuild, CheckpointView, derivedVars, disk, ram
  <2> QED
    BY <2>1, <2>2, <1>1, <1>2, <1>3, <1>6, <1>7 DEF DerivedNext

\* Whoever logs while the gate is held does so in LOG_ONLY.
LEMMA HeldIsQuiet ==
    ASSUME ~Replicated, DerivedTypes, HeldInv, Exclusive, mode # "log_only",
           [DerivedNext]_derivedVars
    PROVE  UNCHANGED episodes \/ ShredReceipt
<1>1. ASSUME NEW a \in Appenders, NEW kind \in Kinds, AppendLogs(a, kind) PROVE FALSE
  BY <1>1 DEF AppendLogs
<1> QED
  BY <1>1 DEF DerivedNext, AppendAppliesViews, AppendAppliesAttr, CheckpointView, Rebuild, CheckpointAttr,
     AttrSaved, Stop, BootViews, BootAttr, BootUnflags, derivedVars, disk, ShredStep,
     ShredMarks, ShredChecks, ShredFlags, ShredDestroys, ShredRebuildsViews, ShredCheckpoints,
     ShredSavesAttr, ShredInstallsAttr, ShredUnflags

LEMMA VetoKeeps ==
    ASSUME ~Replicated, DerivedTypes, HeldInv, VetoInv, [DerivedNext]_derivedVars PROVE VetoInv'
<1> SUFFICES ASSUME shred'.at \in {"flag", "destroy"}, mode' # "log_only" PROVE ~Vetoed'
  BY DEF VetoInv
<1>1. UNCHANGED episodes => (Vetoed' <=> Vetoed)
  BY SameLog DEF Vetoed, HoldsNow, Logged, LogHead, Episode, Sealed
<1>2. CASE ShredChecks
  <2>1. UNCHANGED episodes /\ ~Vetoed
    BY <1>2 DEF ShredChecks, NoShred
  <2> QED
    BY <1>1, <2>1
<1>3. CASE shred.at \in {"flag", "destroy"} /\ mode' = mode
  <2>1. ~ShredReceipt
    BY <1>3 DEF ShredReceipt
  <2>2. UNCHANGED episodes
    BY <1>3, <2>1, HeldIsQuiet DEF Exclusive
  <2> QED
    BY <1>1, <1>3, <2>2 DEF VetoInv
<1>4. CASE UNCHANGED <<shred, mode>> \/ ShredFlags
  BY <1>3, <1>4 DEF ShredFlags
<1>5. CASE BootAttr \/ BootUnflags \/ \E m \in BootModes : BootViews(m)
  <2>1. process # "up" /\ UNCHANGED shred
    BY <1>5 DEF BootAttr, BootUnflags, BootViews
  <2> QED
    BY <2>1 DEF HeldInv, NoShred
<1>6. ASSUME NEW v \in Views, ShredCheckpoints(v) PROVE FALSE
  BY <1>6 DEF ShredCheckpoints, DerivedTypes, ShredTypes
<1>7. CASE ShredMarks \/ ShredDestroys \/ ShredRebuildsViews \/ ShredSavesAttr \/ ShredInstallsAttr
           \/ ShredReceipt \/ ShredUnflags \/ Stop
  <2>1. shred' = NoShred \/ (\E x : shred' = [NoShred EXCEPT !.at = "check", !.newMark = x])
        \/ \E at \in {"views", "install", "receipt", "unflag"} : Then(at)
        \/ shred' = [shred EXCEPT !.at = "snapshots", !.left = Views]
    BY <1>7 DEF ShredMarks, ShredDestroys, ShredRebuildsViews, ShredSavesAttr, ShredInstallsAttr,
       ShredReceipt, ShredUnflags, Stop
  <2>2. shred'.at \in {"idle", "check", "views", "install", "receipt", "unflag", "snapshots"}
    <3>0. NoShred \in ShredTypes /\ NoShred.at = "idle"
      BY ShredMoves DEF DerivedTypes
    <3>1. ASSUME NEW x, shred' = NoShred \/ shred' = [NoShred EXCEPT !.at = "check", !.newMark = x]
          PROVE  shred'.at \in {"idle", "check"}
      BY <3>0, <3>1 DEF ShredTypes
    <3>2. ASSUME NEW at \in {"views", "install", "receipt", "unflag"}, Then(at) PROVE shred'.at = at
      BY <3>2 DEF Then, DerivedTypes, ShredTypes
    <3>3. CASE shred' = [shred EXCEPT !.at = "snapshots", !.left = Views]
      BY <3>3 DEF DerivedTypes, ShredTypes
    <3> QED
      BY <2>1, <3>1, <3>2, <3>3
  <2> QED
    BY <2>2
<1> QED
  <2>1. CASE ShredStep
    BY <2>1, <1>2, <1>4, <1>6, <1>7 DEF ShredStep
  <2>2. CASE UNCHANGED <<shred, mode>>
    BY <1>4, <2>2
  <2> QED
    BY <2>1, <2>2, <1>5, <1>7 DEF DerivedNext, AppendLogs, AppendAppliesViews, AppendAppliesAttr,
       CheckpointView, Rebuild, CheckpointAttr, AttrSaved, derivedVars

\* A key is destroyed by a shred, while nothing is being applied.
LEMMA KeyDies ==
    ASSUME DerivedTypes, [DerivedNext]_derivedVars, key.alive, ~key'.alive
    PROVE  ShredDestroys
<1>1. ASSUME NEW kind, Logs(kind) PROVE FALSE
  BY <1>1 DEF Logs
<1> QED
  BY <1>1 DEF DerivedNext, AppendLogs, AppendAppliesViews, AppendAppliesAttr, CheckpointView, Rebuild,
     CheckpointAttr, AttrSaved, Stop, BootViews, BootAttr, BootUnflags, derivedVars, disk, ShredStep,
     ShredMarks, ShredChecks, ShredFlags, ShredRebuildsViews, ShredCheckpoints, ShredSavesAttr,
     ShredInstallsAttr, ShredReceipt, ShredUnflags
-----------------------------------------------------------------------------
(* The key *)

\* The steps after the key was destroyed.
ShredErases ==
    \/ ShredRebuildsViews \/ \E v \in Views : ShredCheckpoints(v)
    \/ ShredSavesAttr \/ ShredInstallsAttr \/ ShredReceipt \/ ShredUnflags

LEMMA ShredErasesIs ==
    ASSUME DerivedTypes, ShredErases
    PROVE  /\ shred'.at \notin {"check", "flag", "destroy"} /\ UNCHANGED <<shredded, appender>>
           /\ shred.at \notin {"check", "flag", "destroy"}
           /\ Logs("other") \/ UNCHANGED <<episodes, key>>
<1>1. CASE ShredRebuildsViews
  BY <1>1 DEF ShredRebuildsViews, DerivedTypes, ShredTypes, disk
<1>2. ASSUME NEW v \in Views, ShredCheckpoints(v)
      PROVE  /\ shred'.at \notin {"check", "flag", "destroy"} /\ UNCHANGED <<episodes, key, shredded, appender>>
             /\ shred.at \notin {"check", "flag", "destroy"}
  BY <1>2 DEF ShredCheckpoints, DerivedTypes, ShredTypes
<1>3. CASE ShredSavesAttr \/ ShredInstallsAttr
  BY <1>3 DEF ShredSavesAttr, ShredInstallsAttr, Then, DerivedTypes, ShredTypes, disk
<1>4. CASE ShredReceipt
  BY <1>4 DEF ShredReceipt, Then, DerivedTypes, ShredTypes
<1>5. CASE ShredUnflags
  BY <1>5 DEF ShredUnflags, NoShred
<1> QED
  BY <1>1, <1>2, <1>3, <1>4, <1>5 DEF ShredErases

LEMMA KeyInvLogs ==
    ASSUME DerivedTypes, HeldInv, SealInv, NEW kind \in {"subject", "hold", "other"}, Logs(kind)
    PROVE  /\ \A l \in Logged' : Episode(l)'.key <= key'.gen
           /\ Unmarked => \A l \in Logged' : Sealed(l)' => Opens(l)'
           /\ \A a \in Appenders, l \in Nat :
                 ~AtRest(a) /\ l = appender[a].lsn /\ Sealed(l)' => Opens(l)'
<1>1. /\ Logged' = Logged \cup {LogHead}
      /\ \A l \in Logged : (Sealed(l)' <=> Sealed(l)) /\ (Opens(l)' <=> Opens(l))
      /\ \A l : l = LogHead => (Sealed(l)' => Opens(l)')
      /\ \A l \in Logged' : Episode(l)'.key <= key'.gen
  BY LogGrows
<1> QED
  BY <1>1 DEF SealInv, HeldInv

LEMMA KeyKeeps ==
    ASSUME ~Replicated, DerivedTypes, HeldInv, SealInv, [DerivedNext]_derivedVars PROVE SealInv'
<1>0. \A a \in Appenders : appender[a].lsn \in Nat
  BY DEF DerivedTypes
<1>1. ASSUME NEW a \in Appenders, NEW kind \in Kinds, AppendLogs(a, kind) PROVE SealInv'
  <2>1. /\ Logs(kind) /\ UNCHANGED <<shredded, shred>> /\ kind \in {"subject", "hold", "other"}
        /\ appender' \in {appender, [appender EXCEPT ![a] = [at |-> "views", lsn |-> LogHead]]}
    BY <1>1, DerivedAssumption DEF AppendLogs
  <2>2. /\ \A l \in Logged' : Episode(l)'.key <= key'.gen
        /\ Unmarked => \A l \in Logged' : Sealed(l)' => Opens(l)'
        /\ \A b \in Appenders, l \in Nat : ~AtRest(b) /\ l = appender[b].lsn /\ Sealed(l)' => Opens(l)'
    BY <2>1, KeyInvLogs
  <2>3. \A l : l = LogHead => (Sealed(l)' => Opens(l)')
    BY <2>1, LogGrows
  <2>4. \A b \in Appenders : appender'[b] = appender[b] \/ appender'[b].lsn = LogHead
    BY <2>1 DEF DerivedTypes
  <2>5. ASSUME NEW b \in Appenders, ~AtRest(b)', Sealed(appender[b].lsn)' PROVE Opens(appender[b].lsn)'
    <3> DEFINE l == appender'[b].lsn
    <3>1. l = LogHead \/ (~AtRest(b) /\ l = appender[b].lsn)
      BY <2>4, <2>5 DEF AtRest
    <3>2. \A k : k = LogHead \/ (k \in Nat /\ ~AtRest(b) /\ k = appender[b].lsn) => (Sealed(k)' => Opens(k)')
      BY <2>2, <2>3
    <3>3. \A k : k = l => (Sealed(k)' => Opens(k)')
      BY <1>0, <3>1, <3>2
    <3> QED
      BY <2>5, <3>3 DEF Sealed, Opens, Episode
  <2>6. Unmarked' <=> Unmarked
    BY <2>1 DEF Unmarked
  <2> QED
    BY <2>1, <2>2, <2>5, <2>6 DEF SealInv
<1>2. ASSUME UNCHANGED <<episodes, key>>, shred'.at \in {"check", "flag", "destroy"} => shredded',
             Unmarked' => Unmarked,
             \A b \in Appenders : ~AtRest(b)' => ~AtRest(b) /\ appender'[b].lsn = appender[b].lsn
      PROVE  SealInv'
  BY <1>2 DEF SealInv, Logged, LogHead, Sealed, Opens, Episode
<1>3. ASSUME NEW a \in Appenders, AppendAppliesViews(a) \/ AppendAppliesAttr(a) PROVE SealInv'
  <2>1. /\ UNCHANGED <<episodes, key, shredded, shred>> /\ ~AtRest(a)
        /\ \/ appender' = [appender EXCEPT ![a].at = "attr"]
           \/ appender' = [appender EXCEPT ![a] = [at |-> "idle", lsn |-> 0]]
    BY <1>3 DEF AppendAppliesViews, AppendAppliesAttr, disk, AtRest
  <2>2. \A b \in Appenders : ~AtRest(b)' => ~AtRest(b) /\ appender'[b].lsn = appender[b].lsn
    <3>1. \A b \in Appenders : b # a => appender'[b] = appender[b]
      BY <2>1 DEF DerivedTypes
    <3>2. appender'[a].at = "idle" \/ appender'[a].lsn = appender[a].lsn
      BY <2>1 DEF DerivedTypes
    <3> QED
      BY <2>1, <3>1, <3>2 DEF AtRest
  <2> QED
    BY <2>1, <2>2, <1>2 DEF Unmarked, SealInv
<1>4. CASE ShredMarks
  <2>1. /\ UNCHANGED <<episodes, key, appender>> /\ shredded' = TRUE
        /\ shred' = [NoShred EXCEPT !.at = "check", !.newMark = ~shredded]
    BY <1>4 DEF ShredMarks
  <2>2. shred'.newMark <=> ~shredded
    BY <2>1, ShredMoves DEF DerivedTypes, ShredTypes
  <2> QED
    BY <2>1, <2>2, <1>2 DEF Unmarked, AtRest
<1>5. CASE ShredChecks
  <2>1. UNCHANGED <<episodes, key, appender>> /\ shred.at = "check" /\ shredded
    BY <1>5 DEF ShredChecks, SealInv
  <2>2. CASE shredded' = (shredded /\ ~shred.newMark) /\ shred' = NoShred
    <3>1. shred'.at = "idle"
      BY <2>2 DEF NoShred
    <3>2. Unmarked' => Unmarked
      BY <2>1, <2>2, <3>1 DEF Unmarked, DerivedTypes, ShredTypes
    <3> QED
      BY <2>1, <3>1, <3>2, <1>2 DEF AtRest
  <2>3. CASE shred' = [shred EXCEPT !.at = "flag", !.erased = Erased] /\ UNCHANGED shredded
    <3>1. shred'.newMark = shred.newMark
      BY <2>3 DEF DerivedTypes, ShredTypes
    <3> QED
      BY <2>1, <2>3, <3>1, <1>2 DEF AtRest, Unmarked
  <2> QED
    BY <1>5, <2>2, <2>3 DEF ShredChecks
<1>6. CASE ShredFlags
  <2>1. /\ UNCHANGED <<episodes, key, appender, shredded>> /\ shred.at = "flag" /\ shredded
        /\ shred'.newMark = shred.newMark
    BY <1>6 DEF ShredFlags, SealInv, DerivedTypes, ShredTypes
  <2> QED
    BY <2>1, <1>2 DEF AtRest, Unmarked
<1>7. CASE ShredDestroys
  <2>1. /\ UNCHANGED <<episodes, appender>> /\ shred.at = "destroy" /\ shredded
        /\ key' = [key EXCEPT !.alive = FALSE]
        /\ shredded' = (shredded /\ (key.alive \/ shred.erased \/ ~shred.newMark))
        /\ shred' = NoShred \/ Then("views")
    BY <1>7 DEF ShredDestroys, SealInv
  <2>2. AllAtRest' /\ key'.gen = key.gen /\ shred'.at \notin {"check", "flag", "destroy"}
    BY <2>1 DEF HeldInv, Exclusive, AllAtRest, AtRest, Then, NoShred, DerivedTypes, ShredTypes
  <2>3. ASSUME ~shredded', NEW l \in Logged, Sealed(l) PROVE FALSE
    <3>1. ~key.alive /\ Unmarked
      BY <2>1, <2>3 DEF Unmarked
    <3> QED
      BY <2>3, <3>1 DEF SealInv, Opens
  <2>4. Logged' = Logged /\ \A l : (Sealed(l)' <=> Sealed(l)) /\ Episode(l)' = Episode(l)
    BY <2>1, SameLog DEF Episode
  <2>5. Unmarked' => ~shredded'
    BY <2>2 DEF Unmarked
  <2> QED
    BY <2>2, <2>3, <2>4, <2>5 DEF SealInv, AllAtRest
<1>8. CASE ShredErases
  <2>1. /\ shred'.at \notin {"check", "flag", "destroy"} /\ UNCHANGED <<shredded, appender>>
        /\ Logs("other") \/ UNCHANGED <<episodes, key>>
        /\ Unmarked' => Unmarked
    BY <1>8, ShredErasesIs DEF Unmarked
  <2>2. CASE UNCHANGED <<episodes, key>>
    BY <2>1, <2>2, <1>2 DEF AtRest
  <2>3. CASE Logs("other")
    <3>1. /\ \A l \in Logged' : Episode(l)'.key <= key'.gen
          /\ Unmarked => \A l \in Logged' : Sealed(l)' => Opens(l)'
          /\ \A b \in Appenders, l \in Nat : ~AtRest(b) /\ l = appender[b].lsn /\ Sealed(l)' => Opens(l)'
      BY <2>3, KeyInvLogs
    <3>2. \A b \in Appenders : ~AtRest(b)' /\ Sealed(appender[b].lsn)' => Opens(appender[b].lsn)'
      BY <1>0, <2>1, <3>1 DEF AtRest, Sealed, Opens, Episode
    <3> QED
      BY <2>1, <3>1, <3>2 DEF SealInv
  <2> QED
    BY <2>1, <2>2, <2>3
<1>9. CASE Stop
  <2>1. /\ UNCHANGED <<episodes, key, shredded>> /\ shred' = NoShred
        /\ appender' = [a \in Appenders |-> [at |-> "idle", lsn |-> 0]]
    BY <1>9 DEF Stop, disk
  <2>2. shred'.at = "idle" /\ \A b \in Appenders : AtRest(b)'
    BY <2>1 DEF NoShred, AtRest
  <2> QED
    BY <2>1, <2>2, <1>2 DEF Unmarked
<1>10. CASE UNCHANGED <<episodes, key, shredded, shred, appender>>
  BY <1>10, <1>2 DEF Unmarked, SealInv, AtRest
<1> QED
  <2>1. CASE ShredStep
    BY <2>1, <1>4, <1>5, <1>6, <1>7, <1>8 DEF ShredStep, ShredErases
  <2> QED
    BY <2>1, <1>1, <1>3, <1>9, <1>10 DEF DerivedNext, CheckpointView, Rebuild, CheckpointAttr, AttrSaved,
       BootViews, BootAttr, BootUnflags, derivedVars, disk, ram
-----------------------------------------------------------------------------
(* What is seen, and what stays whole *)

LEMMA SameWhole ==
    ASSUME NEW x, NEW y, x.has = y.has, x.wm = y.wm
    PROVE  /\ \A ls : Whole(x, ls) <=> Whole(y, ls)
           /\ Faithful(x) <=> Faithful(y)
           /\ Saved(x) <=> Saved(y)
  BY DEF Whole, Faithful, Saved

LEMMA AppliedWhole ==
    ASSUME NEW ls \in SUBSET Lsns, NEW lsn \in Lsns, lsn \notin ls, NEW seen \in {"clear", "blank"}
    PROVE  /\ \A v \in ViewTypes : Whole(v, ls) => Whole(ViewApplied(v, lsn, seen), ls \cup {lsn})
           /\ \A x \in IndexTypes : Whole(x, ls) => Whole(Indexed(x, lsn, seen), ls \cup {lsn})
<1>0. Lsns \subseteq Nat /\ lsn \in Nat
  BY DerivedAssumption DEF Lsns
\* One more value at lsn, and a watermark that is not lower.
<1>1. ASSUME NEW x, NEW w, Whole(x, ls), x.wm \in Int, w.wm \in Int, lsn <= w.wm, x.wm <= w.wm,
             w.has[lsn] = seen, \A l \in Lsns : l # lsn => w.has[l] = x.has[l]
      PROVE  Whole(w, ls \cup {lsn})
  <2> SUFFICES ASSUME NEW l \in Lsns
               PROVE  IF l \in ls \cup {lsn} THEN w.has[l] \in {"clear", "blank"} /\ l <= w.wm
                                              ELSE w.has[l] = "none"
    BY DEF Whole
  <2>1. CASE l = lsn
    BY <1>1, <2>1
  <2>2. CASE l # lsn /\ l \in ls
    <3>1. x.has[l] \in {"clear", "blank"} /\ l <= x.wm /\ l \in Int
      BY <1>0, <1>1, <2>2 DEF Whole
    <3> QED
      BY <1>1, <2>2, <3>1
  <2>3. CASE l # lsn /\ l \notin ls
    BY <1>1, <2>3 DEF Whole
  <2> QED
    BY <2>1, <2>2, <2>3
<1>2. ASSUME NEW v \in ViewTypes, Whole(v, ls) PROVE Whole(ViewApplied(v, lsn, seen), ls \cup {lsn})
  <2> DEFINE w == ViewApplied(v, lsn, seen)
  <2>0. lsn \in Nat
    BY <1>0
  <2>1. w \in ViewTypes /\ lsn <= w.wm /\ v.wm <= w.wm
    <3>1. w \in ViewTypes
      BY <2>0, ViewAppliedIs
    <3>2. lsn <= w.wm /\ v.wm <= w.wm
      BY <2>0, AppliedWatermark
    <3> QED
      BY <3>1, <3>2
  <2>2. \A l \in Lsns : w.has[l] = IF l = lsn THEN (IF v.has[l] = "none" THEN seen ELSE "twice") ELSE v.has[l]
    BY <1>0, ViewAppliedIs
  <2> HIDE DEF w
  <2>3. v.has[lsn] = "none"
    BY <1>2 DEF Whole
  <2>4. v.wm \in Int /\ w.wm \in Int
    BY <2>1 DEF ViewTypes
  <2>5. w.has[lsn] = seen /\ \A l \in Lsns : l # lsn => w.has[l] = v.has[l]
    BY <2>2, <2>3
  <2>6. Whole(w, ls \cup {lsn})
    BY <1>1, <1>2, <2>1, <2>4, <2>5
  <2> QED
    BY <2>6 DEF w
<1>3. ASSUME NEW x \in IndexTypes, Whole(x, ls) PROVE Whole(Indexed(x, lsn, seen), ls \cup {lsn})
  <2> DEFINE w == Indexed(x, lsn, seen)
  <2>0. lsn \in Nat
    BY <1>0
  <2>1. w \in IndexTypes /\ lsn <= w.wm /\ x.wm <= w.wm
    <3>1. w \in IndexTypes
      BY <2>0, IndexedIs
    <3>2. lsn <= w.wm /\ x.wm <= w.wm
      BY <2>0, AppliedWatermark
    <3> QED
      BY <3>1, <3>2
  <2>2. \A l \in Lsns : w.has[l] = IF l = lsn /\ x.has[l] = "none" THEN seen ELSE x.has[l]
    BY <1>0, IndexedIs
  <2> HIDE DEF w
  <2>3. x.has[lsn] = "none"
    BY <1>3 DEF Whole
  <2>4. x.wm \in Int /\ w.wm \in Int
    BY <2>1 DEF IndexTypes
  <2>5. w.has[lsn] = seen /\ \A l \in Lsns : l # lsn => w.has[l] = x.has[l]
    BY <2>2, <2>3
  <2>6. Whole(w, ls \cup {lsn})
    BY <1>1, <1>3, <2>1, <2>4, <2>5
  <2> QED
    BY <2>6 DEF w
<1> QED
  BY <1>2, <1>3

LEMMA SeenIs ==
    ASSUME DerivedTypes
    PROVE  /\ SeenByViews \subseteq Logged /\ SeenByIndex \subseteq Logged
           /\ AllAtRest => SeenByViews = Logged /\ SeenByIndex = Logged
  BY DEF SeenByViews, SeenByIndex, InFlight, AllAtRest, AtRest

LEMMA SeenLogs ==
    ASSUME DerivedTypes, HeldInv, SealInv, NEW a \in Appenders, NEW kind \in Kinds, AppendLogs(a, kind),
           mode # "log_only"
    PROVE  SeenByViews' = SeenByViews /\ SeenByIndex' = SeenByIndex
<1>1. /\ Logs(kind) /\ kind \in {"subject", "hold", "other"} /\ AtRest(a)
      /\ appender' = [appender EXCEPT ![a] = [at |-> "views", lsn |-> LogHead]]
  BY DerivedAssumption DEF AppendLogs, AtRest
<1>2. Logged' = Logged \cup {LogHead} /\ LogHead \notin Logged
  BY <1>1, LogGrows
<1>3. /\ appender'[a].at = "views" /\ appender'[a].lsn = LogHead /\ appender[a].at = "idle"
      /\ \A b \in Appenders : b # a => appender'[b] = appender[b]
  BY <1>1 DEF DerivedTypes, AtRest
<1>4. ASSUME NEW steps \in {{"views"}, {"views", "attr"}}
      PROVE  InFlight(steps)' = InFlight(steps) \cup {LogHead}
  <2>1. \A b \in Appenders : appender'[b].at \in steps <=> b = a \/ appender[b].at \in steps
    BY <1>3
  <2> QED
    BY <1>3, <2>1 DEF InFlight
<1> QED
  BY <1>2, <1>4 DEF SeenByViews, SeenByIndex

LEMMA SeenAppliesViews ==
    ASSUME DerivedTypes, HeldInv, NEW a \in Appenders, AppendAppliesViews(a)
    PROVE  /\ SeenByViews' = SeenByViews \cup {appender[a].lsn} /\ SeenByIndex' = SeenByIndex
           /\ appender[a].lsn \in Logged /\ appender[a].lsn \notin SeenByViews
<1>1. /\ appender[a].at = "views" /\ UNCHANGED episodes
      /\ appender'[a].at = "attr" /\ appender'[a].lsn = appender[a].lsn
      /\ \A b \in Appenders : b # a => appender'[b] = appender[b]
  BY DEF AppendAppliesViews, disk, DerivedTypes
<1>2. Logged' = Logged
  BY <1>1, SameLog
<1>3. /\ appender[a].lsn \in Logged
      /\ \A b \in Appenders : appender[b].at # "idle" /\ appender[b].lsn = appender[a].lsn => b = a
  BY <1>1 DEF HeldInv, AtRest
<1>4. InFlight({"views", "attr"})' = InFlight({"views", "attr"})
  <2>1. \A b \in Appenders : /\ appender'[b].at \in {"views", "attr"} <=> appender[b].at \in {"views", "attr"}
                             /\ appender'[b].lsn = appender[b].lsn
    BY <1>1
  <2> QED
    BY <2>1 DEF InFlight
<1>5. InFlight({"views"})' = InFlight({"views"}) \ {appender[a].lsn} /\ appender[a].lsn \in InFlight({"views"})
  <2>1. \A b \in Appenders : /\ appender'[b].at \in {"views"} <=> b # a /\ appender[b].at \in {"views"}
                             /\ appender'[b].lsn = appender[b].lsn
    BY <1>1
  <2>2. \A b \in Appenders : appender[b].at \in {"views"} /\ b # a => appender[b].lsn # appender[a].lsn
    BY <1>3
  <2> QED
    BY <1>1, <2>1, <2>2 DEF InFlight
<1> QED
  BY <1>2, <1>3, <1>4, <1>5 DEF SeenByViews, SeenByIndex

LEMMA SeenAppliesAttr ==
    ASSUME DerivedTypes, HeldInv, NEW a \in Appenders, AppendAppliesAttr(a)
    PROVE  /\ SeenByIndex' = SeenByIndex \cup {appender[a].lsn} /\ SeenByViews' = SeenByViews
           /\ appender[a].lsn \in Logged /\ appender[a].lsn \notin SeenByIndex
<1>1. /\ appender[a].at = "attr" /\ UNCHANGED episodes
      /\ appender'[a].at = "idle"
      /\ \A b \in Appenders : b # a => appender'[b] = appender[b]
  BY DEF AppendAppliesAttr, disk, DerivedTypes
<1>2. Logged' = Logged
  BY <1>1, SameLog
<1>3. /\ appender[a].lsn \in Logged
      /\ \A b \in Appenders : appender[b].at # "idle" /\ appender[b].lsn = appender[a].lsn => b = a
  BY <1>1 DEF HeldInv, AtRest
<1>4. InFlight({"views"})' = InFlight({"views"})
  <2>1. \A b \in Appenders : /\ appender'[b].at \in {"views"} <=> appender[b].at \in {"views"}
                             /\ appender[b].at \in {"views"} => appender'[b].lsn = appender[b].lsn
    BY <1>1
  <2> QED
    BY <2>1 DEF InFlight
<1>5. InFlight({"views", "attr"})' = InFlight({"views", "attr"}) \ {appender[a].lsn}
      /\ appender[a].lsn \in InFlight({"views", "attr"})
  <2>1. \A b \in Appenders : /\ appender'[b].at \in {"views", "attr"} <=> b # a /\ appender[b].at \in {"views", "attr"}
                             /\ b # a => appender'[b].lsn = appender[b].lsn
    BY <1>1
  <2>2. \A b \in Appenders : appender[b].at \in {"views", "attr"} /\ b # a => appender[b].lsn # appender[a].lsn
    BY <1>3
  <2> QED
    BY <1>1, <2>1, <2>2 DEF InFlight
<1> QED
  BY <1>2, <1>3, <1>4, <1>5 DEF SeenByViews, SeenByIndex

LEMMA SeenReceipt ==
    ASSUME DerivedTypes, HeldInv, SealInv, Logs("other"), UNCHANGED appender
    PROVE  /\ SeenByViews' = SeenByViews \cup {LogHead} /\ LogHead \notin SeenByViews
           /\ SeenByIndex' = SeenByIndex \cup {LogHead} /\ LogHead \notin SeenByIndex
<1>1. Logged' = Logged \cup {LogHead} /\ LogHead \notin Logged
  BY LogGrows
<1>2. \A steps : InFlight(steps)' = InFlight(steps)
  BY DEF InFlight
<1>3. \A b \in Appenders : appender[b].at # "idle" => appender[b].lsn # LogHead
  BY <1>1 DEF HeldInv, AtRest
<1>4. LogHead \notin InFlight({"views"}) /\ LogHead \notin InFlight({"views", "attr"})
  BY <1>3 DEF InFlight
<1> QED
  BY <1>1, <1>2, <1>4 DEF SeenByViews, SeenByIndex

LEMMA SeenSame ==
    ASSUME UNCHANGED <<episodes, appender>>
    PROVE  SeenByViews' = SeenByViews /\ SeenByIndex' = SeenByIndex
  BY SameLog DEF SeenByViews, SeenByIndex, InFlight

\* With nothing in flight, what a view and the index have may be saved.
LEMMA ViewsAreSaved ==
    ASSUME DerivedTypes, ViewsInv, AllAtRest, process # "down", ~unmaterialized
    PROVE  \A v \in Views : views[v].wm > 0 => Saved(views[v])
<1> SUFFICES ASSUME NEW v \in Views, views[v].wm > 0 PROVE Saved(views[v])
  OBVIOUS
<1>1. views[v].wm \in Nat /\ views[v].wm <= LastLsn
  BY DEF ViewsInv, DerivedTypes, ViewTypes
<1>2. views[v].wm < LogHead
  BY <1>1, LogIs
<1>3. CASE mode = "log_only"
  BY <1>2, <1>3 DEF ViewsInv, Saved
<1>4. CASE mode # "log_only"
  <2>1. Whole(views[v], Logged)
    BY <1>4, SeenIs DEF ViewsInv
  <2> QED
    BY <1>1, <1>2, <2>1, WholeIsFaithful
<1> QED
  BY <1>3, <1>4

LEMMA IndexIsSaved ==
    ASSUME DerivedTypes, IndexInv, AllAtRest, process # "down", ~attrIncomplete
    PROVE  Saved(attr)
<1>1. attr.wm \in Int /\ attr.wm < LogHead
  BY DEF IndexInv, DerivedTypes, IndexTypes
<1>2. CASE mode = "log_only"
  BY <1>1, <1>2 DEF IndexInv, Saved
<1>3. CASE mode # "log_only"
  <2>1. Whole(attr, Logged)
    BY <1>3, SeenIs DEF IndexInv
  <2> QED
    BY <1>1, <2>1, WholeIsFaithful
<1> QED
  BY <1>2, <1>3

\* Views made anew are as good as any.
LEMMA NewViews ==
    ASSUME DerivedTypes, AllAtRest', UNCHANGED episodes, DerivedTypes',
           \A v \in Views : views'[v].wm = LastLsn /\ Whole(views'[v], Logged)
    PROVE  ViewsInv'
<1>1. Logged' = Logged /\ LastLsn' = LastLsn /\ LogHead' = LogHead
  BY SameLog
<1>2. SeenByViews' = Logged
  <2>1. (DerivedTypes => (AllAtRest => SeenByViews = Logged))'
    BY SeenIs, PTL
  <2> QED
    BY <1>1, <2>1
<1>3. \A v \in Views : views'[v].wm > 0 => Faithful(views'[v])
  <2> SUFFICES ASSUME NEW v \in Views, views'[v].wm > 0 PROVE Faithful(views'[v])
    OBVIOUS
  <2>1. views'[v].wm \in Int /\ views'[v].wm < LogHead /\ Whole(views'[v], Logged)
    BY LogIs
  <2> QED
    BY <2>1, WholeIsFaithful
<1> QED
  BY <1>1, <1>2, <1>3, LogIs DEF ViewsInv
LEMMA ViewsSame ==
    ASSUME ViewsInv, process' # "down" => process # "down", mode' = mode, unmaterialized' = unmaterialized,
           LastLsn <= LastLsn', LastLsn \in Nat, LastLsn' \in Nat, DerivedTypes,
           mode = "log_only" \/ SeenByViews' = SeenByViews,
           \A v \in Views : views'[v].has = views[v].has /\ views'[v].wm = views[v].wm
    PROVE  ViewsInv'
<1> SUFFICES ASSUME process' # "down", ~unmaterialized', NEW v \in Views
             PROVE  /\ views'[v].wm <= LastLsn'
                    /\ IF mode' = "log_only" THEN views'[v].wm > 0 => Faithful(views'[v])
                                             ELSE Whole(views'[v], SeenByViews')
  BY DEF ViewsInv
<1>1. /\ views[v].wm <= LastLsn /\ views[v].wm \in Nat
      /\ IF mode = "log_only" THEN views[v].wm > 0 => Faithful(views[v])
                              ELSE Whole(views[v], SeenByViews)
  BY DEF ViewsInv, DerivedTypes, ViewTypes
<1>2. (\A ls : Whole(views'[v], ls) <=> Whole(views[v], ls)) /\ (Faithful(views'[v]) <=> Faithful(views[v]))
  BY SameWhole
<1> QED
  BY <1>1, <1>2

\* One more episode applied to every view, outside LOG_ONLY.
LEMMA ViewsApply ==
    ASSUME DerivedTypes, ViewsInv, process # "down", mode # "log_only", UNCHANGED <<mode, unmaterialized>>,
           NEW lsn \in Lsns, lsn \notin SeenByViews, NEW seen \in {"clear", "blank"},
           SeenByViews' = SeenByViews \cup {lsn}, LastLsn' \in Nat, LastLsn <= LastLsn', lsn <= LastLsn',
           views' = [v \in Views |-> ViewApplied(views[v], lsn, seen)]
    PROVE  ViewsInv'
<1> SUFFICES ASSUME ~unmaterialized, NEW v \in Views
             PROVE  views'[v].wm <= LastLsn' /\ Whole(views'[v], SeenByViews')
  BY DEF ViewsInv
<1>1. views[v] \in ViewTypes /\ views[v].wm <= LastLsn /\ Whole(views[v], SeenByViews) /\ views[v].wm \in Nat
  BY DEF ViewsInv, DerivedTypes, ViewTypes
<1>2. lsn \in Nat /\ SeenByViews \in SUBSET Lsns /\ LastLsn \in Nat
  BY LogIs, SeenIs
<1>3. Whole(ViewApplied(views[v], lsn, seen), SeenByViews')
  BY <1>1, <1>2, AppliedWhole
<1>4. ViewApplied(views[v], lsn, seen).wm <= LastLsn'
  <2>1. lsn \in Nat
    BY <1>2
  <2>2. views[v] \in ViewTypes
    BY <1>1
  <2>3. /\ ViewApplied(views[v], lsn, seen).wm = lsn \/ ViewApplied(views[v], lsn, seen).wm = views[v].wm
        /\ LastLsn' \in Nat
    BY <2>1, <2>2, AppliedWatermark
  <2>4. views[v].wm <= LastLsn'
    BY <1>1, <1>2, <2>3
  <2> QED
    BY <2>3, <2>4
<1> QED
  BY <1>3, <1>4

LEMMA ViewsKeep ==
    ASSUME ~Replicated, DerivedTypes, HeldInv, SealInv, ViewsInv, FilesInv, AheadInv,
           DerivedTypes', HeldInv', [DerivedNext]_derivedVars
    PROVE  ViewsInv'
<1>0. LastLsn \in Nat /\ LastLsn' \in Nat
  <2>1. (DerivedTypes => LastLsn \in Nat)'
    BY LogIs, PTL
  <2> QED
    BY <2>1, LogIs
<1>1. ASSUME NEW a \in Appenders, NEW kind \in Kinds, AppendLogs(a, kind) PROVE ViewsInv'
  <2>1. /\ Logs(kind) /\ UNCHANGED <<views, unmaterialized, process, mode>> /\ kind \in {"subject", "hold", "other"}
    BY <1>1, DerivedAssumption DEF AppendLogs, ram
  <2>2. LogHead' = LogHead + 1 /\ LogHead \in Nat
    BY <2>1, LogGrows, LogIs
  <2>3. LastLsn <= LastLsn'
    BY <2>2 DEF LastLsn
  <2> QED
    BY <1>0, <1>1, <2>1, <2>3, SeenLogs, ViewsSame
<1>2. ASSUME NEW a \in Appenders, AppendAppliesViews(a) PROVE ViewsInv'
  <2> DEFINE lsn == appender[a].lsn
  <2>1. /\ appender[a].at = "views" /\ UNCHANGED <<episodes, unmaterialized, mode>>
        /\ views' = [v \in Views |-> ViewApplied(views[v], lsn, InHand(lsn))]
    BY <1>2 DEF AppendAppliesViews, disk
  <2>2. process = "up" /\ mode # "log_only"
    BY <2>1 DEF HeldInv, AllAtRest, AtRest
  <2>3. SeenByViews' = SeenByViews \cup {lsn} /\ lsn \in Logged /\ lsn \notin SeenByViews
    BY <1>2, SeenAppliesViews
  <2>4. InHand(lsn) \in {"clear", "blank"}
    BY InHandIs
  <2>5. LastLsn' = LastLsn /\ lsn <= LastLsn /\ lsn \in Lsns
    BY <2>1, <2>3, SameLog, LogIs
  <2> HIDE DEF lsn
  <2>6. LastLsn <= LastLsn' /\ lsn <= LastLsn'
    BY <1>0, <2>5
  <2> QED
    BY <1>0, <2>1, <2>2, <2>3, <2>4, <2>5, <2>6, ViewsApply
<1>3. ASSUME NEW a \in Appenders, AppendAppliesAttr(a) PROVE ViewsInv'
  <2>1. UNCHANGED <<episodes, views, unmaterialized, process, mode>>
    BY <1>3 DEF AppendAppliesAttr, disk
  <2> QED
    BY <1>0, <1>3, <2>1, SeenAppliesAttr, SameLog, ViewsSame
<1>4. ASSUME NEW v \in Views, CheckpointView(v) \/ ShredCheckpoints(v) PROVE ViewsInv'
  <2>1. /\ views' = [views EXCEPT ![v].clean = TRUE]
        /\ UNCHANGED <<episodes, appender, unmaterialized, process, mode>>
    BY <1>4 DEF CheckpointView, ShredCheckpoints
  <2>2. \A w \in Views : views'[w].has = views[w].has /\ views'[w].wm = views[w].wm
    BY <2>1 DEF DerivedTypes, ViewTypes
  <2> QED
    BY <1>0, <2>1, <2>2, SeenSame, SameLog, ViewsSame
<1>5. ASSUME NEW which \in SUBSET Views, Rebuild(which) PROVE ViewsInv'
  <2>1. /\ views' = [v \in Views |-> IF v \in which THEN Rebuilt ELSE [views[v] EXCEPT !.clean = FALSE]]
        /\ unmaterialized' = (unmaterialized /\ which # Views)
        /\ UNCHANGED <<episodes, appender, process, mode>> /\ process = "up" /\ GateFree
    BY <1>5 DEF Rebuild, disk
  <2>2. AllAtRest /\ AllAtRest'
    BY <2>1, GateIsFree DEF AllAtRest, AtRest
  <2>3. CASE which = Views
    <3>1. \A v \in Views : views'[v].wm = LastLsn /\ Whole(views'[v], Logged)
      BY <2>1, <2>3, RebuiltIs
    <3> QED
      BY <2>1, <2>2, <3>1, NewViews
  <2>4. CASE which # Views /\ unmaterialized
    BY <2>1, <2>4 DEF ViewsInv
  <2>5. CASE which # Views /\ ~unmaterialized
    <3>1. ASSUME NEW v \in Views, v \notin which
          PROVE  views'[v].has = views[v].has /\ views'[v].wm = views[v].wm
      BY <2>1, <3>1 DEF DerivedTypes, ViewTypes
    <3>2. ASSUME NEW v \in Views, v \in which
          PROVE  /\ views'[v].wm = LastLsn /\ Whole(views'[v], Logged)
                 /\ views'[v].wm > 0 => Faithful(views'[v])
      <4>1. views'[v] = Rebuilt /\ Rebuilt.wm = LastLsn /\ Whole(Rebuilt, Logged)
        BY <2>1, <3>2, RebuiltIs
      <4>2. Rebuilt.wm > 0 => Faithful(Rebuilt)
        <5>1. Rebuilt.wm > 0 => Rebuilt.wm \in Int /\ Rebuilt.wm < LogHead
          BY <4>1, LogIs
        <5> QED
          BY <4>1, <5>1, WholeIsFaithful
      <4> QED
        BY <4>1, <4>2
    <3>3. LastLsn' = LastLsn /\ SeenByViews' = Logged /\ SeenByViews = Logged
      BY <2>1, <2>2, SameLog, SeenSame, SeenIs
    <3>4. ASSUME NEW v \in Views
          PROVE  /\ views'[v].wm <= LastLsn'
                 /\ IF mode' = "log_only" THEN views'[v].wm > 0 => Faithful(views'[v])
                                          ELSE Whole(views'[v], SeenByViews')
      <4>1. CASE v \in which
        BY <1>0, <3>2, <3>3, <4>1
      <4>2. CASE v \notin which
        <5>1. (\A ls : Whole(views'[v], ls) <=> Whole(views[v], ls)) /\ (Faithful(views'[v]) <=> Faithful(views[v]))
          BY <3>1, <4>2, SameWhole
        <5>2. /\ views[v].wm <= LastLsn
              /\ IF mode = "log_only" THEN views[v].wm > 0 => Faithful(views[v])
                                      ELSE Whole(views[v], SeenByViews)
          BY <2>1, <2>5 DEF ViewsInv
        <5> QED
          BY <2>1, <3>1, <3>3, <4>2, <5>1, <5>2
      <4> QED
        BY <4>1, <4>2
    <3> QED
      BY <3>4 DEF ViewsInv
  <2> QED
    BY <2>3, <2>4, <2>5
<1>6. CASE ShredRebuildsViews
  <2>1. /\ views' = [v \in Views |-> Rebuilt] /\ UNCHANGED <<episodes, appender>> /\ shred.at = "views"
    BY <1>6 DEF ShredRebuildsViews, disk
  <2>2. AllAtRest'
    BY <2>1 DEF HeldInv, Exclusive, AllAtRest, AtRest
  <2> QED
    BY <2>1, <2>2, RebuiltIs, NewViews
<1>7. CASE ShredReceipt
  <2>1. /\ Logs("other") /\ UNCHANGED <<appender, unmaterialized, process, mode>> /\ shred.at = "receipt"
        /\ IF mode = "log_only" THEN UNCHANGED views
           ELSE views' = [v \in Views |-> ViewApplied(views[v], LogHead, "blank")]
    BY <1>7 DEF ShredReceipt
  <2>2. LogHead' = LogHead + 1 /\ LogHead \in Lsns /\ LogHead \in Nat
    BY <2>1, LogGrows, LogIs
  <2>3. LastLsn <= LastLsn' /\ LogHead <= LastLsn'
    BY <2>2 DEF LastLsn
  <2>4. process = "up"
    BY <2>1 DEF HeldInv, NoShred
  <2>5. CASE mode = "log_only"
    BY <1>0, <2>1, <2>3, <2>5, ViewsSame
  <2>6. CASE mode # "log_only"
    <3>1. SeenByViews' = SeenByViews \cup {LogHead} /\ LogHead \notin SeenByViews
      BY <2>1, SeenReceipt
    <3> QED
      BY <1>0, <2>1, <2>2, <2>3, <2>4, <2>6, <3>1, ViewsApply
  <2> QED
    BY <2>5, <2>6
<1>8. CASE Stop
  BY <1>8 DEF Stop, ViewsInv
<1>9. ASSUME NEW m \in BootModes, BootViews(m) PROVE ViewsInv'
  <2>1. /\ process = "down" /\ process' = "attr" /\ UNCHANGED episodes
        /\ \/ views' = [v \in Views |-> [Rebuilt EXCEPT !.clean = TRUE]]
           \/ unmaterialized'
           \/ views' = [v \in Views |-> CaughtUp(snapshots[v])]
    BY <1>9 DEF BootViews
  <2>2. AllAtRest'
    BY <2>1 DEF HeldInv
  <2>3. CASE unmaterialized'
    BY <2>3 DEF ViewsInv
  <2>4. CASE views' = [v \in Views |-> [Rebuilt EXCEPT !.clean = TRUE]]
    <3> DEFINE new == [Rebuilt EXCEPT !.clean = TRUE]
    <3>1. new.has = Rebuilt.has /\ new.wm = Rebuilt.wm
      BY RebuiltIs DEF ViewTypes
    <3>2. new.wm = LastLsn /\ Whole(new, Logged)
      <4> HIDE DEF new
      <4> QED
        BY <3>1, RebuiltIs, SameWhole
    <3> QED
      BY <2>1, <2>2, <2>4, <3>2, NewViews
  <2>5. CASE views' = [v \in Views |-> CaughtUp(snapshots[v])]
    <3>1. \A v \in Views : CaughtUp(snapshots[v]).wm = LastLsn /\ Whole(CaughtUp(snapshots[v]), Logged)
      BY CaughtUpIs DEF DerivedTypes, FilesInv, AheadInv
    <3> QED
      BY <2>1, <2>2, <2>5, <3>1, NewViews
  <2> QED
    BY <2>1, <2>3, <2>4, <2>5
<1>10. CASE BootAttr \/ BootUnflags
  <2>1. process # "down" /\ UNCHANGED <<episodes, appender, views, unmaterialized, mode>>
    BY <1>10 DEF BootAttr, BootUnflags, ram
  <2> QED
    BY <1>0, <2>1, SeenSame, SameLog, ViewsSame
<1>11. CASE UNCHANGED <<episodes, appender, views, unmaterialized, mode, process>>
  BY <1>0, <1>11, SeenSame, SameLog, ViewsSame
<1> QED
  <2>1. CASE ShredStep
    BY <2>1, <1>4, <1>6, <1>7, <1>11 DEF ShredStep, ShredMarks, ShredChecks, ShredFlags, ShredDestroys,
       ShredSavesAttr, ShredInstallsAttr, ShredUnflags, disk, ram
  <2>2. CASE Rebuild(Views) \/ \E v \in Views : Rebuild({v})
    BY <2>2, <1>5
  <2> QED
    BY <2>1, <2>2, <1>1, <1>2, <1>3, <1>4, <1>8, <1>9, <1>10, <1>11 DEF DerivedNext, CheckpointAttr, AttrSaved,
       derivedVars, disk, ram
-----------------------------------------------------------------------------
(* The index *)

LEMMA NextIs ==
    ASSUME DerivedTypes'
    PROVE  /\ LastLsn' \in Nat /\ LogHead' \in Nat
           /\ AllAtRest' => SeenByIndex' = Logged'
<1>1. (DerivedTypes => /\ LastLsn \in Nat /\ LogHead \in Nat
                       /\ AllAtRest => SeenByIndex = Logged)'
  BY LogIs, SeenIs, PTL
<1> QED
  BY <1>1

LEMMA IndexSame ==
    ASSUME DerivedTypes, IndexInv, process' # "down" => process # "down",
           UNCHANGED <<mode, attrIncomplete>>, LogHead <= LogHead', LogHead' \in Nat,
           mode = "log_only" \/ SeenByIndex' = SeenByIndex,
           attr'.has = attr.has, attr'.wm = attr.wm
    PROVE  IndexInv'
<1> SUFFICES ASSUME process' # "down", ~attrIncomplete'
             PROVE  /\ attr'.wm < LogHead'
                    /\ IF mode' = "log_only" THEN Faithful(attr') ELSE Whole(attr', SeenByIndex')
  BY DEF IndexInv
<1>1. /\ attr.wm < LogHead /\ attr.wm \in Int /\ LogHead \in Nat
      /\ IF mode = "log_only" THEN Faithful(attr) ELSE Whole(attr, SeenByIndex)
  BY LogIs DEF IndexInv, DerivedTypes, IndexTypes
<1>2. (\A ls : Whole(attr', ls) <=> Whole(attr, ls)) /\ (Faithful(attr') <=> Faithful(attr))
  BY SameWhole
<1> QED
  BY <1>1, <1>2

LEMMA IndexApply ==
    ASSUME DerivedTypes, IndexInv, process # "down", mode # "log_only", UNCHANGED <<mode, attrIncomplete>>,
           NEW lsn \in Lsns, lsn \notin SeenByIndex, NEW seen \in {"clear", "blank"},
           SeenByIndex' = SeenByIndex \cup {lsn}, LogHead' \in Nat, LogHead <= LogHead', lsn < LogHead',
           attr' = Indexed(attr, lsn, seen)
    PROVE  IndexInv'
<1> SUFFICES ASSUME ~attrIncomplete PROVE attr'.wm < LogHead' /\ Whole(attr', SeenByIndex')
  BY DEF IndexInv
<1>1. attr \in IndexTypes /\ attr.wm < LogHead /\ Whole(attr, SeenByIndex) /\ attr.wm \in Int
  BY DEF IndexInv, DerivedTypes, IndexTypes
<1>2. lsn \in Nat /\ SeenByIndex \in SUBSET Lsns /\ LogHead \in Nat
  BY LogIs, SeenIs
<1>3. Whole(Indexed(attr, lsn, seen), SeenByIndex')
  BY <1>1, <1>2, AppliedWhole
<1>4. Indexed(attr, lsn, seen).wm < LogHead'
  <2>1. lsn \in Nat
    BY <1>2
  <2>2. Indexed(attr, lsn, seen).wm = lsn \/ Indexed(attr, lsn, seen).wm = attr.wm
    BY <1>1, <2>1, AppliedWatermark
  <2>3. attr.wm < LogHead'
    BY <1>1, <1>2
  <2> QED
    BY <2>2, <2>3
<1> QED
  BY <1>3, <1>4

\* An index made anew is as good as any.
LEMMA NewIndex ==
    ASSUME DerivedTypes, DerivedTypes', AllAtRest', UNCHANGED episodes,
           attr'.wm = LogHead - 1, Whole(attr', Logged)
    PROVE  IndexInv'
<1>1. Logged' = Logged /\ LogHead' = LogHead /\ LogHead \in Nat
  BY SameLog, LogIs
<1>2. SeenByIndex' = Logged
  BY <1>1, NextIs
<1>3. Faithful(attr')
  <2>1. attr'.wm \in Int /\ attr'.wm < LogHead
    BY <1>1
  <2> QED
    BY <2>1, WholeIsFaithful
<1> QED
  BY <1>1, <1>2, <1>3 DEF IndexInv

LEMMA IndexKeeps ==
    ASSUME ~Replicated, DerivedTypes, HeldInv, SealInv, IndexInv, FilesInv, AheadInv,
           DerivedTypes', HeldInv', [DerivedNext]_derivedVars
    PROVE  IndexInv'
<1>0. LogHead \in Nat /\ LogHead' \in Nat
  BY LogIs, NextIs
<1>1. ASSUME NEW a \in Appenders, NEW kind \in Kinds, AppendLogs(a, kind) PROVE IndexInv'
  <2>1. Logs(kind) /\ UNCHANGED <<attr, attrIncomplete, process, mode>> /\ kind \in {"subject", "hold", "other"}
    BY <1>1, DerivedAssumption DEF AppendLogs, ram
  <2>2. LogHead <= LogHead'
    BY <1>0, <2>1, LogGrows
  <2> QED
    BY <1>0, <1>1, <2>1, <2>2, SeenLogs, IndexSame
<1>2. ASSUME NEW a \in Appenders, AppendAppliesViews(a) PROVE IndexInv'
  <2>1. UNCHANGED <<episodes, attr, attrIncomplete, process, mode>>
    BY <1>2 DEF AppendAppliesViews, disk
  <2> QED
    BY <1>0, <1>2, <2>1, SeenAppliesViews, SameLog, IndexSame
<1>3. ASSUME NEW a \in Appenders, AppendAppliesAttr(a) PROVE IndexInv'
  <2> DEFINE lsn == appender[a].lsn
  <2>1. /\ appender[a].at = "attr" /\ UNCHANGED <<episodes, attrIncomplete, mode>>
        /\ attr' = Indexed(attr, lsn, InHand(lsn))
    BY <1>3 DEF AppendAppliesAttr, disk
  <2>2. process = "up" /\ mode # "log_only"
    BY <2>1 DEF HeldInv, AllAtRest, AtRest
  <2>3. SeenByIndex' = SeenByIndex \cup {lsn} /\ lsn \in Logged /\ lsn \notin SeenByIndex
    BY <1>3, SeenAppliesAttr
  <2>4. InHand(lsn) \in {"clear", "blank"}
    BY InHandIs
  <2>5. LogHead' = LogHead /\ lsn < LogHead /\ lsn \in Lsns
    BY <2>1, <2>3, SameLog, LogIs
  <2> HIDE DEF lsn
  <2>6. LogHead <= LogHead' /\ lsn < LogHead'
    BY <1>0, <2>5
  <2> QED
    BY <1>0, <2>1, <2>2, <2>3, <2>4, <2>5, <2>6, IndexApply
<1>4. CASE ShredInstallsAttr
  <2>1. /\ attr' = [RebuiltAttr EXCEPT !.dirty = FALSE] /\ UNCHANGED <<episodes, appender>>
        /\ shred.at = "install"
    BY <1>4 DEF ShredInstallsAttr, disk
  <2>2. AllAtRest'
    BY <2>1 DEF HeldInv, Exclusive, AllAtRest, AtRest
  <2>3. attr'.has = RebuiltAttr.has /\ attr'.wm = RebuiltAttr.wm
    BY <2>1, RebuiltIs DEF IndexTypes
  <2>4. attr'.wm = LogHead - 1 /\ Whole(attr', Logged)
    BY <2>3, RebuiltIs, SameWhole
  <2> QED
    BY <2>1, <2>2, <2>4, NewIndex
<1>5. CASE ShredReceipt
  <2>1. /\ Logs("other") /\ UNCHANGED <<appender, attrIncomplete, process, mode>> /\ shred.at = "receipt"
        /\ IF mode = "log_only" THEN UNCHANGED attr ELSE attr' = Indexed(attr, LogHead, "blank")
    BY <1>5 DEF ShredReceipt
  <2>2. LogHead' = LogHead + 1 /\ LogHead \in Lsns
    BY <2>1, LogGrows
  <2>3. LogHead <= LogHead' /\ LogHead < LogHead'
    BY <1>0, <2>2
  <2>4. process = "up"
    BY <2>1 DEF HeldInv, NoShred
  <2>5. CASE mode = "log_only"
    BY <1>0, <2>1, <2>3, <2>5, IndexSame
  <2>6. CASE mode # "log_only"
    <3>1. SeenByIndex' = SeenByIndex \cup {LogHead} /\ LogHead \notin SeenByIndex
      BY <2>1, SeenReceipt
    <3> QED
      BY <1>0, <2>1, <2>2, <2>3, <2>4, <2>6, <3>1, IndexApply
  <2> QED
    BY <2>5, <2>6
<1>6. CASE Stop
  BY <1>6 DEF Stop, IndexInv
<1>7. ASSUME NEW m \in BootModes, BootViews(m) PROVE IndexInv'
  <2>1. /\ process = "down" /\ UNCHANGED episodes /\ attrIncomplete' = (m # "normal")
        /\ m = "normal" => attr' = RebuiltAttr \/ attr' = AttrCaughtUp
    BY <1>7 DEF BootViews
  <2>2. AllAtRest'
    BY <1>7, <2>1 DEF HeldInv, BootViews, AllAtRest, AtRest
  <2>3. CASE m = "normal"
    <3>1. /\ RebuiltAttr.wm = LogHead - 1 /\ Whole(RebuiltAttr, Logged)
          /\ AttrCaughtUp.wm = LogHead - 1 /\ Whole(AttrCaughtUp, Logged)
      BY RebuiltIs, AttrCaughtUpIs DEF FilesInv, AheadInv
    <3> QED
      BY <2>1, <2>2, <2>3, <3>1, NewIndex
  <2>4. CASE m # "normal"
    BY <2>1, <2>4 DEF IndexInv
  <2> QED
    BY <2>3, <2>4
<1>8. CASE AttrSaved \/ BootAttr
  <2>1. /\ UNCHANGED <<episodes, appender, attrIncomplete, mode>> /\ attr' = [attr EXCEPT !.dirty = FALSE]
        /\ process' # "down" => process # "down"
    BY <1>8 DEF AttrSaved, BootAttr
  <2>2. attr'.has = attr.has /\ attr'.wm = attr.wm
    BY <2>1 DEF DerivedTypes, IndexTypes
  <2> QED
    BY <1>0, <2>1, <2>2, SeenSame, SameLog, IndexSame
<1>9. CASE UNCHANGED <<episodes, appender, attr, attrIncomplete, mode>> /\ (process' # "down" => process # "down")
  BY <1>0, <1>9, SeenSame, SameLog, IndexSame
<1> QED
  <2>1. CASE ShredStep
    BY <2>1, <1>4, <1>5, <1>9 DEF ShredStep, ShredMarks, ShredChecks, ShredFlags, ShredDestroys,
       ShredRebuildsViews, ShredCheckpoints, ShredSavesAttr, ShredUnflags, disk, ram
  <2> QED
    BY <2>1, <1>1, <1>2, <1>3, <1>6, <1>7, <1>8, <1>9 DEF DerivedNext, CheckpointAttr, CheckpointView, Rebuild,
       BootUnflags, derivedVars, disk, ram
-----------------------------------------------------------------------------
(* The snapshots *)

LEMMA LogGoesOn ==
    ASSUME DerivedTypes, SealInv, [DerivedNext]_derivedVars
    PROVE  LogHead \in Nat /\ (LogHead' = LogHead \/ LogHead' = LogHead + 1)
           /\ LogHead <= LogHead' /\ LogHead' \in Nat
<1>1. LogHead \in Nat
  BY LogIs
<1>2. ASSUME NEW kind \in {"subject", "hold", "other"}, Logs(kind) PROVE LogHead' = LogHead + 1
  BY <1>2, LogGrows
<1>3. LogHead' = LogHead \/ LogHead' = LogHead + 1
  <2>1. CASE ShredReceipt
    <3>1. Logs("other")
      BY <2>1 DEF ShredReceipt
    <3> QED
      BY <1>2, <3>1
  <2>2. ASSUME NEW a \in Appenders, NEW kind \in Kinds, AppendLogs(a, kind) PROVE LogHead' = LogHead + 1
    <3>1. Logs(kind) /\ kind \in {"subject", "hold", "other"}
      BY <2>2, DerivedAssumption DEF AppendLogs
    <3> QED
      BY <1>2, <3>1
  <2>3. CASE UNCHANGED episodes
    BY <2>3 DEF LogHead
  <2> QED
    BY <2>1, <2>2, <2>3 DEF DerivedNext, AppendAppliesViews, AppendAppliesAttr, CheckpointView, Rebuild,
       CheckpointAttr, AttrSaved, Stop, BootViews, BootAttr, BootUnflags, derivedVars, disk, ShredStep,
       ShredMarks, ShredChecks, ShredFlags, ShredDestroys, ShredRebuildsViews, ShredCheckpoints,
       ShredSavesAttr, ShredInstallsAttr, ShredUnflags
<1> QED
  BY <1>1, <1>3

\* What was fit to be saved before a step still is after it.
LEMMA FilesFrom ==
    ASSUME DerivedTypes, DerivedTypes', LogHead <= LogHead', LogHead \in Nat, LogHead' \in Nat,
           Saved(attrFile'), Saved(saving'), process' = "attr" => Saved(attr'),
           \A v \in Views : snapshots'[v].wm > 0 => Saved(snapshots'[v]),
           shred'.at = "snapshots" => ~unmaterialized'
    PROVE  FilesInv'
<1>1. /\ attrFile'.wm \in Int /\ saving'.wm \in Int /\ attr'.wm \in Int
      /\ \A v \in Views : snapshots'[v].wm \in Int
  BY DEF DerivedTypes, FileTypes, IndexTypes
<1> QED
  BY <1>1 DEF FilesInv, Saved, Faithful

\* While it boots a node does nothing else.
LEMMA BootsAlone ==
    ASSUME DerivedTypes, SealInv, HeldInv, process # "up", [DerivedNext]_derivedVars
    PROVE  \/ Stop \/ (\E m \in BootModes : BootViews(m)) \/ BootAttr \/ BootUnflags
           \/ UNCHANGED derivedVars
<1>1. AllAtRest /\ shred.at = "idle" /\ saving = NoFile
  BY DEF HeldInv, NoShred
<1> QED
  BY <1>1 DEF DerivedNext, AppendLogs, AppendAppliesViews, AppendAppliesAttr, CheckpointView, Rebuild,
     CheckpointAttr, AttrSaved, ShredStep, ShredMarks, ShredChecks, ShredFlags, ShredDestroys,
     ShredRebuildsViews, ShredCheckpoints, ShredSavesAttr, ShredInstallsAttr, ShredReceipt, ShredUnflags,
     AllAtRest, AtRest

\* Where each step of a shred leaves it.
LEMMA ShredStages ==
    ASSUME DerivedTypes
    PROVE  /\ ShredMarks => shred.at = "idle" /\ shred'.at = "check"
           /\ ShredChecks => shred.at = "check" /\ shred'.at \in {"idle", "flag"}
           /\ ShredFlags => shred.at = "flag" /\ shred'.at = "destroy"
           /\ ShredDestroys => shred.at = "destroy"
                               /\ shred'.at = IF key.alive \/ shred.pending THEN "views" ELSE "idle"
           /\ ShredRebuildsViews => shred.at = "views" /\ shred'.at = "snapshots" /\ shred'.left = Views
           /\ \A v \in Views : ShredCheckpoints(v) =>
                 /\ shred.at = "snapshots" /\ shred'.left = shred.left \ {v}
                 /\ shred'.at = IF shred.left = {v} THEN "save" ELSE "snapshots"
           /\ ShredSavesAttr => shred.at = "save" /\ shred'.at = "install"
           /\ ShredInstallsAttr => shred.at = "install" /\ shred'.at = "receipt"
           /\ ShredReceipt => shred.at = "receipt" /\ shred'.at = "unflag"
           /\ ShredUnflags => shred.at = "unflag" /\ shred'.at = "idle"
<1>0. shred \in ShredTypes /\ NoShred \in ShredTypes /\ NoShred.at = "idle"
  BY ShredMoves DEF DerivedTypes
<1>1. ShredMarks => shred.at = "idle" /\ shred'.at = "check"
  <2>1. \A x, y : [NoShred EXCEPT !.at = x, !.newMark = y].at = x
    BY DEF NoShred
  <2> QED
    BY <2>1 DEF ShredMarks
<1>2. ShredChecks => shred.at = "check" /\ shred'.at \in {"idle", "flag"}
  <2>1. \A x, y : [shred EXCEPT !.at = x, !.erased = y].at = x
    BY <1>0 DEF ShredTypes
  <2> QED
    BY <1>0, <2>1 DEF ShredChecks
<1>3. ShredFlags => shred.at = "flag" /\ shred'.at = "destroy"
  BY <1>0 DEF ShredFlags, ShredTypes
<1>4. ShredDestroys => shred.at = "destroy" /\ shred'.at = IF key.alive \/ shred.pending THEN "views" ELSE "idle"
  BY <1>0 DEF ShredDestroys, Then, ShredTypes
<1>5. ShredRebuildsViews => shred.at = "views" /\ shred'.at = "snapshots" /\ shred'.left = Views
  BY <1>0 DEF ShredRebuildsViews, ShredTypes
<1>6. ASSUME NEW v \in Views, ShredCheckpoints(v)
      PROVE  /\ shred.at = "snapshots" /\ shred'.left = shred.left \ {v}
             /\ shred'.at = IF shred.left = {v} THEN "save" ELSE "snapshots"
  BY <1>0, <1>6 DEF ShredCheckpoints, ShredTypes
<1>7. /\ ShredSavesAttr => shred.at = "save" /\ shred'.at = "install"
      /\ ShredInstallsAttr => shred.at = "install" /\ shred'.at = "receipt"
      /\ ShredReceipt => shred.at = "receipt" /\ shred'.at = "unflag"
  BY <1>0 DEF ShredSavesAttr, ShredInstallsAttr, ShredReceipt, Then, ShredTypes
<1>8. ShredUnflags => shred.at = "unflag" /\ shred'.at = "idle"
  BY <1>0 DEF ShredUnflags
<1> QED
  BY <1>1, <1>2, <1>3, <1>4, <1>5, <1>6, <1>7, <1>8

LEMMA FilesKeep ==
    ASSUME ~Replicated, DerivedTypes, HeldInv, SealInv, ViewsInv, IndexInv, FilesInv, AheadInv,
           DerivedTypes', HeldInv', [DerivedNext]_derivedVars
    PROVE  FilesInv'
<1>0. LogHead \in Nat /\ LogHead' \in Nat /\ LogHead <= LogHead'
  BY LogGoesOn
<1>1. /\ Saved(attrFile) /\ Saved(saving) /\ (process = "attr" => Saved(attr))
      /\ \A v \in Views : snapshots[v].wm > 0 => Saved(snapshots[v])
      /\ shred.at = "snapshots" => ~unmaterialized
  BY DEF FilesInv
<1>2. NoFile.wm = -1 /\ Saved(NoFile)
  <2>1. Faithful(NoFile) /\ NoFile.wm = -1
    BY NothingSeenIs
  <2> QED
    BY <1>0, <2>1 DEF Saved
<1>3. ASSUME UNCHANGED <<snapshots, attrFile>>, saving' \in {saving, NoFile}, process' # "attr",
             shred'.at = "snapshots" => ~unmaterialized'
      PROVE  FilesInv'
  BY <1>0, <1>1, <1>2, <1>3, FilesFrom
<1>4. CASE CheckpointAttr
  <2>1. /\ process = "up" /\ GateFree /\ ~attrIncomplete /\ saving' = AsFile(attr)
        /\ UNCHANGED <<snapshots, attrFile, process, unmaterialized, shred>>
    BY <1>4 DEF CheckpointAttr, disk, ram
  <2>2. Saved(attr)
    BY <2>1, GateIsFree, IndexIsSaved
  <2>3. Saved(saving')
    BY <2>1, <2>2, AsFileIs
  <2> QED
    BY <1>0, <1>1, <2>1, <2>3, FilesFrom
<1>5. CASE AttrSaved
  <2>1. /\ attrFile' = saving /\ saving' = NoFile /\ saving # NoFile
        /\ UNCHANGED <<snapshots, process, unmaterialized, shred>>
    BY <1>5 DEF AttrSaved
  <2>2. process' # "attr"
    BY <2>1 DEF HeldInv
  <2> QED
    BY <1>0, <1>1, <1>2, <2>1, <2>2, FilesFrom
<1>6. ASSUME NEW v \in Views, CheckpointView(v) \/ ShredCheckpoints(v) PROVE FilesInv'
  <2>1. /\ snapshots' = [snapshots EXCEPT ![v] = AsFile(views[v])]
        /\ UNCHANGED <<attrFile, saving, process, unmaterialized>>
        /\ shred'.at = "snapshots" => shred.at = "snapshots"
        /\ GateFree \/ shred.at = "snapshots"
        /\ ~unmaterialized
    BY <1>1, <1>6 DEF CheckpointView, ShredCheckpoints, DerivedTypes, ShredTypes
  <2>2. AllAtRest /\ process = "up"
    <3>1. AllAtRest
      BY <2>1, GateIsFree DEF HeldInv, Exclusive
    <3>2. process = "up"
      BY <1>6 DEF CheckpointView, ShredCheckpoints, HeldInv, NoShred
    <3> QED
      BY <3>1, <3>2
  <2>3. views[v].wm > 0 => Saved(views[v])
    BY <2>1, <2>2, ViewsAreSaved
  <2>4. AsFile(views[v]).wm > 0 => Saved(AsFile(views[v]))
    BY <2>3, AsFileIs
  <2>5. \A w \in Views : snapshots'[w] = IF w = v THEN AsFile(views[v]) ELSE snapshots[w]
    BY <2>1 DEF DerivedTypes
  <2>6. \A w \in Views : snapshots'[w].wm > 0 => Saved(snapshots'[w])
    BY <1>1, <2>4, <2>5
  <2> QED
    BY <1>0, <1>1, <2>1, <2>2, <2>6, FilesFrom
<1>7. ASSUME NEW which \in SUBSET Views, Rebuild(which) PROVE FilesInv'
  BY <1>1, <1>3, <1>7 DEF Rebuild, disk
<1>8. CASE ShredRebuildsViews
  <2>1. process # "attr"
    BY <1>8 DEF ShredRebuildsViews, HeldInv, NoShred
  <2> QED
    BY <1>3, <1>8, <2>1 DEF ShredRebuildsViews, disk
<1>9. CASE ShredSavesAttr
  <2>1. /\ attrFile' = AsFile(RebuiltAttr) /\ UNCHANGED <<snapshots, saving, process>> /\ shred.at = "save"
        /\ shred'.at = "install"
    BY <1>9 DEF ShredSavesAttr, Then, DerivedTypes, ShredTypes
  <2>2. Saved(attrFile')
    BY <2>1, RebuiltIs, AsFileIs
  <2>3. process' # "attr"
    BY <2>1 DEF HeldInv, NoShred
  <2> QED
    BY <1>0, <1>1, <2>1, <2>2, <2>3, FilesFrom
<1>10. CASE Stop
  BY <1>3, <1>10, ShredMoves DEF Stop, disk, NoShred
<1>11. ASSUME NEW m \in BootModes, BootViews(m) PROVE FilesInv'
  <2>1. /\ process = "down" /\ UNCHANGED <<attrFile, saving, shred>> /\ shred.at = "idle"
        /\ \/ /\ snapshots' = [v \in Views |-> AsFile(Rebuilt)]
              /\ attr' = RebuiltAttr \/ attr' = EmptyAttr
           \/ /\ attr' = [has |-> attrFile.has, wm |-> attrFile.wm, dirty |-> FALSE]
              /\ UNCHANGED snapshots
           \/ /\ snapshots' = [v \in Views |-> AsFile(CaughtUp(snapshots[v]))]
              /\ attr' = AttrCaughtUp
    BY <1>11 DEF BootViews, HeldInv, NoShred
  <2>2. Saved(attr')
    <3>1. Saved(EmptyAttr) /\ Saved([has |-> attrFile.has, wm |-> attrFile.wm, dirty |-> FALSE])
      <4>1. EmptyAttr.has = NoFile.has /\ EmptyAttr.wm = NoFile.wm
        BY DEF EmptyAttr, NoFile
      <4>2. \A x : x.has = NoFile.has /\ x.wm = NoFile.wm => Saved(x)
        BY <1>2, SameWhole
      <4>3. \A x : x.has = attrFile.has /\ x.wm = attrFile.wm => Saved(x)
        BY <1>1, SameWhole
      <4> QED
        BY <4>1, <4>2, <4>3
    <3>2. Saved(RebuiltAttr) /\ Saved(AttrCaughtUp)
      BY RebuiltIs, AttrCaughtUpIs DEF FilesInv, AheadInv
    <3> QED
      BY <2>1, <3>1, <3>2
  <2>3. Rebuilt.wm > 0 => Saved(AsFile(Rebuilt))
    <3>1. Rebuilt.wm > 0 => Rebuilt.wm \in Int /\ Rebuilt.wm < LogHead /\ Whole(Rebuilt, Logged)
      BY RebuiltIs, LogIs
    <3> QED
      BY <3>1, WholeIsFaithful, AsFileIs
  <2>4. ASSUME NEW v \in Views, CaughtUp(snapshots[v]).wm > 0 PROVE Saved(AsFile(CaughtUp(snapshots[v])))
    <3> DEFINE c == CaughtUp(snapshots[v])
    <3>1. c.wm = LastLsn /\ Whole(c, Logged)
      BY CaughtUpIs DEF DerivedTypes, FilesInv, AheadInv
    <3> HIDE DEF c
    <3>2. c.wm > 0 => c.wm \in Int /\ c.wm < LogHead
      BY <3>1, LogIs
    <3>3. c.wm > 0 => Saved(AsFile(c))
      BY <3>1, <3>2, WholeIsFaithful, AsFileIs
    <3> QED
      BY <2>4, <3>3 DEF c
  <2>5. \A v \in Views : snapshots'[v].wm > 0 => Saved(snapshots'[v])
    <3>1. CASE snapshots' = [v \in Views |-> AsFile(Rebuilt)]
      BY <2>3, <3>1, AsFileIs
    <3>2. CASE snapshots' = [v \in Views |-> AsFile(CaughtUp(snapshots[v]))]
      BY <2>4, <3>2, AsFileIs
    <3> QED
      BY <1>1, <2>1, <3>1, <3>2
  <2> QED
    BY <1>0, <1>1, <2>1, <2>2, <2>5, FilesFrom
<1>12. CASE BootAttr
  <2>1. /\ process = "attr" /\ process' # "attr" /\ attrFile' \in {attrFile, AsFile(attr)}
        /\ UNCHANGED <<snapshots, saving, unmaterialized, shred>>
    BY <1>12 DEF BootAttr
  <2>2. Saved(attrFile')
    BY <1>1, <2>1, AsFileIs
  <2> QED
    BY <1>0, <1>1, <2>1, <2>2, FilesFrom
<1>13. CASE BootUnflags
  BY <1>1, <1>3, <1>13 DEF BootUnflags, ram
<1>14. ASSUME UNCHANGED <<snapshots, attrFile, saving, unmaterialized, process>>, process # "attr",
              shred'.at = "snapshots" => shred.at = "snapshots"
       PROVE  FilesInv'
  BY <1>1, <1>3, <1>14
<1>15. CASE UNCHANGED derivedVars
  BY <1>0, <1>1, <1>15, FilesFrom DEF derivedVars, disk, ram
<1> QED
  <2>1. CASE process # "up"
    BY <2>1, <1>10, <1>11, <1>12, <1>13, <1>15, BootsAlone
  <2>2. ASSUME process = "up", ShredStep PROVE FilesInv'
    <3>1. CASE ShredMarks \/ ShredChecks \/ ShredFlags \/ ShredDestroys \/ ShredInstallsAttr \/ ShredReceipt
               \/ ShredUnflags
      <4>1. shred'.at # "snapshots"
        BY <3>1, ShredStages
      <4> QED
        BY <2>2, <3>1, <4>1, <1>14 DEF ShredMarks, ShredChecks, ShredFlags, ShredDestroys,
           ShredInstallsAttr, ShredReceipt, ShredUnflags, disk, ram
    <3> QED
      BY <2>2, <3>1, <1>6, <1>8, <1>9 DEF ShredStep
  <2>3. CASE Rebuild(Views) \/ \E v \in Views : Rebuild({v})
    BY <2>3, <1>7
  <2> QED
    BY <2>1, <2>2, <2>3, <1>4, <1>5, <1>6, <1>10, <1>11, <1>12, <1>13, <1>14, <1>15 DEF DerivedNext, AppendLogs,
       AppendAppliesViews, AppendAppliesAttr, disk, ram
-----------------------------------------------------------------------------
(* What contents become: nothing ahead of the log, no lost record in clear *)

\* What is new in a content is of the log, and in clear only if it opens.
Extends(new, old) ==
    \A l \in Lsns : new[l] = old[l] \/ (l < LogHead' /\ (new[l] = "clear" => l \notin Lost))
Fresh(new) == NoneFrom(new, LogHead) /\ NoneClear(new, Lost)

LEMMA ExtendsIs ==
    ASSUME DerivedTypes, SealInv, [DerivedNext]_derivedVars, NEW new, NEW old
    PROVE  /\ Extends(new, old) /\ NoneFrom(old, LogHead) => NoneFrom(new, LogHead')
           /\ Extends(new, old) /\ NoneClear(old, Lost) => NoneClear(new, Lost)
           /\ Extends(new, new)
<1>1. LogHead \in Nat /\ LogHead' \in Nat /\ LogHead <= LogHead' /\ Lost \subseteq Lsns /\ Lsns \subseteq Nat
  BY LogGoesOn, LogIs DEF Lost
<1>2. Extends(new, old) /\ NoneFrom(old, LogHead) => NoneFrom(new, LogHead')
  BY <1>1 DEF Extends, NoneFrom
<1>3. Extends(new, old) /\ NoneClear(old, Lost) => NoneClear(new, Lost)
  BY <1>1 DEF Extends, NoneClear
<1>4. Extends(new, new)
  BY DEF Extends
<1> QED
  BY <1>2, <1>3, <1>4

LEMMA FreshIs ==
    ASSUME DerivedTypes
    PROVE  Fresh(NothingSeen) /\ Fresh(Rebuilt.has) /\ Fresh(RebuiltAttr.has)
<1>1. Fresh(NothingSeen)
  <2>1. Lost = Lost \cap Lsns
    BY LogIs DEF Lost
  <2> QED
    BY <2>1, NothingSeenIs DEF Fresh
<1> QED
  BY <1>1, RebuiltIs DEF Fresh

\* An episode applied to a view or to the index.
LEMMA AppliedExtends ==
    ASSUME NEW lsn \in Lsns, lsn < LogHead', NEW seen \in {"clear", "blank"},
           seen = "clear" => lsn \notin Lost
    PROVE  /\ \A v \in ViewTypes : Extends(ViewApplied(v, lsn, seen).has, v.has)
           /\ \A x \in IndexTypes : Extends(Indexed(x, lsn, seen).has, x.has)
<1>0. lsn \in Nat
  BY DerivedAssumption DEF Lsns
<1>1. ASSUME NEW v \in ViewTypes PROVE Extends(ViewApplied(v, lsn, seen).has, v.has)
  <2>1. \A l \in Lsns : ViewApplied(v, lsn, seen).has[l] =
           IF l = lsn THEN (IF v.has[l] = "none" THEN seen ELSE "twice") ELSE v.has[l]
    BY <1>0, ViewAppliedIs
  <2> QED
    BY <2>1 DEF Extends
<1>2. ASSUME NEW x \in IndexTypes PROVE Extends(Indexed(x, lsn, seen).has, x.has)
  <2>1. \A l \in Lsns : Indexed(x, lsn, seen).has[l] =
           IF l = lsn /\ x.has[l] = "none" THEN seen ELSE x.has[l]
    BY <1>0, IndexedIs
  <2> QED
    BY <2>1 DEF Extends
<1> QED
  BY <1>1, <1>2

\* What an appender applies opens.
LEMMA AppendExtends ==
    ASSUME DerivedTypes, HeldInv, SealInv, NEW a \in Appenders
    PROVE  /\ AppendAppliesViews(a) => \A v \in Views : Extends(views'[v].has, views[v].has)
           /\ AppendAppliesAttr(a) => Extends(attr'.has, attr.has)
<1>1. ASSUME ~AtRest(a), UNCHANGED episodes
      PROVE  /\ appender[a].lsn \in Lsns /\ appender[a].lsn < LogHead'
             /\ InHand(appender[a].lsn) \in {"clear", "blank"}
             /\ InHand(appender[a].lsn) = "clear" => appender[a].lsn \notin Lost
  <2>1. appender[a].lsn \in Logged
    BY <1>1 DEF HeldInv
  <2>2. LogHead' = LogHead
    BY <1>1, SameLog
  <2>3. Sealed(appender[a].lsn) => Opens(appender[a].lsn)
    BY <1>1 DEF SealInv
  <2> QED
    BY <2>1, <2>2, <2>3, LogIs, InHandIs DEF Lost
<1>2. ASSUME AppendAppliesViews(a) PROVE \A v \in Views : Extends(views'[v].has, views[v].has)
  <2>1. /\ ~AtRest(a) /\ UNCHANGED episodes
        /\ views' = [v \in Views |-> ViewApplied(views[v], appender[a].lsn, InHand(appender[a].lsn))]
    BY <1>2 DEF AppendAppliesViews, AtRest, disk
  <2>2. \A v \in ViewTypes :
           Extends(ViewApplied(v, appender[a].lsn, InHand(appender[a].lsn)).has, v.has)
    BY <1>1, <2>1, AppliedExtends
  <2>3. \A v \in Views : views[v] \in ViewTypes
    BY DEF DerivedTypes
  <2> QED
    BY <2>1, <2>2, <2>3
<1>3. ASSUME AppendAppliesAttr(a) PROVE Extends(attr'.has, attr.has)
  <2>1. /\ ~AtRest(a) /\ UNCHANGED episodes
        /\ attr' = Indexed(attr, appender[a].lsn, InHand(appender[a].lsn))
    BY <1>3 DEF AppendAppliesAttr, AtRest, disk
  <2>2. attr \in IndexTypes
    BY DEF DerivedTypes
  <2> QED
    BY <1>1, <2>1, <2>2, AppliedExtends
<1> QED
  BY <1>2, <1>3

LEMMA ReceiptExtends ==
    ASSUME DerivedTypes, SealInv, ShredReceipt
    PROVE  (\A v \in Views : Extends(views'[v].has, views[v].has)) /\ Extends(attr'.has, attr.has)
<1>1. /\ Logs("other")
      /\ views' = views \/ views' = [v \in Views |-> ViewApplied(views[v], LogHead, "blank")]
      /\ attr' = attr \/ attr' = Indexed(attr, LogHead, "blank")
  BY DEF ShredReceipt
<1>2. LogHead \in Lsns /\ LogHead < LogHead'
  <2>1. LogHead \in Lsns /\ LogHead' = LogHead + 1 /\ LogHead \in Nat
    BY <1>1, LogGrows, LogIs
  <2> QED
    BY <2>1
<1>3. /\ \A v \in ViewTypes : Extends(ViewApplied(v, LogHead, "blank").has, v.has)
      /\ \A x \in IndexTypes : Extends(Indexed(x, LogHead, "blank").has, x.has)
  BY <1>2, AppliedExtends
<1>4. \A v \in Views : Extends(views'[v].has, views[v].has)
  <2>1. \A v \in Views : Extends(views[v].has, views[v].has) /\ views[v] \in ViewTypes
    BY DEF Extends, DerivedTypes
  <2> QED
    BY <1>1, <1>3, <2>1
<1>5. Extends(attr'.has, attr.has)
  <2>1. Extends(attr.has, attr.has) /\ attr \in IndexTypes
    BY DEF Extends, DerivedTypes
  <2> QED
    BY <1>1, <1>3, <2>1
<1> QED
  BY <1>4, <1>5

\* A replay over a snapshot.
LEMMA ReplayExtends ==
    ASSUME DerivedTypes, FilesInv, AheadInv
    PROVE  /\ NoneFrom(AttrCaughtUp.has, LogHead)
           /\ NoneClear(attrFile.has, Lost) => NoneClear(AttrCaughtUp.has, Lost)
           /\ \A v \in Views : /\ NoneFrom(CaughtUp(snapshots[v]).has, LogHead)
                               /\ NoneClear(snapshots[v].has, Lost)
                                     => NoneClear(CaughtUp(snapshots[v]).has, Lost)
  BY CaughtUpIs, AttrCaughtUpIs DEF DerivedTypes, FilesInv, AheadInv
LEMMA ContentsBecome ==
    ASSUME DerivedTypes, HeldInv, SealInv, [DerivedNext]_derivedVars
    PROVE  /\ \A v \in Views :
                 /\ \/ Extends(views'[v].has, views[v].has) \/ Fresh(views'[v].has)
                    \/ process = "down" /\ views'[v].has = CaughtUp(snapshots[v]).has
                 /\ \/ snapshots'[v].has = snapshots[v].has \/ Fresh(snapshots'[v].has)
                    \/ snapshots'[v].has = views[v].has
                    \/ process = "down" /\ snapshots'[v].has = CaughtUp(snapshots[v]).has
           /\ \/ Extends(attr'.has, attr.has) \/ Fresh(attr'.has)
              \/ process = "down" /\ attr'.has \in {attrFile.has, AttrCaughtUp.has}
           /\ attrFile'.has \in {attrFile.has, saving.has, attr.has} \/ Fresh(attrFile'.has)
           /\ saving'.has \in {saving.has, attr.has} \/ Fresh(saving'.has)
<1> DEFINE VOk(v) == \/ Extends(views'[v].has, views[v].has) \/ Fresh(views'[v].has)
                     \/ process = "down" /\ views'[v].has = CaughtUp(snapshots[v]).has
           SOk(v) == \/ snapshots'[v].has = snapshots[v].has \/ Fresh(snapshots'[v].has)
                     \/ snapshots'[v].has = views[v].has
                     \/ process = "down" /\ snapshots'[v].has = CaughtUp(snapshots[v]).has
           AOk == \/ Extends(attr'.has, attr.has) \/ Fresh(attr'.has)
                  \/ process = "down" /\ attr'.has \in {attrFile.has, AttrCaughtUp.has}
           FOk == attrFile'.has \in {attrFile.has, saving.has, attr.has} \/ Fresh(attrFile'.has)
           GOk == saving'.has \in {saving.has, attr.has} \/ Fresh(saving'.has)
           AllOk == (\A v \in Views : VOk(v) /\ SOk(v)) /\ AOk /\ FOk /\ GOk
<1>0. /\ \A x : Extends(x, x)
      /\ Fresh(NothingSeen) /\ Fresh(Rebuilt.has) /\ Fresh(RebuiltAttr.has)
      /\ EmptyView.has = NothingSeen /\ EmptyAttr.has = NothingSeen /\ NoFile.has = NothingSeen
      /\ \A x : AsFile(x).has = x.has
  BY FreshIs, AsFileIs DEF Extends, EmptyView, EmptyAttr, NoFile
<1> DEFINE SameViews == \A v \in Views : views'[v].has = views[v].has
<1>1. ASSUME SameViews \/ \A v \in Views : VOk(v), UNCHANGED snapshots, attr' = attr \/ AOk, attrFile' = attrFile \/ FOk,
             saving' = saving \/ GOk
      PROVE  AllOk
  BY <1>0, <1>1
<1>2. ASSUME NEW a \in Appenders, AppendAppliesViews(a) PROVE AllOk
  <2>1. (\A v \in Views : VOk(v)) /\ UNCHANGED <<snapshots, attr, attrFile, saving>>
    BY <1>2, AppendExtends DEF AppendAppliesViews, disk
  <2> QED
    BY <1>1, <2>1
<1>3. ASSUME NEW a \in Appenders, AppendAppliesAttr(a) PROVE AllOk
  <2>1. AOk /\ UNCHANGED <<views, snapshots, attrFile, saving>>
    BY <1>3, AppendExtends DEF AppendAppliesAttr, disk
  <2> QED
    BY <1>1, <2>1
<1>4. ASSUME NEW v \in Views, CheckpointView(v) \/ ShredCheckpoints(v) PROVE AllOk
  <2>1. /\ snapshots' = [snapshots EXCEPT ![v] = AsFile(views[v])]
        /\ views' = [views EXCEPT ![v].clean = TRUE] /\ UNCHANGED <<attr, attrFile, saving>>
    BY <1>4 DEF CheckpointView, ShredCheckpoints
  <2>2. SameViews
    BY <2>1 DEF DerivedTypes, ViewTypes
  <2>3. \A w \in Views : snapshots'[w].has = snapshots[w].has \/ snapshots'[w].has = views[w].has
    <3>1. \A w \in Views : snapshots'[w] = IF w = v THEN AsFile(views[v]) ELSE snapshots[w]
      BY <2>1 DEF DerivedTypes
    <3> QED
      BY <1>0, <3>1
  <2> QED
    BY <1>0, <2>1, <2>2, <2>3
<1>5. CASE CheckpointAttr
  <2>1. UNCHANGED <<views, snapshots, attr, attrFile>> /\ saving' = AsFile(attr)
    BY <1>5 DEF CheckpointAttr, disk, ram
  <2> QED
    BY <1>0, <1>1, <2>1
<1>6. CASE AttrSaved
  <2>1. /\ UNCHANGED <<views, snapshots>> /\ attrFile' = saving /\ saving' = NoFile
        /\ attr' = [attr EXCEPT !.dirty = FALSE]
    BY <1>6 DEF AttrSaved
  <2>2. attr'.has = attr.has
    BY <2>1 DEF DerivedTypes, IndexTypes
  <2> QED
    BY <1>0, <1>1, <2>1, <2>2
<1>7. ASSUME NEW which \in SUBSET Views, Rebuild(which) PROVE AllOk
  <2>1. /\ views' = [v \in Views |-> IF v \in which THEN Rebuilt ELSE [views[v] EXCEPT !.clean = FALSE]]
        /\ UNCHANGED <<snapshots, attr, attrFile, saving>>
    BY <1>7 DEF Rebuild, disk
  <2>2. \A v \in Views : [views[v] EXCEPT !.clean = FALSE].has = views[v].has
    BY DEF DerivedTypes, ViewTypes
  <2>3. \A v \in Views : VOk(v)
    <3>1. \A v \in Views : views'[v].has = Rebuilt.has \/ views'[v].has = views[v].has
      BY <2>1, <2>2
    <3> QED
      BY <1>0, <3>1
  <2> QED
    BY <1>1, <2>1, <2>3
<1>8. CASE ShredRebuildsViews
  <2>1. views' = [v \in Views |-> Rebuilt] /\ UNCHANGED <<snapshots, attr, attrFile, saving>>
    BY <1>8 DEF ShredRebuildsViews, disk
  <2>2. \A v \in Views : VOk(v)
    BY <1>0, <2>1
  <2> QED
    BY <1>1, <2>1, <2>2
<1>9. CASE ShredSavesAttr
  <2>1. attrFile' = AsFile(RebuiltAttr) /\ UNCHANGED <<views, snapshots, attr, saving>>
    BY <1>9 DEF ShredSavesAttr, ram
  <2> QED
    BY <1>0, <1>1, <2>1
<1>10. CASE ShredInstallsAttr
  <2>1. attr' = [RebuiltAttr EXCEPT !.dirty = FALSE] /\ UNCHANGED <<views, snapshots, attrFile, saving>>
    BY <1>10 DEF ShredInstallsAttr, disk
  <2>2. attr'.has = RebuiltAttr.has
    BY <2>1, RebuiltIs DEF IndexTypes
  <2> QED
    BY <1>0, <1>1, <2>1, <2>2
<1>11. CASE ShredReceipt
  <2>1. (\A v \in Views : VOk(v)) /\ AOk /\ UNCHANGED <<snapshots, attrFile, saving>>
    BY <1>11, ReceiptExtends DEF ShredReceipt
  <2> QED
    BY <1>1, <2>1
<1>12. CASE Stop
  <2>1. /\ views' = [v \in Views |-> EmptyView] /\ attr' = EmptyAttr /\ saving' = NoFile
        /\ UNCHANGED <<snapshots, attrFile>>
    BY <1>12 DEF Stop, disk
  <2> QED
    BY <1>0, <1>1, <2>1
<1>13. ASSUME NEW m \in BootModes, BootViews(m) PROVE AllOk
  <2>1. /\ process = "down" /\ UNCHANGED <<attrFile, saving>>
        /\ \/ /\ views' = [v \in Views |-> [Rebuilt EXCEPT !.clean = TRUE]]
              /\ snapshots' = [v \in Views |-> AsFile(Rebuilt)]
              /\ attr' = RebuiltAttr \/ attr' = EmptyAttr
           \/ /\ attr' = [has |-> attrFile.has, wm |-> attrFile.wm, dirty |-> FALSE]
              /\ UNCHANGED <<views, snapshots>>
           \/ /\ views' = [v \in Views |-> CaughtUp(snapshots[v])]
              /\ snapshots' = [v \in Views |-> AsFile(CaughtUp(snapshots[v]))]
              /\ attr' = AttrCaughtUp
    BY <1>13 DEF BootViews
  <2>2. [Rebuilt EXCEPT !.clean = TRUE].has = Rebuilt.has
    BY RebuiltIs DEF ViewTypes
  <2>3. AOk
    BY <1>0, <2>1
  <2>4. \A v \in Views : VOk(v) /\ SOk(v)
    BY <1>0, <2>1, <2>2
  <2> QED
    BY <2>1, <2>3, <2>4
<1>14. CASE BootAttr
  <2>1. /\ UNCHANGED <<views, snapshots, saving>> /\ attrFile' \in {attrFile, AsFile(attr)}
        /\ attr' = [attr EXCEPT !.dirty = FALSE]
    BY <1>14 DEF BootAttr
  <2>2. attr'.has = attr.has
    BY <2>1 DEF DerivedTypes, IndexTypes
  <2>3. AOk /\ FOk
    BY <1>0, <2>1, <2>2
  <2> QED
    BY <1>1, <2>1, <2>3
<1>15. CASE UNCHANGED <<views, snapshots, attr, attrFile, saving>>
  BY <1>1, <1>15
<1>16. AllOk
  <2>1. CASE ShredStep
    BY <2>1, <1>4, <1>8, <1>9, <1>10, <1>11, <1>15 DEF ShredStep, ShredMarks, ShredChecks, ShredFlags, ShredDestroys,
       ShredUnflags, disk, ram
  <2>2. CASE Rebuild(Views) \/ \E v \in Views : Rebuild({v})
    BY <2>2, <1>7
  <2> QED
    BY <2>1, <2>2, <1>2, <1>3, <1>4, <1>5, <1>6, <1>12, <1>13, <1>14, <1>15 DEF DerivedNext, AppendLogs, BootUnflags,
       derivedVars, disk, ram
<1> QED
  BY <1>16

LEMMA AheadKeeps ==
    ASSUME DerivedTypes, HeldInv, SealInv, FilesInv, AheadInv, [DerivedNext]_derivedVars PROVE AheadInv'
<1>1. \A h : NoneFrom(h, LogHead) => NoneFrom(h, LogHead')
  BY LogGoesOn, LogIs DEF NoneFrom
<1>2. \A new, old : Extends(new, old) /\ NoneFrom(old, LogHead) => NoneFrom(new, LogHead')
  BY ExtendsIs
<1>3. \A h : Fresh(h) => NoneFrom(h, LogHead)
  BY DEF Fresh
<1>4. /\ \A v \in Views : NoneFrom(views[v].has, LogHead) /\ NoneFrom(snapshots[v].has, LogHead)
      /\ NoneFrom(attr.has, LogHead) /\ NoneFrom(attrFile.has, LogHead) /\ NoneFrom(saving.has, LogHead)
      /\ NoneFrom(AttrCaughtUp.has, LogHead)
      /\ \A v \in Views : NoneFrom(CaughtUp(snapshots[v]).has, LogHead)
  BY ReplayExtends DEF AheadInv
<1>5. \A v \in Views : NoneFrom(views'[v].has, LogHead') /\ NoneFrom(snapshots'[v].has, LogHead')
  BY <1>1, <1>2, <1>3, <1>4, ContentsBecome
<1>6. NoneFrom(attr'.has, LogHead') /\ NoneFrom(attrFile'.has, LogHead') /\ NoneFrom(saving'.has, LogHead')
  BY <1>1, <1>2, <1>3, <1>4, ContentsBecome
<1> QED
  BY <1>5, <1>6 DEF AheadInv
-----------------------------------------------------------------------------
(* Erasure *)

\* Only the end of the key loses records.
LEMMA LostStays ==
    ASSUME DerivedTypes, SealInv, [DerivedNext]_derivedVars PROVE Lost' = Lost \/ (ShredDestroys /\ key.alive)
<1>1. ASSUME NEW kind \in {"subject", "hold", "other"}, Logs(kind) PROVE Lost' = Lost
  BY <1>1, LogGrows
<1>2. CASE ShredReceipt
  <2>1. Logs("other")
    BY <1>2 DEF ShredReceipt
  <2> QED
    BY <1>1, <2>1
<1>3. ASSUME NEW a \in Appenders, NEW kind \in Kinds, AppendLogs(a, kind) PROVE Lost' = Lost
  <2>1. Logs(kind) /\ kind \in {"subject", "hold", "other"}
    BY <1>3, DerivedAssumption DEF AppendLogs
  <2> QED
    BY <1>1, <2>1
<1>4. CASE UNCHANGED <<episodes, key>>
  BY <1>4, SameLog
<1>5. ASSUME ShredDestroys, ~key.alive PROVE UNCHANGED <<episodes, key>>
  BY <1>5 DEF ShredDestroys, DerivedTypes
<1> QED
  BY <1>2, <1>3, <1>4, <1>5 DEF DerivedNext, AppendAppliesViews, AppendAppliesAttr, CheckpointView, Rebuild,
     CheckpointAttr, AttrSaved, Stop, BootViews, BootAttr, BootUnflags, derivedVars, disk, ShredStep,
     ShredMarks, ShredChecks, ShredFlags, ShredRebuildsViews, ShredCheckpoints, ShredSavesAttr,
     ShredInstallsAttr, ShredUnflags

\* Once nothing has a lost record in clear, no step brings one back.
LEMMA CleanStays ==
    ASSUME DerivedTypes, HeldInv, SealInv, FilesInv, AheadInv, [DerivedNext]_derivedVars, Lost' = Lost
    PROVE  /\ ViewsClean /\ SnapshotsClean => ViewsClean' /\ SnapshotsClean'
           /\ IndexClean => IndexClean'
<1>1. \A new, old : Extends(new, old) /\ NoneClear(old, Lost) => NoneClear(new, Lost)
  BY ExtendsIs
<1>2. \A h : Fresh(h) => NoneClear(h, Lost)
  BY DEF Fresh
<1>3. ASSUME ViewsClean, SnapshotsClean PROVE ViewsClean' /\ SnapshotsClean'
  <2>1. \A v \in Views : NoneClear(views[v].has, Lost) /\ NoneClear(snapshots[v].has, Lost)
    BY <1>3 DEF ViewsClean, SnapshotsClean
  <2>2. \A v \in Views : NoneClear(CaughtUp(snapshots[v]).has, Lost)
    BY <2>1, ReplayExtends
  <2>3. \A v \in Views : NoneClear(views'[v].has, Lost) /\ NoneClear(snapshots'[v].has, Lost)
    BY <1>1, <1>2, <2>1, <2>2, ContentsBecome
  <2> QED
    BY <2>3 DEF ViewsClean, SnapshotsClean
<1>4. ASSUME IndexClean PROVE IndexClean'
  <2>1. NoneClear(attr.has, Lost) /\ NoneClear(attrFile.has, Lost) /\ NoneClear(saving.has, Lost)
    BY <1>4 DEF IndexClean
  <2>2. NoneClear(AttrCaughtUp.has, Lost)
    BY <2>1, ReplayExtends
  <2>3. NoneClear(attr'.has, Lost) /\ NoneClear(attrFile'.has, Lost) /\ NoneClear(saving'.has, Lost)
    BY <1>1, <1>2, <2>1, <2>2, ContentsBecome
  <2> QED
    BY <2>3 DEF IndexClean
<1> QED
  BY <1>3, <1>4

LEMMA MarkerKeeps ==
    ASSUME DerivedTypes, HeldInv, SealInv, MarkerInv, [DerivedNext]_derivedVars PROVE MarkerInv'
<1>0. marker \in BOOLEAN
  BY DEF DerivedTypes
<1>1. CASE process # "up"
  <2>1. shred.at = "idle"
    BY <1>1 DEF HeldInv, NoShred
  <2>2. CASE BootAttr \/ BootUnflags
    BY <1>0, <2>1, <2>2 DEF BootAttr, BootUnflags, MarkerInv, Erasing
  <2>3. ASSUME NEW m \in BootModes, BootViews(m) PROVE MarkerInv'
    BY <2>3 DEF BootViews, MarkerInv
  <2>4. CASE Stop
    BY <2>4 DEF Stop, MarkerInv
  <2>5. CASE UNCHANGED derivedVars
    BY <2>5 DEF derivedVars, disk, MarkerInv, Erasing
  <2> QED
    BY <1>1, <2>2, <2>3, <2>4, <2>5, BootsAlone
<1>2. ASSUME process = "up", ShredStep PROVE MarkerInv'
  <2>1. process' = "up" /\ (marker <=> Erasing)
    BY <1>2 DEF MarkerInv, ShredStep, ShredMarks, ShredChecks, ShredFlags, ShredDestroys, ShredRebuildsViews,
       ShredCheckpoints, ShredSavesAttr, ShredInstallsAttr, ShredReceipt, ShredUnflags
  <2>2. marker' <=> Erasing'
    <3>1. CASE ShredMarks \/ ShredChecks
      <4>1. UNCHANGED marker /\ ~Erasing /\ ~Erasing'
        BY <3>1, ShredStages DEF ShredMarks, ShredChecks, Erasing
      <4> QED
        BY <2>1, <4>1
    <3>2. CASE ShredFlags
      BY <3>2, ShredStages DEF ShredFlags, Erasing
    <3>3. CASE ShredDestroys
      <4>1. shred.at = "destroy" /\ shred'.at = IF key.alive \/ shred.pending THEN "views" ELSE "idle"
        BY <3>3, ShredStages
      <4>2. (key.alive \/ shred.pending) => marker' = marker
        BY <3>3 DEF ShredDestroys
      <4>3. ~(key.alive \/ shred.pending) => marker' = FALSE
        BY <3>3 DEF ShredDestroys
      <4> QED
        BY <2>1, <4>1, <4>2, <4>3 DEF Erasing
    <3>4. CASE ShredUnflags
      BY <3>4, ShredStages DEF ShredUnflags, Erasing
    <3>5. CASE ShredRebuildsViews \/ ShredSavesAttr \/ ShredInstallsAttr \/ ShredReceipt
               \/ \E v \in Views : ShredCheckpoints(v)
      <4>1. Erasing /\ Erasing'
        BY <3>5, ShredStages DEF Erasing
      <4>2. UNCHANGED marker
        BY <3>5 DEF ShredRebuildsViews, ShredSavesAttr, ShredInstallsAttr, ShredReceipt, ShredCheckpoints, disk
      <4> QED
        BY <2>1, <4>1, <4>2
    <3> QED
      BY <1>2, <3>1, <3>2, <3>3, <3>4, <3>5 DEF ShredStep
  <2> QED
    BY <2>1, <2>2 DEF MarkerInv
<1>3. CASE UNCHANGED <<marker, shred, process>>
  BY <1>3 DEF MarkerInv, Erasing
<1>4. CASE Stop
  BY <1>4 DEF Stop, MarkerInv
<1> QED
  <2>1. ASSUME process = "up", NEW m \in BootModes, BootViews(m) PROVE FALSE
    BY <2>1 DEF BootViews
  <2>2. ASSUME process = "up", BootAttr \/ BootUnflags PROVE FALSE
    BY <2>2 DEF BootAttr, BootUnflags
  <2>3. CASE process = "up"
    BY <2>1, <2>2, <2>3, <1>2, <1>3, <1>4 DEF DerivedNext, AppendLogs, AppendAppliesViews, AppendAppliesAttr,
       CheckpointView, Rebuild, CheckpointAttr, AttrSaved, derivedVars, disk
  <2> QED
    BY <1>1, <2>3
\* The end of a key: the marker was there before.
LEMMA KeyDestroyed ==
    ASSUME DerivedTypes, HeldInv, MarkerInv, ShredDestroys, key.alive
    PROVE  /\ shred.at = "destroy" /\ shred'.at = "views"
           /\ marker /\ marker' /\ process = "up" /\ process' = "up"
<1>1. shred'.at = "views" /\ marker' = marker /\ shred.at = "destroy" /\ process' = process
  BY ShredStages DEF ShredDestroys
<1>2. process = "up"
  BY <1>1 DEF HeldInv, NoShred
<1>3. marker
  BY <1>1, <1>2 DEF MarkerInv, Erasing
<1> QED
  BY <1>1, <1>2, <1>3

LEMMA ViewsErasedKeeps ==
    ASSUME ~Replicated, DerivedTypes, HeldInv, SealInv, FilesInv, AheadInv, MarkerInv, MarkerInv',
           ViewsErased, [DerivedNext]_derivedVars
    PROVE  ViewsErased'
<1>0. marker \in BOOLEAN
  BY DEF DerivedTypes
<1>1. /\ ~marker \/ shred.at \in {"destroy", "receipt", "unflag"} => ViewsClean /\ SnapshotsClean
      /\ shred.at \in {"snapshots", "save", "install"} => ViewsClean
      /\ shred.at = "snapshots" => \A v \in Views \ shred.left : NoneClear(snapshots[v].has, Lost)
      /\ shred.at \in {"save", "install"} => SnapshotsClean
      /\ process \in {"attr", "unflag"} => ViewsClean /\ SnapshotsClean
  BY DEF ViewsErased
<1>2. ViewsClean' /\ SnapshotsClean' => ViewsErased'
  BY DEF ViewsErased, SnapshotsClean
<1>3. CASE ViewsClean /\ SnapshotsClean /\ Lost' = Lost
  BY <1>2, <1>3, CleanStays
<1>4. CASE ShredDestroys /\ key.alive
  BY <1>4, KeyDestroyed DEF ViewsErased
<1> SUFFICES ASSUME ~(ViewsClean /\ SnapshotsClean), Lost' = Lost PROVE ViewsErased'
  BY <1>3, <1>4, LostStays
<1>5. /\ marker /\ shred.at \notin {"destroy", "receipt", "unflag"}
      /\ shred.at \notin {"save", "install"} /\ process \notin {"attr", "unflag"}
  BY <1>1
<1>6. /\ \A h : Fresh(h) => NoneClear(h, Lost')
      /\ Fresh(Rebuilt.has) /\ \A x : AsFile(x).has = x.has
  BY FreshIs, AsFileIs DEF Fresh
\* What a step leaves alone.
<1>7. /\ UNCHANGED views => (ViewsClean' <=> ViewsClean)
      /\ UNCHANGED snapshots => (SnapshotsClean' <=> SnapshotsClean)
  BY DEF ViewsClean, SnapshotsClean
<1>8. CASE process = "up"
  <2>1. shred.at \in {"views", "snapshots"}
    BY <1>0, <1>5, <1>8 DEF MarkerInv, Erasing
  <2>2. AllAtRest /\ Exclusive
    BY <2>1 DEF HeldInv, Exclusive
  <2>3. CASE UNCHANGED <<marker, views, snapshots, shred, process>>
    BY <1>1, <1>5, <1>7, <1>8, <2>1, <2>3 DEF ViewsErased
  <2>4. CASE ShredRebuildsViews
    <3>1. /\ views' = [v \in Views |-> Rebuilt] /\ UNCHANGED <<marker, process>>
          /\ shred'.at = "snapshots" /\ shred'.left = Views
      BY <2>4, ShredStages DEF ShredRebuildsViews, disk
    <3>2. ViewsClean'
      BY <1>6, <3>1 DEF ViewsClean
    <3> QED
      BY <1>5, <1>8, <3>1, <3>2 DEF ViewsErased
  <2>5. ASSUME NEW v \in Views, ShredCheckpoints(v) PROVE ViewsErased'
    <3>1. /\ snapshots' = [snapshots EXCEPT ![v] = AsFile(views[v])]
          /\ views' = [views EXCEPT ![v].clean = TRUE]
          /\ UNCHANGED <<marker, process>>
          /\ shred.at = "snapshots" /\ shred'.left = shred.left \ {v}
          /\ shred'.at = IF shred.left = {v} THEN "save" ELSE "snapshots"
      BY <2>5, ShredStages DEF ShredCheckpoints
    <3>2. /\ \A w \in Views : views'[w].has = views[w].has
          /\ \A w \in Views : snapshots'[w].has = IF w = v THEN views[v].has ELSE snapshots[w].has
      <4>1. \A w \in Views : views'[w].has = views[w].has
        BY <3>1 DEF DerivedTypes, ViewTypes
      <4>2. \A w \in Views : snapshots'[w] = IF w = v THEN AsFile(views[v]) ELSE snapshots[w]
        BY <3>1 DEF DerivedTypes
      <4> QED
        BY <1>6, <4>1, <4>2
    <3>3. \A w \in Views : NoneClear(views[w].has, Lost)
      BY <1>1, <3>1 DEF ViewsClean
    <3>4. ViewsClean'
      BY <3>2, <3>3 DEF ViewsClean
    <3>5. \A w \in Views \ shred'.left : NoneClear(snapshots'[w].has, Lost')
      BY <1>1, <3>1, <3>2, <3>3
    <3>6. shred'.at = "save" => SnapshotsClean'
      <4>1. shred'.at = "save" => shred'.left = {}
        BY <3>1
      <4> QED
        BY <3>5, <4>1 DEF SnapshotsClean
    <3>7. shred'.at \in {"snapshots", "save"}
      BY <3>1
    <3> QED
      BY <1>5, <1>8, <3>1, <3>4, <3>5, <3>6, <3>7 DEF ViewsErased
  <2>6. CASE Stop
    BY <1>5, <2>6, ShredMoves DEF Stop, disk, ViewsErased, DerivedTypes
  <2>7. ASSUME NEW a \in Appenders, AppendAppliesViews(a) PROVE FALSE
    BY <2>2, <2>7 DEF AppendAppliesViews, AllAtRest, AtRest
  <2>8. CASE Rebuild(Views) \/ (\E v \in Views : CheckpointView(v) \/ Rebuild({v}))
    BY <2>2, <2>8 DEF Rebuild, CheckpointView, GateFree
  <2>9. CASE \/ ShredMarks \/ ShredChecks \/ ShredFlags \/ ShredDestroys \/ ShredSavesAttr
             \/ ShredInstallsAttr \/ ShredReceipt \/ ShredUnflags
    BY <2>1, <2>9, ShredStages
  <2>10. CASE BootAttr \/ BootUnflags \/ \E m \in BootModes : BootViews(m)
    BY <1>8, <2>10 DEF BootAttr, BootUnflags, BootViews
  <2>11. CASE ShredStep
    BY <2>4, <2>5, <2>9, <2>11 DEF ShredStep
  <2> QED
    BY <2>3, <2>6, <2>7, <2>8, <2>10, <2>11
       DEF DerivedNext, AppendLogs, AppendAppliesAttr, CheckpointAttr, AttrSaved, derivedVars, disk, ram
<1>9. CASE process # "up"
  <2>1. shred.at = "idle"
    BY <1>9 DEF HeldInv, NoShred
  <2>2. ASSUME NEW m \in BootModes, BootViews(m) PROVE ViewsErased'
    <3>1. /\ views' = [v \in Views |-> [Rebuilt EXCEPT !.clean = TRUE]]
          /\ snapshots' = [v \in Views |-> AsFile(Rebuilt)]
      BY <1>5, <2>2 DEF BootViews
    <3>2. [Rebuilt EXCEPT !.clean = TRUE].has = Rebuilt.has
      BY RebuiltIs DEF ViewTypes
    <3>3. ViewsClean' /\ SnapshotsClean'
      BY <1>6, <3>1, <3>2 DEF ViewsClean, SnapshotsClean
    <3> QED
      BY <1>2, <3>3
  <2>3. CASE BootAttr \/ BootUnflags
    BY <1>5, <2>3 DEF BootAttr, BootUnflags
  <2>4. CASE Stop
    BY <1>5, <2>4, ShredMoves DEF Stop, disk, ViewsErased, DerivedTypes
  <2>5. CASE UNCHANGED derivedVars
    BY <1>1, <1>5, <1>7, <2>1, <2>5 DEF ViewsErased, derivedVars, disk, ram
  <2> QED
    BY <1>9, <2>2, <2>3, <2>4, <2>5, BootsAlone
<1> QED
  BY <1>8, <1>9

\* What a checkpoint of the index had overtaken stays so until the shred, or a
\* boot that takes its place, writes the index anew.
LEMMA OvertakenStays ==
    ASSUME overtaken \in BOOLEAN, [DerivedNext]_derivedVars
    PROVE  /\ overtaken' \in BOOLEAN
           /\ overtaken => overtaken' \/ ShredSavesAttr \/ (BootAttr /\ marker)
<1>1. UNCHANGED overtaken \/ AttrSaved \/ ShredSavesAttr \/ BootAttr
  BY DEF DerivedNext, AppendLogs, AppendAppliesViews, AppendAppliesAttr, CheckpointView, Rebuild,
     CheckpointAttr, Stop, BootViews, BootUnflags, derivedVars, disk, ShredStep,
     ShredMarks, ShredChecks, ShredFlags, ShredDestroys, ShredRebuildsViews, ShredCheckpoints,
     ShredInstallsAttr, ShredReceipt, ShredUnflags
<1>2. AttrSaved => overtaken' = (overtaken \/ shred.at = "install")
  BY DEF AttrSaved
<1>3. ShredSavesAttr => overtaken' = FALSE
  BY DEF ShredSavesAttr
<1>4. BootAttr => overtaken' = (overtaken /\ ~marker)
  BY DEF BootAttr
<1> QED
  BY <1>1, <1>2, <1>3, <1>4

LEMMA IndexErasedKeeps ==
    ASSUME ~Replicated, DerivedTypes, HeldInv, SealInv, FilesInv, AheadInv, MarkerInv, MarkerInv',
           IndexErased, [DerivedNext]_derivedVars
    PROVE  IndexErased'
<1>0. /\ marker \in BOOLEAN /\ overtaken \in BOOLEAN /\ overtaken' \in BOOLEAN
      /\ overtaken => overtaken' \/ ShredSavesAttr \/ (BootAttr /\ marker)
  BY OvertakenStays DEF DerivedTypes, IndexErased
<1>1. /\ ~marker \/ shred.at \in {"destroy", "receipt", "unflag"} => overtaken \/ IndexClean
      /\ shred.at = "install" => overtaken \/ NoneClear(attrFile.has, Lost)
      /\ process \in {"attr", "unflag"} /\ marker => NoneClear(attr.has, Lost)
      /\ process = "unflag" => NoneClear(attrFile.has, Lost)
  BY DEF IndexErased
<1>2. IndexClean' => IndexErased'
  BY <1>0 DEF IndexErased, IndexClean
<1>3. CASE IndexClean /\ Lost' = Lost
  BY <1>2, <1>3, CleanStays
<1>4. CASE ShredDestroys /\ key.alive
  BY <1>0, <1>4, KeyDestroyed DEF IndexErased
<1> SUFFICES ASSUME ~IndexClean, Lost' = Lost PROVE IndexErased'
  BY <1>3, <1>4, LostStays
<1>5. /\ \A h : Fresh(h) => NoneClear(h, Lost')
      /\ Fresh(NothingSeen) /\ Fresh(RebuiltAttr.has)
      /\ \A x : AsFile(x).has = x.has
      /\ EmptyAttr.has = NothingSeen /\ NoFile.has = NothingSeen
  BY FreshIs, AsFileIs DEF Fresh, EmptyAttr, NoFile
<1>6. ~marker \/ shred.at \in {"destroy", "receipt", "unflag"} => overtaken
  BY <1>1
<1>7. CASE process = "up"
  <2>1. marker <=> Erasing
    BY <1>7 DEF MarkerInv
  \* A step of a shred before its index, or of none.
  <2>2. ASSUME overtaken' = overtaken, process' = "up", shred'.at # "install",
               ~marker' \/ shred'.at \in {"destroy", "receipt", "unflag"}
                   => ~marker \/ shred.at \in {"destroy", "receipt", "unflag"}
        PROVE  IndexErased'
    BY <1>0, <1>6, <2>2 DEF IndexErased
  <2>3. ASSUME UNCHANGED <<marker, attrFile, shred, overtaken>>, process' = "up" PROVE IndexErased'
    BY <1>0, <1>1, <1>6, <2>3 DEF IndexErased
  <2>4. CASE AttrSaved
    <3>1. UNCHANGED <<marker, shred, process>> /\ overtaken' = (overtaken \/ shred.at = "install")
      BY <2>4 DEF AttrSaved
    <3> QED
      BY <1>0, <1>6, <1>7, <3>1 DEF IndexErased
  <2>5. CASE ShredMarks \/ ShredChecks
    <3>1. UNCHANGED <<marker, overtaken, process>> /\ ~Erasing /\ shred'.at \notin {"install", "destroy", "receipt", "unflag"}
      BY <2>5, ShredStages DEF ShredMarks, ShredChecks, Erasing
    <3> QED
      BY <1>7, <2>1, <2>2, <3>1
  <2>6. CASE ShredFlags
    <3>1. UNCHANGED <<overtaken, process>> /\ ~Erasing /\ shred'.at = "destroy"
      BY <2>6, ShredStages DEF ShredFlags, Erasing
    <3> QED
      BY <1>7, <2>1, <2>2, <3>1
  <2>7. CASE ShredDestroys \/ ShredUnflags \/ ShredReceipt
    <3>1. /\ UNCHANGED <<overtaken, process>> /\ shred'.at # "install"
          /\ shred.at \in {"destroy", "receipt", "unflag"}
      BY <2>7, ShredStages DEF ShredDestroys, ShredUnflags, ShredReceipt
    <3> QED
      BY <1>7, <2>2, <3>1
  <2>8. CASE ShredRebuildsViews \/ \E v \in Views : ShredCheckpoints(v)
    <3>1. /\ UNCHANGED <<marker, overtaken, process>> /\ Erasing
          /\ shred'.at \notin {"install", "destroy", "receipt", "unflag"}
      BY <2>8, ShredStages DEF ShredRebuildsViews, ShredCheckpoints, disk, Erasing
    <3> QED
      BY <1>7, <2>1, <2>2, <3>1
  <2>9. CASE ShredSavesAttr
    <3>1. /\ attrFile' = AsFile(RebuiltAttr) /\ UNCHANGED <<marker, process>> /\ Erasing
          /\ shred'.at = "install"
      BY <2>9, ShredStages DEF ShredSavesAttr, Erasing
    <3>2. NoneClear(attrFile'.has, Lost')
      BY <1>5, <3>1
    <3> QED
      BY <1>0, <1>7, <2>1, <3>1, <3>2 DEF IndexErased
  <2>10. CASE ShredInstallsAttr
    <3>1. /\ attr' = [RebuiltAttr EXCEPT !.dirty = FALSE] /\ shred.at = "install" /\ saving = NoFile
          /\ UNCHANGED <<attrFile, saving, overtaken, process>> /\ shred'.at = "receipt"
      BY <2>10, ShredStages DEF ShredInstallsAttr, disk
    <3>2. attr'.has = RebuiltAttr.has
      BY <3>1, RebuiltIs DEF IndexTypes
    <3>3. NoneClear(attr'.has, Lost') /\ NoneClear(saving'.has, Lost')
      BY <1>5, <3>1, <3>2
    <3>4. overtaken' \/ IndexClean'
      BY <1>1, <3>1, <3>3 DEF IndexClean
    <3> QED
      BY <1>0, <1>7, <3>1, <3>4 DEF IndexErased
  <2>11. CASE Stop
    <3>1. UNCHANGED <<marker, overtaken>> /\ shred'.at = "idle" /\ process' = "down"
      BY <2>11, ShredMoves DEF Stop, disk, DerivedTypes
    <3> QED
      BY <1>0, <1>6, <3>1 DEF IndexErased
  <2>12. CASE BootAttr \/ BootUnflags \/ \E m \in BootModes : BootViews(m)
    BY <1>7, <2>12 DEF BootAttr, BootUnflags, BootViews
  <2>13. CASE ShredStep
    BY <2>5, <2>6, <2>7, <2>8, <2>9, <2>10, <2>13 DEF ShredStep
  <2> QED
    BY <1>7, <2>3, <2>4, <2>11, <2>12, <2>13
       DEF DerivedNext, AppendLogs, AppendAppliesViews, AppendAppliesAttr, CheckpointView, Rebuild,
           CheckpointAttr, derivedVars, disk
<1>8. CASE process # "up"
  <2>1. shred.at = "idle" /\ saving = NoFile
    BY <1>8 DEF HeldInv, NoShred
  <2>2. ASSUME NEW m \in BootModes, BootViews(m) PROVE IndexErased'
    <3>1. UNCHANGED <<marker, overtaken, shred>> /\ process' = "attr"
      BY <2>2 DEF BootViews
    <3>2. marker => attr' = RebuiltAttr \/ attr' = EmptyAttr
      BY <2>2 DEF BootViews
    <3>3. marker => NoneClear(attr'.has, Lost')
      BY <1>5, <3>2
    <3> QED
      BY <1>0, <1>6, <2>1, <3>1, <3>3 DEF IndexErased
  <2>3. CASE BootAttr
    <3>1. /\ process = "attr" /\ UNCHANGED <<marker, shred>>
          /\ attr' = [attr EXCEPT !.dirty = FALSE]
          /\ marker => attrFile' = AsFile(attr) /\ process' = "unflag"
          /\ ~marker => process' = "up" /\ overtaken' = overtaken
      BY <1>0, <2>3 DEF BootAttr
    <3>2. attr'.has = attr.has
      BY <3>1 DEF DerivedTypes, IndexTypes
    <3>3. marker => NoneClear(attr'.has, Lost') /\ NoneClear(attrFile'.has, Lost')
      BY <1>1, <1>5, <3>1, <3>2
    <3> QED
      BY <1>0, <1>6, <2>1, <3>1, <3>3 DEF IndexErased
  <2>4. CASE BootUnflags
    <3>1. process = "unflag" /\ marker
      BY <2>4 DEF BootUnflags, MarkerInv
    <3>2. NoneClear(saving.has, Lost)
      BY <1>5, <2>1
    <3> QED
      BY <1>1, <3>1, <3>2 DEF IndexClean
  <2>5. CASE Stop
    <3>1. UNCHANGED <<marker, overtaken>> /\ shred'.at = "idle" /\ process' = "down"
      BY <2>5, ShredMoves DEF Stop, disk, DerivedTypes
    <3> QED
      BY <1>0, <1>6, <3>1 DEF IndexErased
  <2>6. CASE UNCHANGED derivedVars
    BY <1>0, <1>1, <1>6, <2>1, <2>6 DEF IndexErased, derivedVars, disk, ram
  <2> QED
    BY <1>8, <2>2, <2>3, <2>4, <2>5, <2>6, BootsAlone
<1> QED
  BY <1>7, <1>8

LEMMA CleanKeeps ==
    ASSUME ~Replicated, DerivedTypes, HeldInv, SealInv, FilesInv, AheadInv, CleanInv,
           [DerivedNext]_derivedVars
    PROVE  CleanInv'
<1>1. MarkerInv'
  BY MarkerKeeps DEF CleanInv
<1> QED
  BY <1>1, ViewsErasedKeeps, IndexErasedKeeps DEF CleanInv
-----------------------------------------------------------------------------
(* The theorems *)

DerivedInv ==
    /\ DerivedTypes /\ HeldInv /\ SealInv /\ VetoInv /\ ViewsInv /\ IndexInv /\ FilesInv /\ AheadInv

LEMMA DerivedInitInv == ASSUME DerivedInit PROVE DerivedInv /\ CleanInv
<1>1. /\ episodes = << >> /\ marker = FALSE
      /\ views = [v \in Views |-> EmptyView] /\ unmaterialized = FALSE
      /\ snapshots = [v \in Views |-> NoFile]
      /\ attr = EmptyAttr /\ attrFile = NoFile /\ attrIncomplete = FALSE /\ saving = NoFile
      /\ appender = [a \in Appenders |-> [at |-> "idle", lsn |-> 0]]
      /\ shred = NoShred /\ shred.at = "idle" /\ process = "up" /\ mode = "normal" /\ shredded = FALSE
  BY DEF DerivedInit, NoShred
<1>2. DerivedTypes
  BY DerivedInitTypes
<1>3. LogHead = 0 /\ Logged = {} /\ LastLsn = 0 /\ AllAtRest
  <2>1. LogHead = 0
    BY <1>1 DEF LogHead
  <2> QED
    BY <1>1, <2>1 DEF Logged, LastLsn, AllAtRest, AtRest
<1>4. /\ EmptyView.has = NothingSeen /\ EmptyAttr.has = NothingSeen /\ NoFile.has = NothingSeen
      /\ EmptyView.wm = 0 /\ EmptyAttr.wm = -1 /\ NoFile.wm = -1
      /\ NoneFrom(NothingSeen, LogHead) /\ NoneClear(NothingSeen, Lost)
      /\ Faithful(NoFile)
  <2>1. Fresh(NothingSeen)
    BY <1>2, FreshIs
  <2> QED
    BY <2>1, NothingSeenIs DEF Fresh, EmptyView, EmptyAttr, NoFile
<1>5. HeldInv /\ SealInv /\ VetoInv
  <2>1. HeldInv
    BY <1>1, <1>3 DEF HeldInv, AllAtRest, Exclusive
  <2>2. SealInv
    BY <1>1, <1>3 DEF SealInv, AllAtRest
  <2>3. VetoInv
    BY <1>1 DEF VetoInv
  <2> QED
    BY <2>1, <2>2, <2>3
<1>6. ViewsInv /\ IndexInv
  <2>1. SeenByViews = {} /\ SeenByIndex = {}
    BY <1>2, <1>3, SeenIs
  <2>2. \A l \in Lsns : NothingSeen[l] = "none"
    BY DEF NothingSeen
  <2>3. Whole(EmptyView, {}) /\ Whole(EmptyAttr, {})
    BY <1>4, <2>2 DEF Whole
  <2>4. ViewsInv
    BY <1>1, <1>3, <1>4, <2>1, <2>3 DEF ViewsInv
  <2>5. IndexInv
    BY <1>1, <1>3, <1>4, <2>1, <2>3 DEF IndexInv
  <2> QED
    BY <2>4, <2>5
<1>7. FilesInv
  <2>1. Saved(NoFile)
    BY <1>3, <1>4 DEF Saved
  <2> QED
    BY <1>1, <1>4, <2>1 DEF FilesInv
<1>8. AheadInv
  BY <1>1, <1>4 DEF AheadInv
<1>9. CleanInv
  <2>1. ViewsClean /\ SnapshotsClean /\ IndexClean /\ overtaken = FALSE
    BY <1>1, <1>4 DEF DerivedInit, IndexClean, ViewsClean, SnapshotsClean
  <2> QED
    BY <1>1, <2>1 DEF CleanInv, ViewsErased, IndexErased, MarkerInv, Erasing
<1> QED
  BY <1>2, <1>5, <1>6, <1>7, <1>8, <1>9 DEF DerivedInv

LEMMA DerivedInvKeeps ==
    ASSUME ~Replicated, DerivedInv, [DerivedNext]_derivedVars PROVE DerivedInv'
<1>1. DerivedTypes /\ HeldInv /\ SealInv /\ VetoInv /\ ViewsInv /\ IndexInv /\ FilesInv /\ AheadInv
  BY DEF DerivedInv
<1>2. DerivedTypes'
  BY <1>1, DerivedTypesKeep
<1>3. HeldInv' /\ SealInv' /\ VetoInv'
  BY <1>1, GateKeeps, KeyKeeps, VetoKeeps
<1>4. ViewsInv' /\ IndexInv' /\ FilesInv'
  BY <1>1, <1>2, <1>3, ViewsKeep, IndexKeeps, FilesKeep
<1>5. AheadInv'
  BY <1>1, AheadKeeps
<1> QED
  BY <1>2, <1>3, <1>4, <1>5 DEF DerivedInv

\* What the proofs below rest on, of a node that is not a replica.
THEOREM DerivedInvariant ==
    ASSUME ~Replicated PROVE DerivedSpec => []DerivedInv
<1>1. DerivedInit => DerivedInv
  BY DerivedInitInv
<1>2. DerivedInv /\ [DerivedNext]_derivedVars => DerivedInv'
  BY DerivedInvKeeps
<1> QED
  BY <1>1, <1>2, PTL DEF DerivedSpec

\* In every execution, for every number of views, appenders, episodes, shreds
\* and ends of the process: no key is destroyed once a hold that covers the
\* subject is in the log (shred_effect checks the holds under the gate that an
\* append takes).
THEOREM HoldsAreRespected ==
    ASSUME ~Replicated PROVE DerivedSpec => HoldsRespected
<1>1. DerivedInv /\ [DerivedNext]_derivedVars
         => [key.alive /\ ~key'.alive /\ mode # "log_only" => ~Vetoed]_derivedVars
  <2> SUFFICES ASSUME DerivedInv, [DerivedNext]_derivedVars, key.alive, ~key'.alive, mode # "log_only"
               PROVE  ~Vetoed
    OBVIOUS
  <2>1. DerivedTypes /\ VetoInv
    BY DEF DerivedInv
  <2>2. shred.at = "destroy"
    BY <2>1, KeyDies, ShredStages
  <2> QED
    BY <2>1, <2>2 DEF VetoInv
<1> QED
  BY <1>1, DerivedInvariant, PTL DEF DerivedSpec, HoldsRespected

\* A snapshot that a boot starts from has every episode up to its watermark,
\* once, and none above, whatever appends, rebuilds, shreds and stops came
\* between its checkpoint and the boot.
THEOREM SnapshotsAreFaithful ==
    ASSUME ~Replicated PROVE DerivedSpec => []SnapshotsFaithful
<1>1. DerivedInv => SnapshotsFaithful
  BY DEF DerivedInv, FilesInv, Saved, SnapshotsFaithful
<1> QED
  BY <1>1, DerivedInvariant, PTL

\* No scan of the log aborts, and a node at rest that does not say its views or
\* its index are incomplete has the whole log in them, each episode once.
THEOREM WholeIsServed ==
    ASSUME ~Replicated PROVE DerivedSpec => []ServedWhole
<1>1. DerivedInv => ServedWhole
  <2> SUFFICES ASSUME DerivedInv PROVE ServedWhole
    OBVIOUS
  <2>1. DerivedTypes /\ SealInv /\ ViewsInv /\ IndexInv
    BY DEF DerivedInv
  <2>2. \A l \in Logged : ~Aborts(l)
    BY <2>1 DEF SealInv, Unmarked, Aborts
  <2>3. \A x : Whole(x, Logged) => AllHave(x.has)
    BY <2>1, LogIs DEF Whole, AllHave
  <2>4. ASSUME Quiet, mode # "log_only"
        PROVE  /\ ~unmaterialized => \A v \in Views : AllHave(views[v].has)
               /\ ~attrIncomplete => AllHave(attr.has)
    <3>1. process = "up" /\ SeenByViews = Logged /\ SeenByIndex = Logged
      BY <2>1, <2>4, SeenIs DEF Quiet, AllAtRest, AtRest
    <3>2. ~unmaterialized => \A v \in Views : Whole(views[v], Logged)
      BY <2>1, <2>4, <3>1 DEF ViewsInv
    <3>3. ~attrIncomplete => Whole(attr, Logged)
      BY <2>1, <2>4, <3>1 DEF IndexInv
    <3> QED
      BY <2>3, <3>2, <3>3
  <2> QED
    BY <2>2, <2>4 DEF ServedWhole
<1> QED
  BY <1>1, DerivedInvariant, PTL

\* Once a key was destroyed, clear text it sealed is in no view, no index and no
\* snapshot, unless the file is there that makes the next boot derive
\* everything again, whatever overlaps; but for an index whose checkpoint, taken
\* before the shred, was written after the shred's own.
THEOREM ErasuresHold ==
    ASSUME ~Replicated PROVE DerivedSpec => []ErasedUnlessOvertaken
<1>1. DerivedInit => CleanInv
  BY DerivedInitInv
<1>2. DerivedInv /\ DerivedInv' /\ CleanInv /\ [DerivedNext]_derivedVars => CleanInv'
  BY CleanKeeps DEF DerivedInv
<1>3. CleanInv => ErasedUnlessOvertaken
  <2>1. \A has : NoneClear(has, Lost) => ~LeftIn(has)
    BY DEF NoneClear, Lost, LeftIn
  <2> QED
    BY <2>1 DEF CleanInv, ViewsErased, IndexErased, IndexClean, ViewsClean, SnapshotsClean, ErasedUnlessOvertaken
<1> QED
  BY <1>1, <1>2, <1>3, DerivedInvariant, PTL DEF DerivedSpec
-----------------------------------------------------------------------------
(* The types of what is derived *)

LoggedTypes == [kind : Kinds \cup {"other"}, key : 0 .. MaxEpisodes]
ViewMarks == Lsns \cup {0}
FileMarks == Lsns \cup {-1, 0}
IndexMarks == Lsns \cup {-1}
DerivedBudgets == [shreds : 0 .. MaxShreds, stops : 0 .. MaxStops]

\* A key is made for an episode, and a watermark is the LSN of one.
LogBounded == episodes \in Seq(LoggedTypes) /\ key.gen <= LogHead
MarksBounded ==
    /\ \A v \in Views : views[v].wm \in ViewMarks /\ snapshots[v].wm \in FileMarks
    /\ {attr.wm, attrFile.wm, saving.wm} \subseteq IndexMarks
    /\ \A a \in Appenders : appender[a].lsn \in IF AtRest(a) THEN {0} ELSE Lsns
DerivedBounds == LogBounded /\ MarksBounded /\ budget \in DerivedBudgets /\ overtaken \in BOOLEAN

LEMMA LogSteps ==
    ASSUME DerivedTypes, [DerivedNext]_derivedVars
    PROVE  \/ \E kind \in Kinds \cup {"other"} : Logs(kind)
           \/ UNCHANGED episodes /\ key'.gen = key.gen
<1>1. key' = [key EXCEPT !.alive = FALSE] => key'.gen = key.gen
  BY DEF DerivedTypes
<1>2. CASE ShredReceipt
  BY <1>2 DEF ShredReceipt
<1>3. ASSUME NEW a \in Appenders, NEW kind \in Kinds, AppendLogs(a, kind) PROVE Logs(kind)
  BY <1>3 DEF AppendLogs
<1>4. CASE ShredDestroys
  BY <1>1, <1>4 DEF ShredDestroys
<1>5. CASE UNCHANGED <<episodes, key>>
  BY <1>5
<1> QED
  BY <1>2, <1>3, <1>4, <1>5 DEF DerivedNext, AppendAppliesViews, AppendAppliesAttr, CheckpointView, Rebuild,
     CheckpointAttr, AttrSaved, Stop, BootViews, BootAttr, BootUnflags, derivedVars, disk, ShredStep,
     ShredMarks, ShredChecks, ShredFlags, ShredRebuildsViews, ShredCheckpoints,
     ShredSavesAttr, ShredInstallsAttr, ShredUnflags

LEMMA LogBoundedKeeps ==
    ASSUME DerivedTypes, LogBounded, [DerivedNext]_derivedVars PROVE LogBounded'
<1>1. ASSUME NEW kind \in Kinds \cup {"other"}, Logs(kind) PROVE LogBounded'
  <2>1. /\ LogHead < MaxEpisodes /\ LogHead \in Nat /\ MaxEpisodes \in Nat
        /\ key.gen \in Nat /\ key.gen <= LogHead
        /\ key' = IF kind = "subject" /\ ~key.alive THEN [alive |-> TRUE, gen |-> key.gen + 1] ELSE key
        /\ episodes' = Append(episodes, [kind |-> kind, key |-> key'.gen])
    BY <1>1, LogIs DEF Logs, LogBounded
  <2>2. key'.gen \in Nat /\ key'.gen <= LogHead + 1 /\ LogHead + 1 <= MaxEpisodes
    <3>1. key'.gen = key.gen \/ key'.gen = key.gen + 1
      BY <2>1
    <3> QED
      BY <2>1, <3>1
  <2>3. [kind |-> kind, key |-> key'.gen] \in LoggedTypes
    <3>1. key'.gen \in 0 .. MaxEpisodes
      BY <2>1, <2>2
    <3> QED
      BY <3>1 DEF LoggedTypes
  <2> QED
    BY <2>1, <2>2, <2>3 DEF LogBounded, LogHead
<1>2. CASE UNCHANGED episodes /\ key'.gen = key.gen
  BY <1>2 DEF LogBounded, LogHead
<1> QED
  BY <1>1, <1>2, LogSteps

\* The watermarks that a scan or an episode leaves.
LEMMA MarksAre ==
    ASSUME DerivedTypes
    PROVE  /\ LastLsn \in ViewMarks /\ LogHead - 1 \in IndexMarks
           /\ Rebuilt.wm \in ViewMarks /\ RebuiltAttr.wm \in IndexMarks
           /\ Logged \subseteq Lsns /\ Lsns \subseteq Nat
           /\ ViewMarks \subseteq FileMarks /\ ViewMarks \subseteq Nat
           /\ EmptyView.wm \in ViewMarks /\ EmptyAttr.wm \in IndexMarks /\ NoFile.wm \in IndexMarks
<1>1. LogHead \in Nat /\ MaxEpisodes \in Nat /\ LogHead <= MaxEpisodes /\ Logged \subseteq Lsns
      /\ Lsns \subseteq Nat /\ LastLsn = (IF LogHead = 0 THEN 0 ELSE LogHead - 1)
  BY LogIs
<1>2. LogHead # 0 => LogHead - 1 \in Lsns
  BY <1>1 DEF Lsns
<1>3. LastLsn \in ViewMarks /\ LogHead - 1 \in IndexMarks
  BY <1>1, <1>2 DEF ViewMarks, IndexMarks
<1>4. Rebuilt.wm = LastLsn /\ RebuiltAttr.wm = LogHead - 1
  BY RebuiltIs
<1> QED
  BY <1>1, <1>3, <1>4 DEF ViewMarks, FileMarks, IndexMarks, EmptyView, EmptyAttr, NoFile

LEMMA CaughtUpMarks ==
    ASSUME DerivedTypes, MarksBounded
    PROVE  /\ \A v \in Views : CaughtUp(snapshots[v]).wm \in ViewMarks
           /\ AttrCaughtUp.wm \in IndexMarks
<1>1. ASSUME NEW v \in Views PROVE CaughtUp(snapshots[v]).wm \in ViewMarks
  <2>1. CaughtUp(snapshots[v]).wm = IF snapshots[v].wm > LastLsn THEN snapshots[v].wm ELSE LastLsn
    BY DEF CaughtUp
  <2>2. snapshots[v].wm \in FileMarks /\ LastLsn \in ViewMarks /\ LastLsn \in Nat
    BY MarksAre DEF MarksBounded
  <2>3. ~(-1 > LastLsn)
    BY <2>2
  <2> QED
    BY <2>1, <2>2, <2>3 DEF FileMarks, ViewMarks
<1>2. AttrCaughtUp.wm \in {attrFile.wm, LogHead - 1}
  BY DEF AttrCaughtUp
<1> QED
  BY <1>1, <1>2, MarksAre DEF MarksBounded

\* What an episode applied makes of them.
LEMMA AppliedMarks ==
    ASSUME DerivedTypes, MarksBounded, NEW lsn \in Lsns, lsn \in Nat, NEW seen \in {"clear", "blank"}
    PROVE  /\ \A v \in Views : ViewApplied(views[v], lsn, seen).wm \in ViewMarks
           /\ Indexed(attr, lsn, seen).wm \in IndexMarks
<1>1. \A v \in Views : views[v] \in ViewTypes /\ views[v].wm \in ViewMarks
  BY DEF DerivedTypes, MarksBounded
<1>2. attr \in IndexTypes /\ attr.wm \in IndexMarks
  BY DEF DerivedTypes, MarksBounded
<1>3. lsn \in ViewMarks /\ lsn \in IndexMarks
  BY DEF ViewMarks, IndexMarks
<1>4. \A v \in Views : ViewApplied(views[v], lsn, seen).wm \in {lsn, views[v].wm}
  BY <1>1, AppliedWatermark
<1>5. Indexed(attr, lsn, seen).wm \in {lsn, attr.wm}
  BY <1>2, AppliedWatermark
<1> QED
  BY <1>1, <1>2, <1>3, <1>4, <1>5

LEMMA MarksKeep ==
    ASSUME DerivedTypes, MarksBounded, [DerivedNext]_derivedVars PROVE MarksBounded'
<1>0. /\ \A v \in Views : views[v].wm \in ViewMarks /\ snapshots[v].wm \in FileMarks
      /\ attr.wm \in IndexMarks /\ attrFile.wm \in IndexMarks /\ saving.wm \in IndexMarks
      /\ \A a \in Appenders : appender[a].lsn \in IF AtRest(a) THEN {0} ELSE Lsns
      /\ views \in [Views -> ViewTypes] /\ snapshots \in [Views -> FileTypes]
      /\ attr \in IndexTypes /\ appender \in [Appenders -> [at : AppendSteps, lsn : Nat]]
  BY DEF MarksBounded, DerivedTypes, AtRest
<1>1. ASSUME NEW a \in Appenders, NEW kind \in Kinds, AppendLogs(a, kind) PROVE MarksBounded'
  <2>1. /\ UNCHANGED <<views, snapshots, attr, attrFile, saving>>
        /\ appender' = appender \/ appender' = [appender EXCEPT ![a] = [at |-> "views", lsn |-> LogHead]]
        /\ Logs(kind)
    BY <1>1 DEF AppendLogs, ram
  <2>2. LogHead \in Lsns
    <3>1. LogHead < MaxEpisodes /\ LogHead \in Nat /\ MaxEpisodes \in Nat
      BY <2>1, LogIs DEF Logs
    <3> QED
      BY <3>1 DEF Lsns
  <2>3. \A b \in Appenders : appender'[b].lsn \in IF AtRest(b)' THEN {0} ELSE Lsns
    BY <1>0, <2>1, <2>2 DEF AtRest
  <2> QED
    BY <1>0, <2>1, <2>3 DEF MarksBounded, AtRest
<1>2. ASSUME NEW a \in Appenders, AppendAppliesViews(a) \/ AppendAppliesAttr(a) PROVE MarksBounded'
  <2>1. /\ \/ views' = views
           \/ views' = [v \in Views |-> ViewApplied(views[v], appender[a].lsn, InHand(appender[a].lsn))]
        /\ attr' = attr \/ attr' = Indexed(attr, appender[a].lsn, InHand(appender[a].lsn))
        /\ UNCHANGED <<snapshots, attrFile, saving>>
        /\ \/ appender' = [appender EXCEPT ![a].at = "attr"]
           \/ appender' = [appender EXCEPT ![a] = [at |-> "idle", lsn |-> 0]]
        /\ ~AtRest(a)
    BY <1>2 DEF AppendAppliesViews, AppendAppliesAttr, disk, AtRest
  <2>2. appender[a].lsn \in Lsns /\ appender[a].lsn \in Nat /\ InHand(appender[a].lsn) \in {"clear", "blank"}
    BY <1>0, <2>1, MarksAre, InHandIs
  <2>3. /\ \A v \in Views : ViewApplied(views[v], appender[a].lsn, InHand(appender[a].lsn)).wm \in ViewMarks
        /\ Indexed(attr, appender[a].lsn, InHand(appender[a].lsn)).wm \in IndexMarks
    BY <2>2, AppliedMarks
  <2>4. \A b \in Appenders : appender'[b].lsn \in IF AtRest(b)' THEN {0} ELSE Lsns
    BY <1>0, <2>1, <2>2 DEF AtRest
  <2> QED
    BY <1>0, <2>1, <2>3, <2>4 DEF MarksBounded, AtRest
<1>3. ASSUME NEW v \in Views, CheckpointView(v) \/ ShredCheckpoints(v) PROVE MarksBounded'
  <2>1. /\ snapshots' = [snapshots EXCEPT ![v] = AsFile(views[v])]
        /\ views' = [views EXCEPT ![v].clean = TRUE]
        /\ UNCHANGED <<attr, attrFile, saving, appender>>
    BY <1>3 DEF CheckpointView, ShredCheckpoints
  <2>2. \A w \in Views : views'[w].wm = views[w].wm /\ snapshots'[w].wm \in {snapshots[w].wm, views[w].wm}
    <3>1. \A w \in Views : views'[w].wm = views[w].wm
      BY <1>0, <2>1 DEF ViewTypes
    <3>2. AsFile(views[v]).wm = views[v].wm
      BY AsFileIs
    <3> QED
      BY <1>0, <2>1, <3>1, <3>2
  <2> QED
    BY <1>0, <2>1, <2>2, MarksAre DEF MarksBounded, AtRest
<1>4. CASE CheckpointAttr \/ AttrSaved
  <2>1. [attr EXCEPT !.dirty = FALSE].wm = attr.wm /\ AsFile(attr).wm = attr.wm
    BY <1>0, AsFileIs DEF IndexTypes
  <2>2. UNCHANGED <<views, snapshots, appender>>
        /\ attr'.wm = attr.wm /\ attrFile'.wm \in {attrFile.wm, saving.wm}
        /\ saving'.wm \in {saving.wm, attr.wm, NoFile.wm}
    BY <1>4, <2>1 DEF CheckpointAttr, AttrSaved, disk, ram
  <2> QED
    BY <1>0, <2>2, MarksAre DEF MarksBounded, AtRest
<1>5. ASSUME NEW which \in SUBSET Views, Rebuild(which) PROVE MarksBounded'
  <2>1. views' = [v \in Views |-> IF v \in which THEN Rebuilt ELSE [views[v] EXCEPT !.clean = FALSE]]
        /\ UNCHANGED <<snapshots, attr, attrFile, saving, appender>>
    BY <1>5 DEF Rebuild, disk
  <2>2. \A v \in Views : [views[v] EXCEPT !.clean = FALSE].wm = views[v].wm
    BY <1>0 DEF ViewTypes
  <2> QED
    BY <1>0, <2>1, <2>2, MarksAre DEF MarksBounded, AtRest
<1>6. CASE ShredMarks \/ ShredChecks \/ ShredFlags \/ ShredDestroys \/ ShredUnflags
  <2>1. UNCHANGED <<views, snapshots, attr, attrFile, saving, appender>>
    BY <1>6 DEF ShredMarks, ShredChecks, ShredFlags, ShredDestroys, ShredUnflags, ram
  <2> QED
    BY <1>0, <2>1 DEF MarksBounded, AtRest
<1>7. CASE ShredRebuildsViews
  <2>1. views' = [v \in Views |-> Rebuilt] /\ UNCHANGED <<snapshots, attr, attrFile, saving, appender>>
    BY <1>7 DEF ShredRebuildsViews, disk
  <2> QED
    BY <1>0, <2>1, MarksAre DEF MarksBounded, AtRest
<1>8. CASE ShredSavesAttr \/ ShredInstallsAttr
  <2>1. [RebuiltAttr EXCEPT !.dirty = FALSE].wm = RebuiltAttr.wm /\ AsFile(RebuiltAttr).wm = RebuiltAttr.wm
    BY RebuiltIs, AsFileIs DEF IndexTypes
  <2>2. UNCHANGED <<views, snapshots, saving, appender>>
        /\ attr'.wm \in {attr.wm, RebuiltAttr.wm} /\ attrFile'.wm \in {attrFile.wm, RebuiltAttr.wm}
    BY <1>8, <2>1 DEF ShredSavesAttr, ShredInstallsAttr, disk, ram
  <2> QED
    BY <1>0, <2>2, MarksAre DEF MarksBounded, AtRest
<1>9. CASE ShredReceipt
  <2>1. /\ Logs("other")
        /\ UNCHANGED <<snapshots, attrFile, saving, appender>>
        /\ views' = views \/ views' = [v \in Views |-> ViewApplied(views[v], LogHead, "blank")]
        /\ attr' = attr \/ attr' = Indexed(attr, LogHead, "blank")
    BY <1>9 DEF ShredReceipt
  <2>2. LogHead \in Lsns /\ LogHead \in Nat
    <3>1. LogHead < MaxEpisodes /\ LogHead \in Nat /\ MaxEpisodes \in Nat
      BY <2>1, LogIs DEF Logs
    <3> QED
      BY <3>1 DEF Lsns
  <2>3. /\ \A v \in Views : ViewApplied(views[v], LogHead, "blank").wm \in ViewMarks
        /\ Indexed(attr, LogHead, "blank").wm \in IndexMarks
    BY <2>2, AppliedMarks
  <2> QED
    BY <1>0, <2>1, <2>3 DEF MarksBounded, AtRest
<1>10. CASE Stop
  <2>1. /\ views' = [v \in Views |-> EmptyView] /\ attr' = EmptyAttr /\ saving' = NoFile
        /\ appender' = [a \in Appenders |-> [at |-> "idle", lsn |-> 0]]
        /\ UNCHANGED <<snapshots, attrFile>>
    BY <1>10 DEF Stop, disk
  <2>2. \A a \in Appenders : AtRest(a)' /\ appender'[a].lsn = 0
    BY <2>1 DEF AtRest
  <2> QED
    BY <1>0, <2>1, <2>2, MarksAre DEF MarksBounded, AtRest
<1>11. ASSUME NEW m \in BootModes, BootViews(m) PROVE MarksBounded'
  <2>1. UNCHANGED <<attrFile, saving, appender>>
    BY <1>11 DEF BootViews
  <2>2. \/ /\ views' = [v \in Views |-> [Rebuilt EXCEPT !.clean = TRUE]]
           /\ snapshots' = [v \in Views |-> AsFile(Rebuilt)]
           /\ attr' = RebuiltAttr \/ attr' = EmptyAttr
        \/ /\ attr' = [has |-> attrFile.has, wm |-> attrFile.wm, dirty |-> FALSE]
           /\ UNCHANGED <<views, snapshots>>
        \/ /\ views' = [v \in Views |-> CaughtUp(snapshots[v])]
           /\ snapshots' = [v \in Views |-> AsFile(CaughtUp(snapshots[v]))]
           /\ attr' = AttrCaughtUp
    BY <1>11 DEF BootViews
  <2>3. [Rebuilt EXCEPT !.clean = TRUE].wm = Rebuilt.wm
    BY RebuiltIs DEF ViewTypes
  <2>4. \A v \in Views : views'[v].wm \in ViewMarks
    BY <1>0, <2>2, <2>3, MarksAre, CaughtUpMarks
  <2>5. \A v \in Views : snapshots'[v].wm \in FileMarks
    <3>1. \A x : AsFile(x).wm = x.wm
      BY AsFileIs
    <3> QED
      BY <1>0, <2>2, <3>1, MarksAre, CaughtUpMarks
  <2>6. attr'.wm \in IndexMarks
    <3>1. attr' \in {RebuiltAttr, EmptyAttr, AttrCaughtUp}
          \/ attr' = [has |-> attrFile.has, wm |-> attrFile.wm, dirty |-> FALSE]
      BY <2>2
    <3> QED
      BY <1>0, <3>1, MarksAre, CaughtUpMarks
  <2> QED
    BY <1>0, <2>1, <2>4, <2>5, <2>6 DEF MarksBounded, AtRest
<1>12. CASE BootAttr \/ BootUnflags
  <2>1. [attr EXCEPT !.dirty = FALSE].wm = attr.wm /\ AsFile(attr).wm = attr.wm
    BY <1>0, AsFileIs DEF IndexTypes
  <2>2. UNCHANGED <<views, snapshots, saving, appender>>
        /\ attr'.wm = attr.wm /\ attrFile'.wm \in {attrFile.wm, attr.wm}
    BY <1>12, <2>1 DEF BootAttr, BootUnflags, ram
  <2> QED
    BY <1>0, <2>2 DEF MarksBounded, AtRest
<1>13. CASE UNCHANGED derivedVars
  BY <1>13 DEF derivedVars, disk, ram, MarksBounded, AtRest
<1> QED
  <2>1. CASE ShredStep
    BY <2>1, <1>3, <1>6, <1>7, <1>8, <1>9 DEF ShredStep
  <2>2. CASE Rebuild(Views) \/ \E v \in Views : Rebuild({v})
    BY <2>2, <1>5
  <2> QED
    BY <2>1, <2>2, <1>1, <1>2, <1>3, <1>4, <1>10, <1>11, <1>12, <1>13 DEF DerivedNext

LEMMA DerivedBudgetKeeps ==
    ASSUME budget \in DerivedBudgets, [DerivedNext]_derivedVars PROVE budget' \in DerivedBudgets
<1>0. MaxShreds \in Nat /\ MaxStops \in Nat
  BY DerivedAssumption
<1>1. Uses("shreds", MaxShreds) => budget' \in DerivedBudgets
  BY <1>0 DEF Uses, DerivedBudgets
<1>2. Uses("stops", MaxStops) => budget' \in DerivedBudgets
  BY <1>0 DEF Uses, DerivedBudgets
<1>3. \/ Uses("shreds", MaxShreds) \/ Uses("stops", MaxStops) \/ UNCHANGED budget
  BY DEF DerivedNext, AppendLogs, AppendAppliesViews, AppendAppliesAttr, CheckpointView, Rebuild,
     CheckpointAttr, AttrSaved, Stop, BootViews, BootAttr, BootUnflags, derivedVars, ShredStep,
     ShredMarks, ShredChecks, ShredFlags, ShredDestroys, ShredRebuildsViews, ShredCheckpoints,
     ShredSavesAttr, ShredInstallsAttr, ShredReceipt, ShredUnflags
<1> QED
  BY <1>1, <1>2, <1>3

LEMMA DerivedInitBounds == ASSUME DerivedInit PROVE DerivedBounds
<1>1. /\ episodes = << >> /\ key.gen = 0
      /\ views = [v \in Views |-> EmptyView] /\ snapshots = [v \in Views |-> NoFile]
      /\ attr = EmptyAttr /\ attrFile = NoFile /\ saving = NoFile
      /\ appender = [a \in Appenders |-> [at |-> "idle", lsn |-> 0]]
      /\ budget = [shreds |-> 0, stops |-> 0]
  BY DEF DerivedInit
<1>2. LogBounded
  BY <1>1 DEF LogBounded, LogHead
<1>3. MarksBounded
  BY <1>1 DEF MarksBounded, EmptyView, EmptyAttr, NoFile, ViewMarks, FileMarks, IndexMarks, AtRest
<1>4. budget \in DerivedBudgets
  BY <1>1, DerivedAssumption DEF DerivedBudgets
<1>5. overtaken = FALSE
  BY DEF DerivedInit
<1> QED
  BY <1>2, <1>3, <1>4, <1>5 DEF DerivedBounds

LEMMA DerivedBoundsKeep ==
    ASSUME DerivedTypes, DerivedBounds, [DerivedNext]_derivedVars PROVE DerivedTypes' /\ DerivedBounds'
<1>1. LogBounded /\ MarksBounded /\ budget \in DerivedBudgets /\ overtaken \in BOOLEAN
  BY DEF DerivedBounds
<1> QED
  BY <1>1, DerivedTypesKeep, LogBoundedKeeps, MarksKeep, DerivedBudgetKeeps, OvertakenStays DEF DerivedBounds

LEMMA DerivedTypesHold == ASSUME DerivedTypes, DerivedBounds PROVE DerivedTypeOK
<1>1. DerivedTypes /\ LogBounded /\ MarksBounded /\ budget \in DerivedBudgets
  BY DEF DerivedBounds
<1>2. episodes \in Seq([kind : Kinds \cup {"other"}, key : 0 .. MaxEpisodes])
  BY <1>1 DEF LogBounded, LoggedTypes
<1>3. key \in [alive : BOOLEAN, gen : 0 .. MaxEpisodes]
  <2>1. key \in [alive : BOOLEAN, gen : Nat] /\ key.gen <= LogHead
    BY <1>1 DEF DerivedTypes, LogBounded
  <2>2. LogHead \in Nat /\ MaxEpisodes \in Nat /\ LogHead <= MaxEpisodes /\ key.gen \in Nat
    BY <1>1, LogIs
  <2>3. key.gen \in 0 .. MaxEpisodes
    BY <2>1, <2>2
  <2> QED
    BY <2>1, <2>3
<1>4. {shredded, marker, unmaterialized, attrIncomplete, overtaken} \subseteq BOOLEAN
  BY <1>1 DEF DerivedTypes, DerivedBounds
<1>5. \A v \in Views : views[v].has \in Content /\ views[v].wm \in Lsns \cup {0}
  BY <1>1 DEF DerivedTypes, ViewTypes, MarksBounded, ViewMarks
<1>6. \A v \in Views : snapshots[v].has \in Content /\ snapshots[v].wm \in Lsns \cup {-1, 0}
  BY <1>1 DEF DerivedTypes, FileTypes, MarksBounded, FileMarks
<1>7. attr.has \in Content /\ attr.wm \in Lsns \cup {-1} /\ attr.dirty \in BOOLEAN
  BY <1>1 DEF DerivedTypes, IndexTypes, MarksBounded, IndexMarks
<1>8. {attrFile.has, saving.has} \subseteq Content
  BY <1>1 DEF DerivedTypes, FileTypes
<1>9. appender \in [Appenders -> [at : {"idle", "views", "attr"}, lsn : Lsns \cup {0}]]
  <2>1. appender \in [Appenders -> [at : AppendSteps, lsn : Nat]]
        /\ \A a \in Appenders : appender[a].lsn \in Lsns \cup {0}
    BY <1>1 DEF DerivedTypes, MarksBounded, ViewMarks
  <2> QED
    BY <2>1 DEF AppendSteps
<1>10. process \in {"down", "attr", "unflag", "up"} /\ mode \in Modes
  BY <1>1 DEF DerivedTypes
<1>11. budget \in [shreds : 0 .. MaxShreds, stops : 0 .. MaxStops]
  BY <1>1 DEF DerivedBudgets
<1> QED
  BY <1>2, <1>3, <1>4, <1>5, <1>6, <1>7, <1>8, <1>9, <1>10, <1>11 DEF DerivedTypeOK

\* On a replica too, the log stays within its bound, and no key, watermark or
\* LSN in hand is of an episode that was never logged.
THEOREM DerivedTyped == DerivedSpec => []DerivedTypeOK
<1>1. DerivedInit => DerivedTypes /\ DerivedBounds
  BY DerivedInitTypes, DerivedInitBounds
<1>2. DerivedTypes /\ DerivedBounds /\ [DerivedNext]_derivedVars => DerivedTypes' /\ DerivedBounds'
  BY DerivedBoundsKeep
<1>3. DerivedTypes /\ DerivedBounds => DerivedTypeOK
  BY DerivedTypesHold
<1> QED
  BY <1>1, <1>2, <1>3, PTL DEF DerivedSpec
=============================================================================
